--------------------------- MODULE ObjectMutations ---------------------------
(***************************************************************************)
(* The commands that change objects, over the lock registry and the cache  *)
(* of listings: src-tauri/src/commands/objects_cmd.rs with s3/object.rs    *)
(* and cache/invalidation.rs.                                              *)
(*                                                                         *)
(* Keys are sequences of path components, so parent_prefix is Front and a  *)
(* key whose last component is a folder is the placeholder of that folder. *)
(* A version of an object is the operation that wrote it.  All objects are *)
(* in one bucket.  What one command does to the cache is one call of the   *)
(* store each; the layers inside the store are not distinguished here.     *)
(***************************************************************************)
EXTENDS ResourceLocks, TLC

CONSTANTS
  Op,          \* operations; finite for TLC, which bounds how many there are
  Job,         \* what operations may be asked to do
  Folder,      \* the path components that end in a slash
  Rank,        \* the order of prefixes as strings, as numbers
  ChunkSize,   \* DELETE_BATCH_SIZE
  Fetch,       \* listings under way at one time
  Page,        \* the listings that are asked for
  TheProfile, TheBucket,
  Existing,    \* the objects in the bucket at the start
  Absent       \* the version of an object that does not exist

ASSUME MutationAssumption ==
  /\ <<>> \notin Key
  /\ \A k \in Key : Front(k) \in Prefix /\ (Last(k) \in Folder => k \in Prefix)
  /\ Job \subseteq [kind : {"copy", "move", "folder", "write", "delete"}, keys : Seq(Key)]
  /\ Page \subseteq [prefix : Prefix, flat : BOOLEAN]
  /\ Rank \in [Prefix -> Nat] /\ Existing \subseteq Key
  /\ ChunkSize \in Nat \ {0}
  /\ TheProfile \in Profile /\ TheBucket \in Bucket
  /\ {None, Absent} \cap Op = {} /\ None # Absent

VARIABLES
  ops,        \* operations started: id -> record
  objects,    \* the bucket: key -> whether it exists, and who changed it last
  listings,   \* CacheStore: page -> what is cached of it, or None
  fetching,   \* listings under way: what S3 answered, not yet in the cache
  lost        \* some operation has lost a lock while it was running

opVars == <<ops, objects, listings, fetching, lost>>
vars == <<lockVars, opVars>>

\* locking: to take the next lock;  announcing: to look it up;  connecting: to
\* get a client;  calling: S3;  copied: a move between copy and delete;
\* releasing: the outcome is known;  invalidating: locks gone;  ended.
Stage == {"locking", "announcing", "connecting", "calling", "copied",
          "releasing", "invalidating", "ended"}
Result == {"ok", "error", "locked", "pool_miss", "panic"}
Version == Op \cup {None, Absent}

Operation ==
  [job : Job, stage : Stage, result : Result \cup {None},
   held : Seq(LockId),        \* locks taken and not yet released, in order
   todo : Seq(Key),           \* delete: keys not yet sent
   changed : SUBSET Key,      \* delete: keys S3 reported as deleted
   source : Version,          \* move: the version that was copied
   stale : Seq(Prefix),       \* prefixes still to invalidate
   blockers : SUBSET Op]      \* whose locks refused it

Listing == UNION {[K -> Version] : K \in SUBSET Key}

MutationTypeOK ==
  /\ TypeOK
  /\ DOMAIN ops \subseteq Op /\ ops \in [DOMAIN ops -> Operation]
  /\ objects \in [Key -> [here : BOOLEAN, by : Op \cup {None}]]
  /\ listings \in [Page -> [content : Listing, current : BOOLEAN] \cup {None}]
  /\ fetching \in [Fetch -> [page : Page, content : Listing] \cup {None}]
  /\ lost \in BOOLEAN

MutationInit ==
  /\ Init
  /\ ops = [o \in {} |-> {}]
  /\ objects = [k \in Key |-> [here |-> k \in Existing, by |-> None]]
  /\ listings = [p \in Page |-> None]
  /\ fetching = [f \in Fetch |-> None]
  /\ lost = FALSE

started == DOMAIN ops
AtStage(o, stage) == o \in started /\ ops[o].stage = stage

-----------------------------------------------------------------------------
(***************************************************************************)
(* What each command locks, and which listings it invalidates.             *)
(***************************************************************************)

Before(p, q) == Rank[p] < Rank[q]

\* Mutant: prefixes are locked in the order in which the keys were given.
ParentsAsGiven(keys) ==
  LET first(i) == \A j \in 1..(i - 1) : Front(keys[j]) # Front(keys[i]) IN
  [i \in {n \in DOMAIN keys : first(n)} |-> Front(keys[i])]

\* A BTreeSet of prefixes, in its order.
Sorted(P) ==
  CHOOSE seq \in [1..Cardinality(P) -> P] : \A i, j \in DOMAIN seq : i < j => Before(seq[i], seq[j])

Parents(keys) == Sorted({Front(keys[i]) : i \in DOMAIN keys})

\* Mutant: a copy or move locks the second of its two folders only.
DestinationOnly(j) == <<Front(j.keys[2])>>

\* The folders that a copy or a move locks: source first, then destination.
Ends(j) == <<Front(j.keys[1]), Front(j.keys[2])>>

\* The scopes an operation locks, one after the other.
Wanted(j) ==
  LET folder(p) == PrefixScope(TheProfile, TheBucket, p)
      object(k) == [KeyScope(TheProfile, TheBucket, k) EXCEPT !.prefix = Front(k)]
      folders(s) == [i \in DOMAIN s |-> folder(s[i])] IN
  CASE j.kind \in {"copy", "move"} -> folders(Ends(j))
    [] j.kind = "folder"           -> <<folder(j.keys[1])>>
    [] j.kind = "write"            -> <<object(j.keys[1])>>
    [] j.kind = "delete"           -> folders(Parents(j.keys))

\* The order of strings: two are never equal, a prefix comes before what it
\* begins, and between the two comes only what it begins.
ASSUME RankAssumption ==
  /\ \A p, q \in Prefix : Rank[p] = Rank[q] => p = q
  /\ \A p, q \in Prefix : IsPrefix(p, q) => Rank[p] <= Rank[q]
  /\ \A p, q, r \in Prefix :
       IsPrefix(p, r) /\ Rank[p] <= Rank[q] /\ Rank[q] <= Rank[r] => IsPrefix(p, q)

\* A command names its keys; UUIDs do not run out.
ASSUME JobAssumption ==
  \A j \in Job : /\ j.kind \in {"copy", "move"} => Len(j.keys) = 2
                 /\ j.kind \in {"folder", "write"} => Len(j.keys) = 1
                 /\ j.kind = "folder" => j.keys[1] \in Prefix
                 /\ j.kind = "delete" => j.keys # <<>>
                 /\ Op \X DOMAIN Wanted(j) \subseteq LockId

\* Mutant: a move invalidates the folder it moves to.
AffectedDestination(j, deleted) ==
  IF j.kind = "delete" THEN Sorted({Front(k) : k \in deleted})
  ELSE <<Front(j.keys[Len(j.keys)])>>

\* The prefixes that the command passes to on_object_mutation on success.
Affected(j, deleted) ==
  CASE j.kind = "move"   -> <<Front(j.keys[1]), Front(j.keys[2])>>
    [] j.kind = "delete" -> Sorted({Front(k) : k \in deleted})
    [] OTHER             -> <<Front(j.keys[Len(j.keys)])>>

-----------------------------------------------------------------------------
(***************************************************************************)
(* An operation, up to the client.                                         *)
(***************************************************************************)

Start(o, j) ==
  /\ o \in Op \ started
  /\ ops' = With(ops, o, [job |-> j, stage |-> "locking", result |-> None,
                          held |-> <<>>, todo |-> j.keys, changed |-> {},
                          source |-> None, stale |-> <<>>, blockers |-> {}])
  /\ UNCHANGED <<lockVars, objects, listings, fetching, lost>>

NextScope(o) == Wanted(ops[o].job)[Len(ops[o].held) + 1]

TakeLock(o) ==
  /\ AtStage(o, "locking")
  /\ LET id == <<o, Len(ops[o].held) + 1>> IN
       /\ Acquire(id, NextScope(o), 0)
       /\ ops' = [ops EXCEPT ![o].stage = "announcing", ![o].held = Append(@, id)]
  /\ UNCHANGED <<objects, listings, fetching, lost>>

\* Locked: the locks taken so far are given back, in the order they were taken.
Refused(o) ==
  /\ AtStage(o, "locking")
  /\ Conflicts(NextScope(o))
  /\ ops' = [ops EXCEPT
       ![o].stage = IF ops[o].held = <<>> THEN "ended" ELSE "releasing",
       ![o].result = "locked",
       ![o].blockers = {id[1] : id \in {i \in live : Intersects(locks[i].scope, NextScope(o))}}]
  /\ UNCHANGED <<lockVars, objects, listings, fetching, lost>>

\* The new lock is looked up for its event.  The lookup panics if it is gone.
Announce(o) ==
  /\ AtStage(o, "announcing")
  /\ LET found == Last(ops[o].held) \in live
         more  == Len(ops[o].held) < Len(Wanted(ops[o].job)) IN
       ops' = [ops EXCEPT
         ![o].stage = IF ~found THEN "ended" ELSE IF more THEN "locking" ELSE "connecting",
         ![o].result = IF found THEN None ELSE "panic"]
  /\ UNCHANGED <<lockVars, objects, listings, fetching, lost>>

Connect(o) ==
  /\ AtStage(o, "connecting")
  /\ ops' = [ops EXCEPT ![o].stage = "calling"]
  /\ UNCHANGED <<lockVars, objects, listings, fetching, lost>>

\* The pool knows no client of the profile: `?' skips the release.
PoolMiss(o) ==
  /\ AtStage(o, "connecting")
  /\ ops' = [ops EXCEPT ![o].stage = "ended", ![o].result = "pool_miss"]
  /\ UNCHANGED <<lockVars, objects, listings, fetching, lost>>

-----------------------------------------------------------------------------
(***************************************************************************)
(* S3.  Every request may take effect and yet fail for the caller.         *)
(***************************************************************************)

Seen(k) == IF objects[k].here THEN objects[k].by ELSE Absent

Put(o, k) == objects' = [objects EXCEPT ![k] = [here |-> TRUE, by |-> o]]
Erase(o, K) ==
  objects' = [k \in Key |-> IF k \in K THEN [here |-> FALSE, by |-> o] ELSE objects[k]]

\* The locks are given back in this order.
Returned(o) ==
  IF ops[o].job.kind \in {"copy", "move"} THEN Reverse(ops[o].held) ELSE ops[o].held

\* The result is known; it is used once the locks are released.
Outcome(o, result) ==
  [ops[o] EXCEPT !.stage = "releasing", !.result = result, !.held = Returned(o)]

Succeed(o) == ops' = [ops EXCEPT ![o] = Outcome(o, "ok")]
Fail(o) == ops' = [ops EXCEPT ![o] = Outcome(o, "error")]

\* copy_object, create_folder, put_object_text, set_metadata: one request.
PutObject(o) ==
  /\ AtStage(o, "calling") /\ ops[o].job.kind \in {"copy", "folder", "write"}
  /\ LET keys == ops[o].job.keys IN
       \/ /\ ops[o].job.kind = "copy" => objects[keys[1]].here
          /\ Put(o, Last(keys))
          /\ Succeed(o) \/ Fail(o)
       \/ Fail(o) /\ UNCHANGED objects
  /\ UNCHANGED <<lockVars, listings, fetching, lost>>

\* move_object: the copy.
MoveCopy(o) ==
  /\ AtStage(o, "calling") /\ ops[o].job.kind = "move"
  /\ LET keys == ops[o].job.keys IN
       \/ /\ objects[keys[1]].here
          /\ Put(o, keys[2])
          /\ \/ ops' = [ops EXCEPT ![o].stage = "copied", ![o].source = Seen(keys[1])]
             \/ Fail(o)
       \/ Fail(o) /\ UNCHANGED objects
  /\ UNCHANGED <<lockVars, listings, fetching, lost>>

\* move_object: the deletion of the source.
MoveDelete(o) ==
  /\ AtStage(o, "copied")
  /\ \/ Erase(o, {ops[o].job.keys[1]}) /\ (Succeed(o) \/ Fail(o))
     \/ Fail(o) /\ UNCHANGED objects
  /\ UNCHANGED <<lockVars, listings, fetching, lost>>

\* delete_objects_batch: one request for each chunk of the keys.  S3 deletes
\* some of them and reports the others; a request that fails ends the batch.
DeleteChunk(o) ==
  /\ AtStage(o, "calling") /\ ops[o].job.kind = "delete"
  /\ LET todo  == ops[o].todo
         n     == IF Len(todo) < ChunkSize THEN Len(todo) ELSE ChunkSize
         rest  == SubSeq(todo, n + 1, Len(todo)) IN
       \E K \in SUBSET {todo[i] : i \in 1..n} :
         /\ Erase(o, K)
         /\ \/ Fail(o)
            \/ ops' = [ops EXCEPT ![o] =
                 [(IF rest = <<>> THEN Outcome(o, "ok") ELSE ops[o])
                    EXCEPT !.todo = rest, !.changed = @ \cup K]]
  /\ UNCHANGED <<lockVars, listings, fetching, lost>>

-----------------------------------------------------------------------------
(***************************************************************************)
(* The way out.                                                            *)
(***************************************************************************)

\* Where an operation goes once its last lock is given back.
Leave(op) ==
  LET stale == IF op.result = "ok" THEN Affected(op.job, op.changed) ELSE <<>> IN
  [op EXCEPT !.stage = IF stale = <<>> THEN "ended" ELSE "invalidating", !.stale = stale]

\* Mutant: the lock of the source is forgotten when the operation has failed.
GiveBackOnSuccess(o) ==
  /\ AtStage(o, "releasing")
  /\ LET id == Head(ops[o].held) IN
       /\ IF id \in live /\ (ops[o].result # "error" \/ Len(ops[o].held) > 1)
            THEN Release(id) ELSE UNCHANGED lockVars
       /\ LET op == [ops[o] EXCEPT !.held = Tail(@)] IN
            ops' = [ops EXCEPT ![o] = IF op.held = <<>> THEN Leave(op) ELSE op]
  /\ UNCHANGED <<objects, listings, fetching, lost>>

GiveBack(o) ==
  /\ AtStage(o, "releasing")
  /\ LET id == Head(ops[o].held) IN
       /\ IF id \in live THEN Release(id) ELSE UNCHANGED lockVars
       /\ LET op == [ops[o] EXCEPT !.held = Tail(@)] IN
            ops' = [ops EXCEPT ![o] = IF op.held = <<>> THEN Leave(op) ELSE op]
  /\ UNCHANGED <<objects, listings, fetching, lost>>

\* on_object_mutation: the hierarchical listing of the prefix, and no other.
Invalidate(o) ==
  /\ AtStage(o, "invalidating")
  /\ LET rest == Tail(ops[o].stale) IN
       ops' = [ops EXCEPT ![o].stale = rest,
                          ![o].stage = IF rest = <<>> THEN "ended" ELSE @]
  /\ listings' = [p \in Page |->
       IF ~p.flat /\ p.prefix = Head(ops[o].stale) THEN None ELSE listings[p]]
  /\ UNCHANGED <<lockVars, objects, fetching, lost>>

-----------------------------------------------------------------------------
(***************************************************************************)
(* Listings and the environment.                                           *)
(***************************************************************************)

Direct(p) == {k \in Key : Front(k) = p}

\* What S3 shows of a key: a folder shows while any object is in it.
Shown(k, flat) ==
  IF flat \/ Last(k) \notin Folder THEN Seen(k)
  ELSE IF \E j \in Key : IsPrefix(k, j) /\ objects[j].here THEN None ELSE Absent

Answer(p) ==
  [k \in IF p.flat THEN {i \in Key : IsPrefix(p.prefix, i)} ELSE Direct(p.prefix) |->
     Shown(k, p.flat)]

\* objects_list, objects_list_flat: no entry in the cache, or a forced refresh.
List(f, p, force) ==
  /\ fetching[f] = None
  /\ listings[p] = None \/ force
  /\ fetching' = [fetching EXCEPT ![f] = [page |-> p, content |-> Answer(p)]]
  /\ UNCHANGED <<lockVars, ops, objects, listings, lost>>

\* The answer goes into the cache.  `current' says whether it is still true.
StoreListing(f) ==
  /\ fetching[f] # None
  /\ LET r == fetching[f] IN
       listings' = [listings EXCEPT ![r.page] =
         [content |-> r.content, current |-> r.content = Answer(r.page)]]
  /\ fetching' = [fetching EXCEPT ![f] = None]
  /\ UNCHANGED <<lockVars, ops, objects, lost>>

\* An entry expires, is evicted, or the cache is cleared.
Expire(p) ==
  /\ listings[p] # None
  /\ listings' = [listings EXCEPT ![p] = None]
  /\ UNCHANGED <<lockVars, ops, objects, fetching, lost>>

\* A lock is reaped, or released by the lock_release_stale command.
Lapse(id) ==
  /\ Release(id)
  /\ lost' = (lost \/ ops[id[1]].stage # "ended")
  /\ UNCHANGED <<ops, objects, listings, fetching>>

OpStep(o) ==
  \/ TakeLock(o) \/ Refused(o) \/ Announce(o) \/ Connect(o) \/ PoolMiss(o)
  \/ PutObject(o) \/ MoveCopy(o) \/ MoveDelete(o) \/ DeleteChunk(o)
  \/ GiveBack(o) \/ Invalidate(o)

MutationNext ==
  \/ \E o \in Op, j \in Job : Start(o, j)
  \/ \E o \in Op : OpStep(o)
  \/ \E f \in Fetch, p \in Page, force \in BOOLEAN : List(f, p, force)
  \/ \E f \in Fetch : StoreListing(f)
  \/ \E p \in Page : Expire(p)
  \/ \E id \in live : Lapse(id)

MutationSpec == MutationInit /\ [][MutationNext]_vars

-----------------------------------------------------------------------------
(***************************************************************************)
(* Safety.                                                                 *)
(***************************************************************************)

AtS3(o) == AtStage(o, "calling") \/ AtStage(o, "copied")
Touches(j) == {j.keys[i] : i \in DOMAIN j.keys}
Writes(j) == IF j.kind = "copy" THEN {j.keys[2]} ELSE Touches(j)

(***************************************************************************)
(* As long as no lock lapses, an object that one operation reads or writes *)
(* at S3 is not written by another one: the scopes that each command locks *)
(* (a folder, the new folder, one key) suffice for what it does.           *)
(***************************************************************************)
OneWriter ==
  \A o, q \in started :
    o # q /\ AtS3(o) /\ AtS3(q) /\ ~lost =>
      Writes(ops[o].job) \cap Touches(ops[q].job) = {}

(***************************************************************************)
(* The comment of move_object asks its callers for a lock on the source:   *)
(* between copy and deletion the source is still what was copied, and the  *)
(* copy is still there, so a move loses nothing.                           *)
(***************************************************************************)
MoveLosesNothing ==
  \A o \in started : AtStage(o, "copied") /\ ~lost =>
    /\ Seen(ops[o].job.keys[1]) = ops[o].source
    /\ Seen(ops[o].job.keys[2]) = o

(***************************************************************************)
(* What the folder and key locks of objects_cmd.rs are for: one writer at  *)
(* a time, and moves that find what they copied when they come to delete   *)
(* it.                                                                     *)
(***************************************************************************)
MutationsExclude == MutationTypeOK /\ OneWriter /\ MoveLosesNothing

(***************************************************************************)
(* An operation that has ended holds no lock, whichever lock, request or   *)
(* chunk failed, except after a panic or when the pool had no client (the  *)
(* comments of object_copy and object_delete_batch make no exception).     *)
(***************************************************************************)
LocksReturned ==
  \A id \in live : AtStage(id[1], "ended") => ops[id[1]].result \in {"pool_miss", "panic"}

(***************************************************************************)
(* Of two batches that delete in the same folders one gets its locks: they *)
(* are taken in the order of the prefixes (object_delete_batch), so two    *)
(* batches never refuse each other.                                        *)
(***************************************************************************)
BatchesDoNotRefuseEachOther ==
  \A o, q \in started :
    /\ o # q
    /\ ops[o].job.kind = "delete" /\ ops[q].job.kind = "delete"
    => ~(q \in ops[o].blockers /\ o \in ops[q].blockers)

\* A cached entry says what S3 has; of a folder, that it is there if it has a
\* placeholder.
Agrees(p, k) ==
  IF p.flat \/ Last(k) \notin Folder THEN listings[p].content[k] = Seen(k)
  ELSE objects[k].here => listings[p].content[k] # Absent

\* The last change of k is one that its command has not reported as done.
Unsettled(k) ==
  objects[k].by # None /\ ~(AtStage(objects[k].by, "ended") /\ ops[objects[k].by].result = "ok")

Follows(p) ==
  listings[p] # None /\ listings[p].current =>
    \A k \in DOMAIN listings[p].content : Agrees(p, k) \/ Unsettled(k)

(***************************************************************************)
(* What the cache says of the objects directly under a prefix differs from *)
(* S3 only where the last change is under way or has failed, unless it was *)
(* out of date already when it was stored.                                 *)
(***************************************************************************)
ListingsFollow == \A p \in Page : ~p.flat => Follows(p)

(***************************************************************************)
(* docs/concepts/cache.md, invalidation matrix: all listings under the     *)
(* parent prefix.  Here: the flat ones too.                                *)
(***************************************************************************)
FlatListingsFollow == \A p \in Page : Follows(p)

(***************************************************************************)
(* docs/guide/operations.md: a rename is a copy and a deletion within one  *)
(* prefix.  Here: no operation is refused because of a lock of its own.    *)
(***************************************************************************)
NotInItsOwnWay == \A o \in started : o \notin ops[o].blockers

=============================================================================
