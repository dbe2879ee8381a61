---------------------------- MODULE ResourceLocks ----------------------------
(***************************************************************************)
(* The lock registry: src-tauri/src/locks/mod.rs (LockRegistry) and        *)
(* locks/lifecycle.rs (the loop that reaps stale locks).                   *)
(*                                                                         *)
(* Every registry call runs under one mutex, so each is one action.  A     *)
(* lock records the age of its last heartbeat, now - last_heartbeat_at,    *)
(* instead of a clock reading; Tick makes every lock older.  Ages stop     *)
(* counting at MaxAge, the first age at which a lock is stale.             *)
(***************************************************************************)
EXTENDS LockScopes, Naturals

CONSTANTS
  LockId,    \* UUIDs; finite for TLC, which bounds the acquisitions
  TTL,       \* ttl_secs, in ticks; every caller passes the same value
  Free       \* the owner of an object that no lock covers

ASSUME LockAssumption ==
  /\ TTL \in Nat
  /\ Free \notin LockId

VARIABLES
  locks,     \* the registry: a function from the ids of live locks
  issued     \* the UUIDs minted so far: none is minted twice

lockVars == <<locks, issued>>

MaxAge == TTL + 1
Lock == [scope : Scope, age : 0..MaxAge]
live == DOMAIN locks

\* Every lock is one that was issued, of a scope one can ask for, and its last
\* heartbeat is not in the future.
TypeOK ==
  /\ issued \subseteq LockId
  /\ live \subseteq issued
  /\ locks \in [live -> Lock]

Init == locks = [id \in {} |-> {}] /\ issued = {}

-----------------------------------------------------------------------------

\* A map with one more entry.
With(f, x, v) == [y \in DOMAIN f \cup {x} |-> IF y = x THEN v ELSE f[y]]

\* The registry after the locks in S are removed.
Without(S) == [id \in live \ S |-> locks[id]]

\* acquire finds a live lock that it collides with and returns Locked.
Conflicts(s) == \E id \in live : Intersects(locks[id].scope, s)

\* Mutant: acquire takes over the objects of locks that have gone stale.
AcquireStealing(id, s, lag) ==
  LET fresh == {i \in live : locks[i].age <= TTL \/ ~Intersects(locks[i].scope, s)} IN
  /\ id \notin issued
  /\ \A i \in fresh : ~Intersects(locks[i].scope, s)
  /\ locks' = [i \in fresh \cup {id} |->
                 IF i = id THEN [scope |-> s, age |-> lag] ELSE locks[i]]
  /\ issued' = issued \cup {id}

(***************************************************************************)
(* acquire: the conflict scan and the insertion are one critical section.  *)
(* The caller read the clock `lag' ticks before the call.                  *)
(***************************************************************************)
Acquire(id, s, lag) ==
  /\ id \notin issued
  /\ ~Conflicts(s)
  /\ locks' = With(locks, id, [scope |-> s, age |-> lag])
  /\ issued' = issued \cup {id}

\* Mutant: the heartbeat notes when the lock is to expire, not when it came.
HeartbeatDeadline(id) ==
  /\ id \in live
  /\ locks' = [locks EXCEPT ![id].age = 0 - TTL]
  /\ UNCHANGED issued

\* heartbeat; NotFound, which changes nothing, for an id that is not live.
Heartbeat(id) ==
  /\ id \in live
  /\ locks' = [locks EXCEPT ![id].age = 0]
  /\ UNCHANGED issued

\* release, by the holder or by the lock_release_stale command.
Release(id) ==
  /\ id \in live
  /\ locks' = Without({id})
  /\ UNCHANGED issued

Stale(l) == l.age > TTL

\* Mutant: stale locks are found and reported, and stay registered.
ReleaseStaleReportOnly ==
  /\ \E id \in live : Stale(locks[id])
  /\ UNCHANGED lockVars

\* release_stale, run by the background loop.
ReleaseStale ==
  /\ \E id \in live : Stale(locks[id])
  /\ locks' = Without({id \in live : Stale(locks[id])})
  /\ UNCHANGED issued

(***************************************************************************)
(* The process ends and the app is started again: the registry is memory,  *)
(* and startup_cleanup drains it before any command runs.                  *)
(***************************************************************************)
Restart ==
  /\ locks' = [id \in {} |-> {}]
  /\ UNCHANGED issued

Older(l) == [l EXCEPT !.age = IF @ < MaxAge THEN @ + 1 ELSE @]

Tick ==
  /\ locks' = [id \in live |-> Older(locks[id])]
  /\ UNCHANGED issued

Next ==
  \/ \E id \in LockId, s \in Scope, lag \in 0..MaxAge : Acquire(id, s, lag)
  \/ \E id \in LockId : Heartbeat(id) \/ Release(id)
  \/ ReleaseStale
  \/ Restart
  \/ Tick

Spec == Init /\ [][Next]_lockVars

(***************************************************************************)
(* Time passes, and the loop of start_heartbeat_loop never ends.  Nothing  *)
(* is assumed of the operations: a holder may never release its lock.      *)
(***************************************************************************)
Fairness == WF_lockVars(Tick) /\ WF_lockVars(ReleaseStale)
FairSpec == Spec /\ Fairness

-----------------------------------------------------------------------------

(***************************************************************************)
(* No object is covered by two live locks, however their scopes are        *)
(* written: what `intersects', asked in one direction only and over mixed  *)
(* key, prefix, bucket and profile scopes, has to guarantee.               *)
(***************************************************************************)
MutualExclusion ==
  \A i, j \in live :
    i # j => Covers(locks[i].scope) \cap Covers(locks[j].scope) = {}

(***************************************************************************)
(* A request is refused only when some live lock covers one of the objects *)
(* it asks for: operations on distinct objects do not falsely conflict.    *)
(***************************************************************************)
NoFalseConflict ==
  \A s \in Scope : Conflicts(s) =>
    \E id \in live : Covers(locks[id].scope) \cap Covers(s) # {}

(***************************************************************************)
(* A lock that nobody heartbeats or releases (its operation returned early *)
(* or hangs) is gone in the end.                                           *)
(***************************************************************************)
LeakedLockExpires ==
  <>[][\A id \in LockId : ~Heartbeat(id)]_lockVars
    => \A id \in LockId : id \in live ~> id \notin live

(***************************************************************************)
(* The registry implements single ownership of objects.                    *)
(***************************************************************************)
OwnerOf(o) ==
  IF \E id \in live : o \in Covers(locks[id].scope)
    THEN CHOOSE id \in live : o \in Covers(locks[id].scope)
    ELSE Free

Ownership == INSTANCE ObjectOwnership WITH owner <- [o \in Object |-> OwnerOf(o)]

\* Each object has one owner at most, and never changes owner directly.
ImplementsOwnership == Ownership!Spec

=============================================================================
