------------------------- MODULE ResourceLocksProofs -------------------------
(***************************************************************************)
(* Proofs about the lock registry, for every set of profiles, buckets,     *)
(* keys and prefixes, every set of lock ids and every TTL.                 *)
(*                                                                         *)
(* The argument: two scopes that cover a common object intersect           *)
(* (OverlapIntersects), so acquire, which compares the new scope with each *)
(* live one, never registers a lock over an object that is already         *)
(* covered; every other action removes locks or changes their age only.    *)
(***************************************************************************)
EXTENDS ResourceLocks, SequenceTheorems, TLAPS

(***************************************************************************)
(* Two prefixes of one key: one of them is a prefix of the other.          *)
(***************************************************************************)
LEMMA PrefixesOfOneKey ==
  ASSUME NEW S, NEW k \in Seq(S), NEW p \in Seq(S), NEW q \in Seq(S),
         IsPrefix(p, k), IsPrefix(q, k), Len(p) <= Len(q)
  PROVE  IsPrefix(p, q)
<1>1. Len(p) \in Nat /\ Len(q) \in Nat /\ Len(k) \in Nat
  OBVIOUS
<1>2. p = SubSeq(k, 1, Len(p)) /\ q = SubSeq(k, 1, Len(q)) /\ Len(q) <= Len(k)
  <2>1. SubSeq(p, 1, Len(p)) = p /\ SubSeq(q, 1, Len(q)) = q
    OBVIOUS
  <2>2. QED
    BY <2>1 DEF IsPrefix
<1>3. SubSeq(q, 1, Len(p)) = SubSeq(k, 1, Len(p))
  BY <1>1, <1>2
<1>4. SubSeq(p, 1, Len(p)) = p
  OBVIOUS
<1>5. QED
  BY <1>2, <1>3, <1>4 DEF IsPrefix

(***************************************************************************)
(* A prefix of a prefix is a prefix.                                       *)
(***************************************************************************)
LEMMA PrefixTransitive ==
  ASSUME NEW S, NEW p \in Seq(S), NEW q \in Seq(S), NEW k \in Seq(S),
         IsPrefix(p, q), IsPrefix(q, k)
  PROVE  IsPrefix(p, k)
<1>1. Len(p) \in Nat /\ Len(q) \in Nat /\ Len(k) \in Nat
  OBVIOUS
<1>2. Len(p) <= Len(q) /\ Len(q) <= Len(k)
  BY DEF IsPrefix
<1>3. q = SubSeq(k, 1, Len(q))
  <2>1. SubSeq(q, 1, Len(q)) = q
    OBVIOUS
  <2>2. QED
    BY <2>1 DEF IsPrefix
<1>4. SubSeq(q, 1, Len(p)) = SubSeq(k, 1, Len(p))
  BY <1>1, <1>2, <1>3
<1>5. QED
  BY <1>1, <1>2, <1>4 DEF IsPrefix

(***************************************************************************)
(* `intersects' asked in either direction gives the same answer.           *)
(***************************************************************************)
LEMMA IntersectsSymmetric ==
  ASSUME NEW s \in Scope, NEW t \in Scope
  PROVE  Intersects(s, t) <=> Intersects(t, s)
BY DEF Intersects, SameBucketMeet, PrefixesMeet

(***************************************************************************)
(* Scopes that cover a common object intersect: the registry misses no     *)
(* collision.                                                              *)
(***************************************************************************)
THEOREM OverlapIntersects ==
  ASSUME NEW s \in Scope, NEW t \in Scope,
         NEW o, o \in Covers(s), o \in Covers(t)
  PROVE  Intersects(s, t)
<1>1. o \in Object /\ s.profile = t.profile
  BY DEF Covers
<1>2. CASE s.bucket = None \/ t.bucket = None
  BY <1>1, <1>2 DEF Intersects
<1>3. CASE s.bucket # None /\ t.bucket # None
  <2>1. s.bucket = t.bucket
    BY <1>3 DEF Covers
  <2>2. CASE s.key # None \/ t.key # None
    <3>1. SameBucketMeet(s, t)
      BY <1>3, <2>2 DEF Covers, SameBucketMeet, KeyUnder
    <3>2. QED
      BY <1>1, <2>1, <3>1 DEF Intersects
  <2>3. CASE s.key = None /\ t.key = None
    <3>1. PrefixesMeet(s, t)
      <4>1. CASE s.prefix = None \/ t.prefix = None
        BY <4>1 DEF PrefixesMeet
      <4>2. CASE s.prefix # None /\ t.prefix # None
        <5>1. IsPrefix(s.prefix, o.key) /\ IsPrefix(t.prefix, o.key)
          BY <1>3, <2>3, <4>2 DEF Covers, KeyUnder
        <5>2. /\ o.key \in Seq(Chunk)
              /\ s.prefix \in Seq(Chunk)
              /\ t.prefix \in Seq(Chunk)
          BY <1>1, <4>2, ScopeAssumption DEF Object, Scope
        <5>3. Len(s.prefix) <= Len(t.prefix) \/ Len(t.prefix) <= Len(s.prefix)
          BY <5>2
        <5>4. QED
          BY <5>1, <5>2, <5>3, PrefixesOfOneKey DEF PrefixesMeet
      <4>3. QED
        BY <4>1, <4>2
    <3>2. QED
      BY <1>1, <2>1, <2>3, <3>1 DEF Intersects, SameBucketMeet
  <2>4. QED
    BY <2>2, <2>3
<1>4. QED
  BY <1>2, <1>3

(***************************************************************************)
(* Scopes that intersect cover a common object: the registry reports no    *)
(* collision that is not one.                                              *)
(***************************************************************************)
THEOREM IntersectsOverlaps ==
  ASSUME NEW s \in Scope, NEW t \in Scope, Intersects(s, t)
  PROVE  Covers(s) \cap Covers(t) # {}
<1> DEFINE Obj(b, k) == [profile |-> s.profile, bucket |-> b, key |-> k]
<1>1. \A u \in Scope : \E k \in Key :
        IF u.key # None THEN k = u.key ELSE KeyUnder(k, u)
  <2>1. SUFFICES ASSUME NEW u \in Scope
                 PROVE  \E k \in Key : IF u.key # None THEN k = u.key ELSE KeyUnder(k, u)
    OBVIOUS
  <2>2. CASE u.key # None
    BY <2>2 DEF Scope
  <2>3. CASE u.key = None /\ u.prefix = None
    BY <2>3, InhabitedAssumption DEF KeyUnder
  <2>4. CASE u.key = None /\ u.prefix # None
    BY <2>4, InhabitedAssumption DEF KeyUnder, Scope
  <2>5. QED
    BY <2>2, <2>3, <2>4
<1>2. s.profile = t.profile /\ s.profile \in Profile
  BY DEF Intersects, Scope
<1>3. \A b \in Bucket, k \in Key : Obj(b, k) \in Object
  BY <1>2 DEF Object
<1>4. CASE s.bucket = None
  <2>1. PICK b \in Bucket : t.bucket = None \/ t.bucket = b
    BY InhabitedAssumption DEF Scope
  <2>2. PICK k \in Key : IF t.key # None THEN k = t.key ELSE KeyUnder(k, t)
    BY <1>1
  <2>3. Obj(b, k) \in Covers(s) /\ Obj(b, k) \in Covers(t)
    BY <1>2, <1>3, <1>4, <2>1, <2>2 DEF Covers, KeyUnder
  <2>4. QED
    BY <2>3
<1>5. CASE s.bucket # None /\ t.bucket = None
  <2>1. PICK k \in Key : IF s.key # None THEN k = s.key ELSE KeyUnder(k, s)
    BY <1>1
  <2>2. s.bucket \in Bucket
    BY <1>5 DEF Scope
  <2>3. Obj(s.bucket, k) \in Covers(s) /\ Obj(s.bucket, k) \in Covers(t)
    BY <1>2, <1>3, <1>5, <2>1, <2>2 DEF Covers, KeyUnder
  <2>4. QED
    BY <2>3
<1>6. CASE s.bucket # None /\ t.bucket # None
  <2>1. s.bucket = t.bucket /\ s.bucket \in Bucket /\ SameBucketMeet(s, t)
    BY <1>6 DEF Intersects, Scope
  <2>2. \E k \in Key :
          /\ IF s.key # None THEN k = s.key ELSE KeyUnder(k, s)
          /\ IF t.key # None THEN k = t.key ELSE KeyUnder(k, t)
    <3>1. CASE s.key # None \/ t.key # None
      BY <2>1, <3>1 DEF SameBucketMeet, Scope
    <3>2. CASE s.key = None /\ t.key = None
      <4>1. PrefixesMeet(s, t)
        BY <2>1, <3>2 DEF SameBucketMeet
      <4>2. PICK ks \in Key : KeyUnder(ks, s)
        BY <1>1, <3>2
      <4>3. PICK kt \in Key : KeyUnder(kt, t)
        BY <1>1, <3>2
      <4>4. CASE s.prefix = None \/ t.prefix = None
        BY <3>2, <4>2, <4>3, <4>4 DEF KeyUnder
      <4>5. CASE s.prefix # None /\ t.prefix # None /\ IsPrefix(s.prefix, t.prefix)
        <5>1. IsPrefix(s.prefix, kt)
          BY <4>3, <4>5, ScopeAssumption, PrefixTransitive DEF KeyUnder, Scope
        <5>2. QED
          BY <3>2, <4>3, <5>1 DEF KeyUnder
      <4>6. CASE s.prefix # None /\ t.prefix # None /\ IsPrefix(t.prefix, s.prefix)
        <5>1. IsPrefix(t.prefix, ks)
          BY <4>2, <4>6, ScopeAssumption, PrefixTransitive DEF KeyUnder, Scope
        <5>2. QED
          BY <3>2, <4>2, <5>1 DEF KeyUnder
      <4>7. QED
        BY <4>1, <4>4, <4>5, <4>6 DEF PrefixesMeet
    <3>3. QED
      BY <3>1, <3>2
  <2>3. PICK k \in Key :
          /\ IF s.key # None THEN k = s.key ELSE KeyUnder(k, s)
          /\ IF t.key # None THEN k = t.key ELSE KeyUnder(k, t)
    BY <2>2
  <2>4. Obj(s.bucket, k) \in Covers(s) /\ Obj(s.bucket, k) \in Covers(t)
    BY <1>2, <1>3, <2>1, <2>3 DEF Covers, KeyUnder
  <2>5. QED
    BY <2>4
<1>7. QED
  BY <1>4, <1>5, <1>6

-----------------------------------------------------------------------------

(***************************************************************************)
(* The empty registry is well formed.                                      *)
(***************************************************************************)
LEMMA TypeInit == Init => TypeOK
BY DEF Init, TypeOK, live, Lock

(***************************************************************************)
(* No call, no reaping and no restart breaks the shape of the registry.    *)
(***************************************************************************)
LEMMA TypeStep == TypeOK /\ [Next]_lockVars => TypeOK'
<1> SUFFICES ASSUME TypeOK, [Next]_lockVars
             PROVE  TypeOK'
  OBVIOUS
<1> USE DEF TypeOK, live
<1>1. MaxAge \in Nat /\ 0 \in 0..MaxAge
  BY LockAssumption DEF MaxAge
<1>2. ASSUME NEW id \in LockId, NEW s \in Scope, NEW lag \in 0..MaxAge,
             Acquire(id, s, lag)
      PROVE  TypeOK'
  BY <1>2 DEF Acquire, With, Lock
<1>3. ASSUME NEW id \in LockId, Heartbeat(id)
      PROVE  TypeOK'
  BY <1>1, <1>3 DEF Heartbeat, Lock
<1>4. ASSUME NEW id \in LockId, Release(id)
      PROVE  TypeOK'
  BY <1>4 DEF Release, Without
<1>5. CASE ReleaseStale
  BY <1>5 DEF ReleaseStale, Without
<1>6. CASE Restart
  BY <1>6 DEF Restart
<1>7. CASE Tick
  <2>1. \A l \in Lock : Older(l) \in Lock
    BY <1>1 DEF Older, Lock
  <2>2. QED
    BY <1>7, <2>1 DEF Tick
<1>8. CASE UNCHANGED lockVars
  BY <1>8 DEF lockVars
<1>9. QED
  BY <1>2, <1>3, <1>4, <1>5, <1>6, <1>7, <1>8 DEF Next

(***************************************************************************)
(* The registry holds well-formed locks only, under ids that were issued.  *)
(***************************************************************************)
THEOREM RegistryTypeCorrect == Spec => []TypeOK
<1>1. QED
  BY TypeInit, TypeStep, PTL DEF Spec

(***************************************************************************)
(* The scopes of the locks that a step leaves in place do not change.      *)
(***************************************************************************)
ScopesKept == \A id \in live' : id \in live /\ locks'[id].scope = locks[id].scope

(***************************************************************************)
(* Removing or aging locks cannot make two of them overlap.                *)
(***************************************************************************)
LEMMA KeptExclusion ==
  ASSUME MutualExclusion, ScopesKept
  PROVE  MutualExclusion'
BY DEF MutualExclusion, ScopesKept, live

(***************************************************************************)
(* Only acquire adds a lock; every other step keeps or removes locks.      *)
(***************************************************************************)
LEMMA OtherStepsKeepScopes ==
  ASSUME TypeOK, [Next]_lockVars,
         ~ \E id \in LockId, s \in Scope, lag \in 0..MaxAge : Acquire(id, s, lag)
  PROVE  ScopesKept
<1> USE DEF TypeOK, live, ScopesKept
<1>1. ASSUME NEW id \in LockId, Heartbeat(id)
      PROVE  ScopesKept
  BY <1>1 DEF Heartbeat, Lock
<1>2. ASSUME NEW id \in LockId, Release(id)
      PROVE  ScopesKept
  BY <1>2 DEF Release, Without
<1>3. CASE ReleaseStale
  BY <1>3 DEF ReleaseStale, Without
<1>4. CASE Restart
  BY <1>4 DEF Restart
<1>5. CASE Tick
  <2>1. \A l \in Lock : Older(l).scope = l.scope
    BY DEF Older, Lock
  <2>2. QED
    BY <1>5, <2>1 DEF Tick
<1>6. CASE UNCHANGED lockVars
  BY <1>6 DEF lockVars
<1>7. QED
  BY <1>1, <1>2, <1>3, <1>4, <1>5, <1>6 DEF Next

(***************************************************************************)
(* A lock that acquire registers covers no object that is already covered. *)
(***************************************************************************)
LEMMA AcquiredIsDisjoint ==
  ASSUME TypeOK, NEW s \in Scope, ~Conflicts(s), NEW i \in live
  PROVE  Covers(locks[i].scope) \cap Covers(s) = {}
<1>1. locks[i].scope \in Scope
  BY DEF TypeOK, Lock
<1>2. ~Intersects(locks[i].scope, s)
  BY DEF Conflicts
<1>3. QED
  BY <1>1, <1>2, OverlapIntersects

(***************************************************************************)
(* acquire leaves every object with one covering lock at most.             *)
(***************************************************************************)
LEMMA AcquireExclusion ==
  ASSUME TypeOK, MutualExclusion, NEW id \in LockId, NEW s \in Scope,
         NEW lag \in 0..MaxAge, Acquire(id, s, lag)
  PROVE  MutualExclusion'
<1> SUFFICES ASSUME NEW i \in live', NEW j \in live', i # j
             PROVE  Covers(locks'[i].scope) \cap Covers(locks'[j].scope) = {}
  BY DEF MutualExclusion
<1>1. /\ live' = live \cup {id}
      /\ locks'[id].scope = s
      /\ \A x \in live : x # id /\ locks'[x].scope = locks[x].scope
  BY DEF Acquire, With, live, TypeOK
<1>2. ~Conflicts(s)
  BY DEF Acquire, With
<1>3. CASE i # id /\ j # id
  BY <1>1, <1>3 DEF MutualExclusion
<1>4. CASE i = id
  <2>1. Covers(locks[j].scope) \cap Covers(s) = {}
    BY <1>1, <1>2, <1>4, AcquiredIsDisjoint
  <2>2. QED
    BY <1>1, <1>4, <2>1
<1>5. CASE j = id
  <2>1. Covers(locks[i].scope) \cap Covers(s) = {}
    BY <1>1, <1>2, <1>5, AcquiredIsDisjoint
  <2>2. QED
    BY <1>1, <1>5, <2>1
<1>6. QED
  BY <1>3, <1>4, <1>5

(***************************************************************************)
(* Exclusion is inductive: only acquire could break it.                    *)
(***************************************************************************)
LEMMA ExclusionStep == TypeOK /\ MutualExclusion /\ [Next]_lockVars => MutualExclusion'
<1> SUFFICES ASSUME TypeOK, MutualExclusion, [Next]_lockVars
             PROVE  MutualExclusion'
  OBVIOUS
<1>1. CASE \E id \in LockId, s \in Scope, lag \in 0..MaxAge : Acquire(id, s, lag)
  BY <1>1, AcquireExclusion
<1>2. CASE ~ \E id \in LockId, s \in Scope, lag \in 0..MaxAge : Acquire(id, s, lag)
  BY <1>2, OtherStepsKeepScopes, KeptExclusion
<1>3. QED
  BY <1>1, <1>2

(***************************************************************************)
(* No object is ever covered by two live locks.                            *)
(***************************************************************************)
THEOREM RegistryExcludes == Spec => []MutualExclusion
<1>1. Init => MutualExclusion
  BY DEF Init, MutualExclusion, live
<1>2. QED
  BY <1>1, RegistryTypeCorrect, ExclusionStep, PTL DEF Spec

(***************************************************************************)
(* A request is refused only because of an object it asks for.             *)
(***************************************************************************)
THEOREM RefusalsJustified == Spec => []NoFalseConflict
<1>1. TypeOK => NoFalseConflict
  <2>1. SUFFICES ASSUME TypeOK, NEW s \in Scope, NEW id \in live,
                        Intersects(locks[id].scope, s)
                 PROVE  Covers(locks[id].scope) \cap Covers(s) # {}
    BY DEF NoFalseConflict, Conflicts
  <2>2. locks[id].scope \in Scope
    BY <2>1 DEF TypeOK, Lock
  <2>3. QED
    BY <2>1, <2>2, IntersectsOverlaps
<1>2. QED
  BY <1>1, RegistryTypeCorrect, PTL

-----------------------------------------------------------------------------

(***************************************************************************)
(* The owner of an object is the live lock that covers it, if there is one.*)
(***************************************************************************)
LEMMA OwnerIsCoveringLock ==
  ASSUME MutualExclusion
  PROVE  \A o \in Object :
           /\ \A id \in live : o \in Covers(locks[id].scope) => OwnerOf(o) = id
           /\ OwnerOf(o) = Free \/ (OwnerOf(o) \in live /\ o \in Covers(locks[OwnerOf(o)].scope))
<1> SUFFICES ASSUME NEW o \in Object
             PROVE  /\ \A id \in live : o \in Covers(locks[id].scope) => OwnerOf(o) = id
                    /\ \/ OwnerOf(o) = Free
                       \/ OwnerOf(o) \in live /\ o \in Covers(locks[OwnerOf(o)].scope)
  OBVIOUS
<1>1. CASE \E id \in live : o \in Covers(locks[id].scope)
  <2>1. OwnerOf(o) \in live /\ o \in Covers(locks[OwnerOf(o)].scope)
    BY <1>1 DEF OwnerOf
  <2>2. QED
    BY <2>1 DEF MutualExclusion
<1>2. CASE ~ \E id \in live : o \in Covers(locks[id].scope)
  BY <1>2 DEF OwnerOf
<1>3. QED
  BY <1>1, <1>2

(***************************************************************************)
(* The same of the registry after a step.                                  *)
(***************************************************************************)
LEMMA OwnerIsCoveringLockNext ==
  ASSUME MutualExclusion'
  PROVE  \A o \in Object :
           /\ \A id \in live' : o \in Covers(locks'[id].scope) => OwnerOf(o)' = id
           /\ \/ OwnerOf(o)' = Free
              \/ OwnerOf(o)' \in live' /\ o \in Covers(locks'[OwnerOf(o)'].scope)
<1> SUFFICES ASSUME NEW o \in Object
             PROVE  /\ \A id \in live' : o \in Covers(locks'[id].scope) => OwnerOf(o)' = id
                    /\ \/ OwnerOf(o)' = Free
                       \/ OwnerOf(o)' \in live' /\ o \in Covers(locks'[OwnerOf(o)'].scope)
  OBVIOUS
<1>1. CASE \E id \in live' : o \in Covers(locks'[id].scope)
  <2>1. OwnerOf(o)' \in live' /\ o \in Covers(locks'[OwnerOf(o)'].scope)
    BY <1>1 DEF OwnerOf
  <2>2. QED
    BY <2>1 DEF MutualExclusion
<1>2. CASE ~ \E id \in live' : o \in Covers(locks'[id].scope)
  BY <1>2 DEF OwnerOf
<1>3. QED
  BY <1>1, <1>2

(***************************************************************************)
(* A successful acquire is a claim: its lock takes objects that were free. *)
(***************************************************************************)
LEMMA AcquireClaims ==
  ASSUME TypeOK, MutualExclusion, MutualExclusion', NEW id \in LockId,
         NEW s \in Scope, NEW lag \in 0..MaxAge, Acquire(id, s, lag)
  PROVE  Ownership!Claim(id)
<1>1. /\ live' = live \cup {id}
      /\ locks'[id].scope = s
      /\ \A x \in live : x # id /\ locks'[x].scope = locks[x].scope
  BY DEF Acquire, With, live, TypeOK
<1>2. live \subseteq LockId /\ Free # id
  BY LockAssumption DEF TypeOK
<1>3. \A o \in Object : OwnerOf(o) # id
  BY <1>1, <1>2, OwnerIsCoveringLock
<1>4. \A o \in Object : OwnerOf(o)' \in LockId \cup {Free}
  BY <1>1, <1>2, OwnerIsCoveringLockNext
<1>5. \A o \in Object :
        OwnerOf(o)' = OwnerOf(o) \/ (OwnerOf(o) = Free /\ OwnerOf(o)' = id)
  <2> SUFFICES ASSUME NEW o \in Object
               PROVE  OwnerOf(o)' = OwnerOf(o) \/ (OwnerOf(o) = Free /\ OwnerOf(o)' = id)
    OBVIOUS
  <2>1. CASE OwnerOf(o) # Free
    BY <1>1, <2>1, OwnerIsCoveringLock, OwnerIsCoveringLockNext
  <2>2. CASE OwnerOf(o) = Free /\ OwnerOf(o)' # Free
    <3>1. OwnerOf(o)' \in live' /\ o \in Covers(locks'[OwnerOf(o)'].scope)
      BY <2>2, OwnerIsCoveringLockNext
    <3>2. \A x \in live : o \notin Covers(locks[x].scope)
      BY <1>2, <2>2, LockAssumption, OwnerIsCoveringLock
    <3>3. QED
      BY <1>1, <2>2, <3>1, <3>2
  <2>3. CASE OwnerOf(o) = Free /\ OwnerOf(o)' = Free
    BY <2>3
  <2>4. QED
    BY <2>1, <2>2, <2>3
<1>6. QED
  BY <1>3, <1>4, <1>5 DEF Ownership!Claim

(***************************************************************************)
(* release, release_stale and a restart yield what the removed locks owned;*)
(* heartbeats and time change no owner.                                    *)
(***************************************************************************)
LEMMA OtherStepsYield ==
  ASSUME TypeOK, MutualExclusion, MutualExclusion', ScopesKept
  PROVE  Ownership!Yield(live \ live')
<1>1. live \subseteq LockId
  BY DEF TypeOK
<1>2. \A o \in Object :
        OwnerOf(o)' = IF OwnerOf(o) \in live \ live' THEN Free ELSE OwnerOf(o)
  <2> SUFFICES ASSUME NEW o \in Object
               PROVE  OwnerOf(o)' = IF OwnerOf(o) \in live \ live' THEN Free ELSE OwnerOf(o)
    OBVIOUS
  <2>1. OwnerOf(o)' # Free => OwnerOf(o) = OwnerOf(o)' /\ OwnerOf(o) \in live'
    BY OwnerIsCoveringLock, OwnerIsCoveringLockNext DEF ScopesKept
  <2>2. OwnerOf(o) \in live' => OwnerOf(o)' = OwnerOf(o)
    <3> SUFFICES ASSUME OwnerOf(o) \in live'
                 PROVE  OwnerOf(o)' = OwnerOf(o)
      OBVIOUS
    <3>1. OwnerOf(o) \in live /\ OwnerOf(o) # Free
      BY <1>1, LockAssumption DEF ScopesKept
    <3>2. o \in Covers(locks'[OwnerOf(o)].scope)
      BY <3>1, OwnerIsCoveringLock DEF ScopesKept
    <3>3. QED
      BY <3>2, OwnerIsCoveringLockNext
  <2>3. QED
    BY <2>1, <2>2, OwnerIsCoveringLock
<1>3. QED
  BY <1>2 DEF Ownership!Yield

(***************************************************************************)
(* The registry implements single ownership of objects: no object passes   *)
(* from one lock to another without having been free.                      *)
(***************************************************************************)
THEOREM RegistryImplementsOwnership == Spec => ImplementsOwnership
<1>1. Init => Ownership!Init
  BY DEF Init, Ownership!Init, OwnerOf, live
<1>2. /\ TypeOK /\ MutualExclusion /\ MutualExclusion' /\ [Next]_lockVars
      => [Ownership!Next]_([o \in Object |-> OwnerOf(o)])
  <2> SUFFICES ASSUME TypeOK, MutualExclusion, MutualExclusion', [Next]_lockVars
               PROVE  Ownership!Next
    OBVIOUS
  <2>1. CASE \E id \in LockId, s \in Scope, lag \in 0..MaxAge : Acquire(id, s, lag)
    BY <2>1, AcquireClaims DEF Ownership!Next
  <2>2. CASE ~ \E id \in LockId, s \in Scope, lag \in 0..MaxAge : Acquire(id, s, lag)
    <3>1. live \ live' \in SUBSET LockId
      BY DEF TypeOK
    <3>2. QED
      BY <2>2, <3>1, OtherStepsKeepScopes, OtherStepsYield DEF Ownership!Next
  <2>3. QED
    BY <2>1, <2>2
<1>3. QED
  BY <1>1, <1>2, RegistryTypeCorrect, RegistryExcludes, PTL
     DEF Spec, ImplementsOwnership, Ownership!Spec

=============================================================================
