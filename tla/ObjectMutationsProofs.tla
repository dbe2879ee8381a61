------------------------ MODULE ObjectMutationsProofs ------------------------
(***************************************************************************)
(* Proofs about the commands that change objects, for any number of        *)
(* commands, any objects and folders, and any listings that come between.  *)
(*                                                                         *)
(* The argument: until its outcome is known, a command has the locks it    *)
(* has taken, in order, and each is on the scope it asked for (Shape and   *)
(* Owns), as long as none has lapsed; at S3 it has them all, and they      *)
(* cover every key it touches.  The registry excludes locks on one object, *)
(* so another command at S3 touches other keys.                            *)
(***************************************************************************)
EXTENDS ObjectMutations, ResourceLocksProofs, FunctionTheorems, FiniteSetTheorems

Obj(k) == [profile |-> TheProfile, bucket |-> TheBucket, key |-> k]

Moving == {"locking", "announcing", "connecting", "calling", "copied"}

\* What an operation has, by its stage: its locks are its own and in order.
Shape(o, op) ==
  LET n == Len(op.held)
      w == Len(Wanted(op.job)) IN
  /\ op.stage \in Moving => \A i \in DOMAIN op.held : op.held[i] = <<o, i>>
  /\ op.stage = "locking" => n < w
  /\ op.stage = "announcing" => n \in 1 .. w
  /\ op.stage \in {"connecting", "calling", "copied"} => n = w
  /\ op.stage = "copied" => op.job.kind = "move"
  /\ op.stage = "releasing" => n > 0
  /\ op.stage = "invalidating" => n = 0 /\ op.stale # <<>>
  /\ \A i \in DOMAIN op.held : op.held[i] \in {o} \X Nat
  /\ \A i \in DOMAIN op.todo : op.todo[i] \in Touches(op.job)
  /\ op.changed \subseteq Touches(op.job)

\* Until its outcome is known its locks are on the scopes it wanted.
Owns(o) ==
  ops[o].stage \in Moving /\ ~lost =>
    \A i \in DOMAIN ops[o].held :
      <<o, i>> \in live /\ locks[<<o, i>>].scope = Wanted(ops[o].job)[i]

\* A lock in the registry is its operation's, which has not ended, or has
\* ended without giving anything back.
LockFits(id) ==
  /\ id \in started \X Nat
  /\ ops[id[1]].stage # "ended" => \E i \in DOMAIN ops[id[1]].held : ops[id[1]].held[i] = id
  /\ ops[id[1]].stage = "ended" => ops[id[1]].result \in {"pool_miss", "panic"}

\* Between the two halves of a move, both objects are as it left them.
MoveFits(o) ==
  ops[o].stage = "copied" /\ ~lost =>
    /\ Seen(ops[o].job.keys[1]) = ops[o].source
    /\ Seen(ops[o].job.keys[2]) = o

LocksFit ==
  /\ TypeOK /\ MutualExclusion
  /\ started \subseteq Op /\ ops \in [started -> Operation]
  /\ \A o \in started : Shape(o, ops[o]) /\ Owns(o)
  /\ \A id \in live : LockFits(id)

MutationInv ==
  /\ MutationTypeOK /\ LocksFit
  /\ \A o \in started : MoveFits(o)

(***************************************************************************)
(* What the commands lock.                                                 *)
(***************************************************************************)

LEMMA FoldersOfKeys ==
  ASSUME NEW k \in Key
  PROVE  /\ Front(k) \in Prefix /\ k \in Seq(Chunk) /\ Front(k) \in Seq(Chunk)
         /\ IsPrefix(Front(k), k)
  <1>1. k \in Seq(Chunk) /\ k # <<>>
    BY ScopeAssumption, MutationAssumption
  <1> DEFINE n == Len(k) - 1
  <1>2. n \in Nat /\ n <= Len(k) /\ Len(k) \in Nat
    BY <1>1
  <1>3. Front(k) = SubSeq(k, 1, n)
    BY DEF Front
  <1>4. Front(k) \in Seq(Chunk) /\ Len(Front(k)) = n
    <2>1. \A i \in 1 .. n : k[i] \in Chunk
      BY <1>1, <1>2
    <2> HIDE DEF n
    <2>2. n \in Int /\ 1 \in Int /\ (IF 1 <= n THEN n - 1 + 1 ELSE 0) = n
      BY <1>2
    <2>3. /\ SubSeq(k, 1, n) \in Seq(Chunk)
          /\ Len(SubSeq(k, 1, n)) = IF 1 <= n THEN n - 1 + 1 ELSE 0
      BY <2>1, <2>2, SubSeqProperties
    <2> QED
      BY <1>3, <2>2, <2>3
  <1>5. SubSeq(Front(k), 1, n) = SubSeq(k, 1, n)
    BY <1>1, <1>2, <1>3, <1>4
  <1> HIDE DEF n
  <1> QED
    BY <1>1, <1>2, <1>4, <1>5, MutationAssumption DEF IsPrefix

LEMMA FolderScope ==
  ASSUME NEW p \in Prefix
  PROVE  /\ PrefixScope(TheProfile, TheBucket, p) \in Scope
         /\ \A k \in Key : IsPrefix(p, k) => Obj(k) \in Covers(PrefixScope(TheProfile, TheBucket, p))
  BY MutationAssumption DEF PrefixScope, Scope, Covers, Object, Obj, KeyUnder

\* A finite set of prefixes can be sorted: each has as many before it as there
\* are smaller ones.  Nothing is lost, and nothing comes twice.
LEMMA SortedIsSorted ==
  ASSUME NEW S \in SUBSET Prefix, IsFiniteSet(S)
  PROVE  /\ Sorted(S) \in Seq(Prefix) /\ ToSet(Sorted(S)) = S
         /\ \A i, j \in DOMAIN Sorted(S) : i < j => Rank[Sorted(S)[i]] < Rank[Sorted(S)[j]]
  <1> DEFINE n == Cardinality(S)
             Below(e) == {d \in S : Rank[d] < Rank[e]}
             rank == [e \in S |-> Cardinality(Below(e)) + 1]
             Rising(q) == \A i, j \in DOMAIN q : i < j => Rank[q[i]] < Rank[q[j]]
  <1>1. IsFiniteSet(S) /\ n \in Nat
    BY FS_CardinalityType
  <1>2. \A e \in S : Rank[e] \in Nat
    BY MutationAssumption, RankAssumption
  <1>3. \A a, b \in S : Rank[a] = Rank[b] => a = b
    BY MutationAssumption, RankAssumption
  <1>4. ASSUME NEW e \in S
        PROVE  /\ IsFiniteSet(Below(e)) /\ Cardinality(Below(e)) \in Nat
               /\ Cardinality(Below(e)) + 1 \in 1 .. n
    <2>1. IsFiniteSet(S \ {e}) /\ Cardinality(S \ {e}) = n - 1
      BY <1>1, FS_RemoveElement
    <2>2. Below(e) \in SUBSET (S \ {e})
      BY <1>2
    <2> HIDE DEF Below
    <2>3. IsFiniteSet(Below(e)) /\ Cardinality(Below(e)) <= Cardinality(S \ {e})
      BY <2>1, <2>2, FS_Subset
    <2>4. Cardinality(Below(e)) \in Nat
      BY <2>3, FS_CardinalityType
    <2> HIDE DEF n
    <2> QED
      BY <1>1, <2>1, <2>3, <2>4
  <1>5. ASSUME NEW d \in S, NEW e \in S, Rank[d] < Rank[e]
        PROVE  Cardinality(Below(d)) < Cardinality(Below(e))
    <2>1. Below(d) \in SUBSET Below(e) /\ d \in Below(e) /\ d \notin Below(d)
      BY <1>2, <1>5
    <2> HIDE DEF Below
    <2>2. Cardinality(Below(d)) <= Cardinality(Below(e))
      BY <1>4, <2>1, FS_Subset
    <2>3. Cardinality(Below(e)) = Cardinality(Below(d)) => Below(e) = Below(d)
      BY <1>4, <2>1, FS_Subset
    <2>4. Cardinality(Below(d)) \in Nat /\ Cardinality(Below(e)) \in Nat
      BY <1>4
    <2> QED
      BY <2>1, <2>2, <2>3, <2>4
  <1> HIDE DEF Below
  <1>6. /\ rank \in [S -> 1 .. n]
        /\ \A d, e \in S : rank[d] = rank[e] => d = e
        /\ \A d, e \in S : Rank[d] < Rank[e] => rank[d] < rank[e]
    <2>1. rank \in [S -> 1 .. n]
      BY <1>4
    <2>2. \A d, e \in S : Rank[d] < Rank[e] => rank[d] < rank[e]
      BY <1>4, <1>5
    <2>3. ASSUME NEW d \in S, NEW e \in S, rank[d] = rank[e], d # e PROVE FALSE
      <3>1. Rank[d] # Rank[e]
        BY <1>3, <2>3
      <3>2. rank[d] < rank[e] \/ rank[e] < rank[d]
        BY <1>2, <2>2, <3>1
      <3>3. rank[d] \in 1 .. n /\ rank[e] \in 1 .. n
        BY <2>1
      <3> HIDE DEF rank, n
      <3> QED
        BY <1>1, <2>3, <3>2, <3>3
    <2> QED
      BY <2>1, <2>2, <2>3
  <1> HIDE DEF rank
  <1>7. rank \in Injection(S, 1 .. n)
    BY <1>6, Fun_IsInj
  <1>8. IsFiniteSet(1 .. n) /\ Cardinality(1 .. n) = n
    <2> HIDE DEF n
    <2>1. 1 \in Int /\ n \in Int
      BY <1>1
    <2>2. IsFiniteSet(1 .. n) /\ Cardinality(1 .. n) = IF 1 > n THEN 0 ELSE n - 1 + 1
      BY <2>1, FS_Interval
    <2> QED
      BY <1>1, <2>2
  <1>9. Cardinality(S) = Cardinality(1 .. n)
    BY <1>8
  <1>10. rank \in Surjection(S, 1 .. n)
    <2> HIDE DEF n
    <2> QED
      BY <1>7, <1>8, <1>9, FS_Injection
  <1>11. \A i \in 1 .. n : \E e \in S : rank[e] = i
    BY <1>10, Fun_SurjectionProperties
  <1> DEFINE q == [i \in 1 .. n |-> CHOOSE e \in S : rank[e] = i]
  <1>12. q \in [1 .. n -> S] /\ \A i \in 1 .. n : rank[q[i]] = i
    BY <1>11
  <1> HIDE DEF q
  <1>13. Rising(q)
    <2> SUFFICES ASSUME NEW i \in 1 .. n, NEW j \in 1 .. n, i < j PROVE Rank[q[i]] < Rank[q[j]]
      BY <1>12
    <2>1. q[i] \in S /\ q[j] \in S /\ rank[q[i]] = i /\ rank[q[j]] = j
      BY <1>12
    <2>2. ~(Rank[q[j]] < Rank[q[i]])
      <3>1. Rank[q[j]] < Rank[q[i]] => j < i
        BY <1>6, <2>1
      <3> QED
        BY <3>1
    <2>3. Rank[q[i]] # Rank[q[j]]
      BY <1>3, <2>1
    <2> QED
      BY <1>2, <2>1, <2>2, <2>3
  <1>14. \E w \in [1 .. n -> S] : Rising(w)
    BY <1>12, <1>13
  <1> HIDE DEF Rising
  <1>15. Sorted(S) = CHOOSE w \in [1 .. n -> S] : Rising(w)
    BY Zenon DEF Sorted, Rising, Before
  <1>16. Sorted(S) \in [1 .. n -> S] /\ Rising(Sorted(S))
    BY <1>14, <1>15
  <1>17. PICK w : w = Sorted(S)
    OBVIOUS
  <1>18. /\ w \in [1 .. n -> S] /\ w \in Seq(S)
         /\ \A i, j \in 1 .. n : i < j => Rank[w[i]] < Rank[w[j]]
    BY <1>1, <1>16, <1>17 DEF Rising
  <1>19. w \in Injection(1 .. n, S)
    <2> HIDE DEF n
    <2>1. ASSUME NEW i \in 1 .. n, NEW j \in 1 .. n, w[i] = w[j], i # j PROVE FALSE
      <3>1. w[i] \in S /\ w[j] \in S /\ (i < j \/ j < i)
        BY <1>1, <1>18, <2>1
      <3>2. Rank[w[i]] < Rank[w[j]] \/ Rank[w[j]] < Rank[w[i]]
        BY <1>18, <3>1
      <3> QED
        BY <1>2, <2>1, <3>1, <3>2
    <2> QED
      BY <1>18, <2>1, Fun_IsInj
  <1>20. w \in Surjection(1 .. n, S)
    <2>1. IsFiniteSet(S) /\ Cardinality(1 .. n) = Cardinality(S)
      BY <1>1, <1>8
    <2> HIDE DEF n
    <2> QED
      BY <1>19, <2>1, FS_Injection
  <1>21. \A e \in S : \E i \in 1 .. n : w[i] = e
    BY <1>20 DEF Surjection
  <1>22. w \in Seq(Prefix) /\ DOMAIN w = 1 .. n /\ Len(w) = n
    BY <1>1, <1>18
  <1>23. ToSet(w) = S
    BY <1>18, <1>21, <1>22 DEF ToSet
  <1> QED
    BY <1>17, <1>18, <1>22, <1>23

\* The folders of some of the keys of a command are finitely many.
LEMMA FoldersAreFinite ==
  ASSUME NEW keys \in Seq(Key), NEW K, \A k \in K : \E i \in DOMAIN keys : keys[i] = k
  PROVE  IsFiniteSet({Front(k) : k \in K}) /\ {Front(k) : k \in K} \in SUBSET Prefix
  <1>1. PICK T : T = {Front(k) : k \in K}
    OBVIOUS
  <1>2. PICK D : D = {i \in 1 .. Len(keys) : keys[i] \in K}
    OBVIOUS
  <1>3. IsFiniteSet(D)
    <2>1. 1 \in Int /\ Len(keys) \in Int
      OBVIOUS
    <2>2. IsFiniteSet(1 .. Len(keys))
      BY <2>1, FS_Interval
    <2>3. D \in SUBSET (1 .. Len(keys))
      BY <1>2
    <2> QED
      BY <2>2, <2>3, FS_Subset
  <1>4. PICK f : f = [i \in D |-> Front(keys[i])]
    OBVIOUS
  <1>5. f \in [D -> T] /\ \A t \in T : \E i \in D : f[i] = t
    BY <1>1, <1>2, <1>4
  <1>6. f \in Surjection(D, T)
    BY <1>5, Fun_IsSurj
  <1>7. IsFiniteSet(T)
    BY <1>3, <1>6, FS_Surjection
  <1>8. K \subseteq Key
    OBVIOUS
  <1> QED
    BY <1>1, <1>7, <1>8, FoldersOfKeys

LEMMA ParentsOfKeys ==
  ASSUME NEW keys \in Seq(Key)
  PROVE  /\ Parents(keys) \in Seq(Prefix)
         /\ \A i \in DOMAIN keys : \E n \in DOMAIN Parents(keys) : Parents(keys)[n] = Front(keys[i])
         /\ \A i, n \in DOMAIN Parents(keys) : i < n => Rank[Parents(keys)[i]] < Rank[Parents(keys)[n]]
  <1> DEFINE P == {Front(keys[i]) : i \in DOMAIN keys}
  <1>1. P \in SUBSET Prefix
    BY FoldersOfKeys
  <1>2. Parents(keys) = Sorted(P)
    BY DEF Parents
  <1>3. /\ Sorted(P) \in Seq(Prefix) /\ ToSet(Sorted(P)) = P
        /\ \A i, n \in DOMAIN Sorted(P) : i < n => Rank[Sorted(P)[i]] < Rank[Sorted(P)[n]]
    <2>1. PICK K : K = {keys[i] : i \in DOMAIN keys}
      OBVIOUS
    <2>2. P = {Front(k) : k \in K} /\ \A k \in K : \E i \in DOMAIN keys : keys[i] = k
      BY <2>1
    <2>3. IsFiniteSet(P)
      BY <2>2, FoldersAreFinite
    <2> QED
      BY <1>1, <2>3, SortedIsSorted
  <1>4. \A i \in DOMAIN keys : Front(keys[i]) \in ToSet(Sorted(P))
    BY <1>3
  <1> QED
    BY <1>2, <1>3, <1>4 DEF ToSet

\* Every key that a command touches is covered by a scope it asks for.
LEMMA WantedCovers ==
  ASSUME NEW j \in Job
  PROVE  /\ Wanted(j) \in Seq(Scope) /\ Len(Wanted(j)) > 0
         /\ \A k \in Touches(j) : k \in Key /\
              \E i \in DOMAIN Wanted(j) : Obj(k) \in Covers(Wanted(j)[i])
  <1>1. /\ j.keys \in Seq(Key) /\ j.kind \in {"copy", "move", "folder", "write", "delete"}
        /\ j.kind \in {"copy", "move"} => Len(j.keys) = 2
        /\ j.kind \in {"folder", "write"} => Len(j.keys) = 1
        /\ j.kind = "folder" => j.keys[1] \in Prefix
        /\ j.kind = "delete" => j.keys # <<>>
    <2>1. j \in [kind : {"copy", "move", "folder", "write", "delete"}, keys : Seq(Key)]
      BY MutationAssumption
    <2> QED
      BY <2>1, JobAssumption
  <1>2. \A k \in Touches(j) : k \in Key
    BY <1>1 DEF Touches
  <1>3. CASE j.kind \in {"copy", "move"}
    <2> DEFINE p == Front(j.keys[1])
               q == Front(j.keys[2])
    <2>1. j.keys[1] \in Key /\ j.keys[2] \in Key /\ Touches(j) = {j.keys[1], j.keys[2]}
      BY <1>1, <1>3 DEF Touches
    <2>2. Wanted(j) = <<PrefixScope(TheProfile, TheBucket, p), PrefixScope(TheProfile, TheBucket, q)>>
      BY <1>3 DEF Wanted, Ends
    <2>3. p \in Prefix /\ q \in Prefix /\ IsPrefix(p, j.keys[1]) /\ IsPrefix(q, j.keys[2])
      BY <2>1, FoldersOfKeys
    <2> HIDE DEF p, q
    <2>4. /\ PrefixScope(TheProfile, TheBucket, p) \in Scope
          /\ PrefixScope(TheProfile, TheBucket, q) \in Scope
          /\ Obj(j.keys[1]) \in Covers(PrefixScope(TheProfile, TheBucket, p))
          /\ Obj(j.keys[2]) \in Covers(PrefixScope(TheProfile, TheBucket, q))
      BY <2>1, <2>3, FolderScope
    <2> QED
      BY <1>2, <2>1, <2>2, <2>4
  <1>4. CASE j.kind = "folder"
    <2>1. j.keys[1] \in Key /\ Touches(j) = {j.keys[1]} /\ IsPrefix(j.keys[1], j.keys[1])
      BY <1>1, <1>4, ScopeAssumption DEF Touches, IsPrefix
    <2>2. Wanted(j) = <<PrefixScope(TheProfile, TheBucket, j.keys[1])>>
      BY <1>4 DEF Wanted
    <2>3. /\ PrefixScope(TheProfile, TheBucket, j.keys[1]) \in Scope
          /\ Obj(j.keys[1]) \in Covers(PrefixScope(TheProfile, TheBucket, j.keys[1]))
      BY <1>1, <1>4, <2>1, FolderScope
    <2> QED
      BY <1>2, <2>1, <2>2, <2>3
  <1>5. CASE j.kind = "write"
    <2> DEFINE s == [KeyScope(TheProfile, TheBucket, j.keys[1]) EXCEPT !.prefix = Front(j.keys[1])]
    <2>1. j.keys[1] \in Key /\ Touches(j) = {j.keys[1]}
      BY <1>1, <1>5 DEF Touches
    <2>2. Wanted(j) = <<s>>
      BY <1>5 DEF Wanted
    <2>3. Front(j.keys[1]) \in Prefix /\ j.keys[1] # None
      BY <2>1, FoldersOfKeys, ScopeAssumption
    <2>4. s \in Scope /\ Obj(j.keys[1]) \in Covers(s)
      BY <2>1, <2>3, MutationAssumption DEF KeyScope, Scope, Covers, Object, Obj
    <2> HIDE DEF s
    <2> QED
      BY <1>2, <2>1, <2>2, <2>4
  <1>6. CASE j.kind = "delete"
    <2> DEFINE s == Parents(j.keys)
    <2>1. s \in Seq(Prefix) /\ \A i \in DOMAIN j.keys : \E n \in DOMAIN s : s[n] = Front(j.keys[i])
      BY <1>1, ParentsOfKeys
    <2>2. Wanted(j) = [i \in DOMAIN s |-> PrefixScope(TheProfile, TheBucket, s[i])]
      BY <1>6 DEF Wanted
    <2> HIDE DEF s
    <2>3. DOMAIN Wanted(j) = DOMAIN s /\ Wanted(j) \in Seq(Scope) /\ Len(Wanted(j)) = Len(s)
      BY <2>1, <2>2, FolderScope
    <2>4. ASSUME NEW k \in Touches(j)
          PROVE  \E n \in DOMAIN Wanted(j) : Obj(k) \in Covers(Wanted(j)[n])
      <3>1. PICK i \in DOMAIN j.keys : k = j.keys[i]
        BY DEF Touches
      <3>2. PICK n \in DOMAIN s : s[n] = Front(k)
        BY <2>1, <3>1
      <3>3. Obj(k) \in Covers(PrefixScope(TheProfile, TheBucket, s[n]))
        BY <1>2, <2>1, <3>2, FoldersOfKeys, FolderScope
      <3> QED
        BY <2>2, <2>3, <3>2, <3>3
    <2>5. Len(s) > 0
      <3>1. 1 \in DOMAIN j.keys
        BY <1>1, <1>6
      <3> QED
        BY <2>1, <3>1
    <2> QED
      BY <1>2, <2>3, <2>4, <2>5
  <1> QED
    BY <1>1, <1>3, <1>4, <1>5, <1>6

-----------------------------------------------------------------------------
(***************************************************************************)
(* At S3.                                                                  *)
(***************************************************************************)

\* Two locks of one command, or of two, never cover one object.
LEMMA LocksDiffer ==
  ASSUME MutualExclusion, NEW x \in live, NEW y \in live, x # y, NEW k,
         k \in Covers(locks[x].scope), k \in Covers(locks[y].scope)
  PROVE  FALSE
  BY DEF MutualExclusion

\* A command at S3 holds a lock over each key it touches.
LEMMA LockedAtS3 ==
  ASSUME LocksFit, ~lost, NEW o \in started, AtS3(o)
  PROVE  /\ ops[o].job \in Job
         /\ \A i \in DOMAIN Wanted(ops[o].job) :
              <<o, i>> \in live /\ locks[<<o, i>>].scope = Wanted(ops[o].job)[i]
         /\ \A k \in Touches(ops[o].job) :
              \E i \in DOMAIN Wanted(ops[o].job) :
                <<o, i>> \in live /\ Obj(k) \in Covers(locks[<<o, i>>].scope)
  <1> DEFINE j == ops[o].job
             held == ops[o].held
  <1>1. j \in Job /\ held \in Seq(LockId) /\ ops[o].stage \in {"calling", "copied"}
    BY DEF LocksFit, Operation, AtS3, AtStage
  <1>2. Wanted(j) \in Seq(Scope)
    BY <1>1, WantedCovers
  <1>3. Len(held) = Len(Wanted(j))
    BY <1>1 DEF LocksFit, Shape
  <1>4. \A i \in DOMAIN held :
          <<o, i>> \in live /\ locks[<<o, i>>].scope = Wanted(j)[i]
    BY <1>1 DEF LocksFit, Owns, Moving
  <1>5. DOMAIN held = DOMAIN Wanted(j)
    BY <1>1, <1>2, <1>3
  <1> HIDE DEF j, held
  <1>6. \A k \in Touches(j) :
          \E i \in DOMAIN Wanted(j) : Obj(k) \in Covers(Wanted(j)[i])
    BY <1>1, WantedCovers
  <1>7. \A i \in DOMAIN Wanted(j) :
          <<o, i>> \in live /\ locks[<<o, i>>].scope = Wanted(j)[i]
    BY <1>4, <1>5
  <1> QED
    BY <1>1, <1>6, <1>7 DEF j

\* Two commands at S3 have no key in common.
LEMMA TouchesDiffer ==
  ASSUME LocksFit, ~lost, NEW o \in started, NEW q \in started, o # q, AtS3(o), AtS3(q)
  PROVE  Touches(ops[o].job) \cap Touches(ops[q].job) = {}
  <1> SUFFICES ASSUME NEW k \in Touches(ops[o].job), k \in Touches(ops[q].job)
               PROVE  FALSE
    OBVIOUS
  <1>1. PICK i \in DOMAIN Wanted(ops[o].job) :
          <<o, i>> \in live /\ Obj(k) \in Covers(locks[<<o, i>>].scope)
    BY LockedAtS3
  <1>2. PICK n \in DOMAIN Wanted(ops[q].job) :
          <<q, n>> \in live /\ Obj(k) \in Covers(locks[<<q, n>>].scope)
    BY LockedAtS3
  <1>3. <<o, i>> # <<q, n>> /\ MutualExclusion
    BY DEF LocksFit
  <1> QED
    BY <1>1, <1>2, <1>3, LocksDiffer

\* A copy or a move that got both its locks has two keys.
LEMMA TwoKeys ==
  ASSUME LocksFit, ~lost, NEW o \in started, AtS3(o), ops[o].job.kind = "move"
  PROVE  ops[o].job.keys[1] # ops[o].job.keys[2]
  <1> DEFINE j == ops[o].job
             scope(p) == PrefixScope(TheProfile, TheBucket, p)
  <1> SUFFICES ASSUME j.keys[1] = j.keys[2]
               PROVE  FALSE
    OBVIOUS
  <1>1. /\ j \in Job
        /\ \A i \in DOMAIN Wanted(j) :
              <<o, i>> \in live /\ locks[<<o, i>>].scope = Wanted(j)[i]
    BY LockedAtS3
  <1>2. j.keys \in Seq(Key) /\ Len(j.keys) = 2
    BY <1>1, MutationAssumption, JobAssumption
  <1>3. j.keys[1] \in Key /\ j.keys[2] \in Key
    BY <1>2
  <1>4. Wanted(j) = <<scope(Front(j.keys[1])), scope(Front(j.keys[2]))>>
    BY DEF Wanted, Ends
  <1> HIDE DEF j
  <1>5. DOMAIN Wanted(j) = 1 .. 2
    BY <1>4
  <1>6. /\ <<o, 1>> \in live /\ locks[<<o, 1>>].scope = scope(Front(j.keys[1]))
        /\ <<o, 2>> \in live /\ locks[<<o, 2>>].scope = scope(Front(j.keys[1]))
    BY <1>1, <1>4, <1>5
  <1>7. Obj(j.keys[1]) \in Covers(scope(Front(j.keys[1])))
    BY <1>3, FoldersOfKeys, FolderScope
  <1>8. <<o, 1>> # <<o, 2>> /\ MutualExclusion
    BY DEF LocksFit
  <1> QED
    BY <1>6, <1>7, <1>8, LocksDiffer

-----------------------------------------------------------------------------
(***************************************************************************)
(* A step of one command that leaves the registry alone.                   *)
(***************************************************************************)

\* What a command may become without taking or giving back a lock.
MayBecome(o, r) ==
  /\ r \in Operation /\ Shape(o, r) /\ r.job = ops[o].job
  /\ ops[o].stage # "ended"
  /\ r.stage \in Moving => ops[o].stage \in Moving /\ r.held = ops[o].held
  /\ r.stage # "ended" =>
       \A i \in DOMAIN ops[o].held : \E n \in DOMAIN r.held : r.held[n] = ops[o].held[i]
  /\ r.stage = "ended" => r.result \in {"pool_miss", "panic"} \/ ops[o].held = <<>>

LEMMA RegistryKept ==
  ASSUME TypeOK, MutualExclusion, UNCHANGED lockVars
  PROVE  TypeOK' /\ MutualExclusion'
  BY DEF TypeOK, MutualExclusion, lockVars, live

LEMMA OneOperation ==
  ASSUME LocksFit, NEW o \in started, NEW r, MayBecome(o, r),
         ops' = [ops EXCEPT ![o] = r], UNCHANGED lockVars, lost' = lost
  PROVE  LocksFit'
  <1>1. TypeOK' /\ MutualExclusion'
    BY RegistryKept DEF LocksFit
  <1>2. /\ ops \in [started -> Operation] /\ started' = started /\ started \subseteq Op
        /\ \A q \in started : ops'[q] = IF q = o THEN r ELSE ops[q]
    BY DEF LocksFit, started
  <1>3. r \in Operation
    BY DEF MayBecome
  <1>4. started' \subseteq Op /\ ops' \in [started' -> Operation]
    BY <1>2, <1>3
  <1>5. live' = live /\ locks' = locks
    BY DEF live, lockVars
  <1>6. ASSUME NEW q \in started PROVE Shape(q, ops'[q])
    <2>1. CASE q = o
      BY <1>2, <2>1 DEF MayBecome
    <2>2. CASE q # o
      BY <1>2, <2>2 DEF LocksFit
    <2> QED
      BY <2>1, <2>2
  <1>7. ASSUME NEW q \in started PROVE Owns(q)'
    <2>1. Owns(q)
      BY DEF LocksFit
    <2>2. CASE q = o
      <3>1. /\ ops'[q] = r /\ r.job = ops[q].job
            /\ r.stage \in Moving => ops[q].stage \in Moving /\ r.held = ops[q].held
        BY <1>2, <2>2 DEF MayBecome
      <3> QED
        BY <1>5, <2>1, <3>1 DEF Owns
    <2>3. CASE q # o
      BY <1>2, <1>5, <2>1, <2>3 DEF Owns
    <2> QED
      BY <2>2, <2>3
  <1>8. ASSUME NEW id \in live PROVE LockFits(id)'
    <2>1. LockFits(id)
      BY DEF LocksFit
    <2>2. id[1] \in started /\ id \in started \X Nat
      BY <2>1 DEF LockFits
    <2>3. CASE id[1] = o
      <3>1. ops'[id[1]] = r
        BY <1>2, <2>2, <2>3
      <3>2. PICK i \in DOMAIN ops[o].held : ops[o].held[i] = id
        BY <2>1, <2>3 DEF LockFits, MayBecome
      <3>3. CASE r.stage # "ended"
        <4>1. PICK n \in DOMAIN r.held : r.held[n] = id
          BY <3>2, <3>3 DEF MayBecome
        <4> QED
          BY <1>2, <2>2, <3>1, <3>3, <4>1 DEF LockFits
      <3>4. CASE r.stage = "ended"
        <4>1. ops[o].held # <<>>
          BY <3>2
        <4> QED
          BY <1>2, <2>2, <3>1, <3>4, <4>1 DEF LockFits, MayBecome
      <3> QED
        BY <3>3, <3>4
    <2>4. CASE id[1] # o
      BY <1>2, <2>1, <2>2, <2>4 DEF LockFits
    <2> QED
      BY <2>3, <2>4
  <1> QED
    BY <1>1, <1>2, <1>4, <1>5, <1>6, <1>7, <1>8 DEF LocksFit

\* The fields of an operation, one by one.
LEMMA Fields ==
  ASSUME LocksFit, NEW o \in started
  PROVE  /\ ops[o] \in Operation /\ o \in Op
         /\ ops[o].job \in Job /\ ops[o].held \in Seq(LockId) /\ ops[o].todo \in Seq(Key)
         /\ ops[o].changed \subseteq Key /\ ops[o].stale \in Seq(Prefix)
         /\ Shape(o, ops[o])
         /\ Wanted(ops[o].job) \in Seq(Scope) /\ Len(Wanted(ops[o].job)) > 0
  <1>1. /\ ops[o] \in Operation /\ o \in Op /\ Shape(o, ops[o])
    BY DEF LocksFit
  <1>2. /\ ops[o].job \in Job /\ ops[o].held \in Seq(LockId) /\ ops[o].todo \in Seq(Key)
        /\ ops[o].changed \subseteq Key /\ ops[o].stale \in Seq(Prefix)
    BY <1>1 DEF Operation
  <1> QED
    BY <1>1, <1>2, WantedCovers

LEMMA RefusedFits ==
  ASSUME LocksFit, NEW o \in Op, Refused(o)
  PROVE  LocksFit'
  <1> DEFINE B == {id[1] : id \in {i \in live : Intersects(locks[i].scope, NextScope(o))}}
             stage == IF ops[o].held = <<>> THEN "ended" ELSE "releasing"
             r == [ops[o] EXCEPT !.stage = stage, !.result = "locked", !.blockers = B]
  <1>1. o \in started /\ ops[o].stage = "locking"
    BY DEF Refused, AtStage
  <1>2. /\ ops[o] \in Operation /\ ops[o].held \in Seq(LockId)
        /\ Shape(o, ops[o])
    BY <1>1, Fields
  <1>3. B \subseteq Op
    BY DEF LocksFit, LockFits
  <1>4. ops' = [ops EXCEPT ![o] = r]
    BY DEF Refused
  <1>5. stage \in {"ended", "releasing"} /\ (stage = "ended" <=> ops[o].held = <<>>)
    OBVIOUS
  <1> HIDE DEF B, stage
  <1>6. r \in Operation /\ r.stage = stage /\ r.held = ops[o].held /\ r.job = ops[o].job
        /\ r.todo = ops[o].todo /\ r.changed = ops[o].changed
    BY <1>2, <1>3, <1>5 DEF Operation, Stage, Result
  <1> HIDE DEF r
  <1>7. Shape(o, r)
    BY <1>2, <1>5, <1>6 DEF Shape, Moving
  <1>8. MayBecome(o, r)
    BY <1>1, <1>5, <1>6, <1>7 DEF MayBecome, Moving
  <1> QED
    BY <1>1, <1>4, <1>8, OneOperation DEF Refused

LEMMA AnnounceFits ==
  ASSUME LocksFit, NEW o \in Op, Announce(o)
  PROVE  LocksFit'
  <1> DEFINE found == Last(ops[o].held) \in live
             more == Len(ops[o].held) < Len(Wanted(ops[o].job))
             stage == IF ~found THEN "ended" ELSE IF more THEN "locking" ELSE "connecting"
             result == IF found THEN None ELSE "panic"
             r == [ops[o] EXCEPT !.stage = stage, !.result = result]
  <1>1. o \in started /\ ops[o].stage = "announcing"
    BY DEF Announce, AtStage
  <1>2. /\ ops[o] \in Operation /\ ops[o].held \in Seq(LockId)
        /\ Wanted(ops[o].job) \in Seq(Scope) /\ Shape(o, ops[o])
    BY <1>1, Fields
  <1>3. ops' = [ops EXCEPT ![o] = r]
    BY DEF Announce
  <1>4. /\ stage \in {"ended", "locking", "connecting"} /\ result \in {None, "panic"}
        /\ stage = "ended" => result = "panic"
        /\ stage = "locking" => Len(ops[o].held) < Len(Wanted(ops[o].job))
        /\ stage = "connecting" => ~(Len(ops[o].held) < Len(Wanted(ops[o].job)))
    OBVIOUS
  <1> HIDE DEF stage, result
  <1>5. r \in Operation /\ r.stage = stage /\ r.held = ops[o].held /\ r.job = ops[o].job
        /\ r.todo = ops[o].todo /\ r.result = result /\ r.changed = ops[o].changed
    BY <1>2, <1>4 DEF Operation, Stage, Result
  <1> HIDE DEF r
  <1>6. Shape(o, r)
    BY <1>1, <1>2, <1>4, <1>5 DEF Shape, Moving
  <1>7. MayBecome(o, r)
    BY <1>1, <1>4, <1>5, <1>6 DEF MayBecome, Moving
  <1> QED
    BY <1>1, <1>3, <1>7, OneOperation DEF Announce

LEMMA ConnectFits ==
  ASSUME LocksFit, NEW o \in Op, Connect(o) \/ PoolMiss(o)
  PROVE  LocksFit'
  <1>1. o \in started /\ ops[o].stage = "connecting"
    BY DEF Connect, PoolMiss, AtStage
  <1>2. ops[o] \in Operation /\ ops[o].held \in Seq(LockId) /\ Shape(o, ops[o])
    BY <1>1, Fields
  <1>3. PICK r : /\ ops' = [ops EXCEPT ![o] = r]
                 /\ \/ r = [ops[o] EXCEPT !.stage = "calling"]
                    \/ r = [ops[o] EXCEPT !.stage = "ended", !.result = "pool_miss"]
    BY DEF Connect, PoolMiss
  <1>4. /\ r \in Operation /\ r.held = ops[o].held /\ r.job = ops[o].job /\ r.todo = ops[o].todo
        /\ r.changed = ops[o].changed
        /\ r.stage = "calling" \/ (r.stage = "ended" /\ r.result = "pool_miss")
    BY <1>2, <1>3 DEF Operation, Stage, Result
  <1>5. Shape(o, r)
    BY <1>1, <1>2, <1>4 DEF Shape, Moving
  <1>6. MayBecome(o, r)
    BY <1>1, <1>4, <1>5 DEF MayBecome, Moving
  <1> QED
    BY <1>1, <1>3, <1>6, OneOperation DEF Connect, PoolMiss

-----------------------------------------------------------------------------
(***************************************************************************)
(* Requests: what they do to the objects and to the other commands.        *)
(***************************************************************************)

\* The way out keeps the locks, perhaps in the other order.
LEMMA OutcomeFits ==
  ASSUME LocksFit, NEW o \in started, AtS3(o), NEW result \in {"ok", "error"}
  PROVE  MayBecome(o, Outcome(o, result))
  <1> DEFINE held == ops[o].held
             r == Outcome(o, result)
  <1>1. /\ ops[o] \in Operation /\ held \in Seq(LockId) /\ Shape(o, ops[o])
        /\ Wanted(ops[o].job) \in Seq(Scope) /\ Len(Wanted(ops[o].job)) > 0
        /\ ops[o].stage \in {"calling", "copied"}
    BY Fields DEF AtS3, AtStage
  <1>2. Len(held) > 0
    BY <1>1 DEF Shape
  <1>3. /\ Returned(o) \in Seq(LockId) /\ Len(Returned(o)) = Len(held)
        /\ \A i \in DOMAIN held : \E n \in DOMAIN held : Returned(o)[n] = held[i]
        /\ \A i \in DOMAIN held : \E n \in DOMAIN held : Returned(o)[i] = held[n]
    <2>1. CASE Returned(o) = held
      BY <1>1, <2>1
    <2>2. CASE Returned(o) = Reverse(held)
      <3> HIDE DEF held
      <3> DEFINE n == Len(held)
      <3>1. n \in Nat /\ DOMAIN held = 1 .. n /\ \A i \in 1 .. n : held[i] \in LockId
        BY <1>1
      <3>2. Returned(o) = [i \in 1 .. n |-> held[n - i + 1]]
        BY <2>2 DEF Reverse
      <3> HIDE DEF n
      <3>3. \A i \in 1 .. n : n - i + 1 \in 1 .. n /\ n - (n - i + 1) + 1 = i
        BY <3>1
      <3>4. \A i \in 1 .. n : Returned(o)[i] = held[n - i + 1] /\ held[n - i + 1] \in LockId
        BY <3>1, <3>2, <3>3
      <3>5. Returned(o) \in [1 .. n -> LockId]
        BY <3>2, <3>4
      <3>6. Returned(o) \in Seq(LockId) /\ Len(Returned(o)) = n
        BY <3>1, <3>5
      <3>7. \A i \in 1 .. n : Returned(o)[n - i + 1] = held[i]
        BY <3>3, <3>4
      <3> QED
        BY <3>1, <3>3, <3>4, <3>6, <3>7 DEF n
    <2> QED
      BY <2>1, <2>2 DEF Returned
  <1>4. r = [ops[o] EXCEPT !.stage = "releasing", !.result = result, !.held = Returned(o)]
    BY DEF Outcome
  <1> HIDE DEF held
  <1>5. /\ r \in Operation /\ r.stage = "releasing" /\ r.held = Returned(o)
        /\ r.job = ops[o].job /\ r.todo = ops[o].todo /\ r.changed = ops[o].changed
    BY <1>1, <1>3, <1>4 DEF Operation, Stage, Result
  <1> HIDE DEF r
  <1>6. DOMAIN Returned(o) = DOMAIN held /\ held = ops[o].held
    BY <1>1, <1>3 DEF held
  <1>7. \A i \in DOMAIN held : held[i] \in {o} \X Nat
    BY <1>1, <1>6 DEF Shape
  <1>8. \A i \in DOMAIN r.held : r.held[i] \in {o} \X Nat
    BY <1>3, <1>5, <1>6, <1>7
  <1>9. Shape(o, r)
    BY <1>1, <1>2, <1>3, <1>5, <1>8 DEF Shape, Moving
  <1> QED
    BY <1>1, <1>3, <1>5, <1>6, <1>9 DEF MayBecome, Moving, r

LEMMA LastOne ==
  ASSUME NEW S, NEW s \in Seq(S), Len(s) > 0
  PROVE  Len(s) \in DOMAIN s /\ s[Len(s)] \in S
  OBVIOUS

LEMMA KeysOf ==
  ASSUME NEW j \in Job
  PROVE  /\ j.keys \in Seq(Key) /\ Touches(j) \subseteq Key
         /\ j.kind \in {"copy", "move"} => Len(j.keys) = 2
         /\ j.kind \in {"folder", "write"} => Len(j.keys) = 1
         /\ \A i \in DOMAIN j.keys : j.keys[i] \in Touches(j)
  <1>1. j \in [kind : {"copy", "move", "folder", "write", "delete"}, keys : Seq(Key)]
    BY MutationAssumption
  <1>2. j.keys \in Seq(Key)
    BY <1>1
  <1> QED
    BY <1>2, JobAssumption DEF Touches

\* A command at S3 writes only what it touches: another move is undisturbed.
LEMMA MovesKept ==
  ASSUME LocksFit, NEW o \in started, NEW r, ops' = [ops EXCEPT ![o] = r], lost' = lost,
         \A q \in started : MoveFits(q), AtS3(o),
         \A k \in Key \ Touches(ops[o].job) : objects'[k] = objects[k],
         r.stage = "copied" => MoveFits(o)'
  PROVE  \A q \in started' : MoveFits(q)'
  <1>1. /\ started' = started
        /\ \A q \in started : ops'[q] = IF q = o THEN r ELSE ops[q]
    BY DEF LocksFit, started
  <1>2. ASSUME NEW q \in started PROVE MoveFits(q)'
    <2>1. CASE ops'[q].stage # "copied" \/ lost
      BY <2>1 DEF MoveFits
    <2>2. CASE q # o /\ ops'[q].stage = "copied" /\ ~lost
      <3>1. ops'[q] = ops[q] /\ ops[q].stage = "copied" /\ AtS3(q)
        BY <1>1, <2>2 DEF AtS3, AtStage
      <3>2. Touches(ops[o].job) \cap Touches(ops[q].job) = {}
        BY <2>2, <3>1, TouchesDiffer
      <3>3. ops[q].job \in Job /\ ops[q].job.kind = "move"
        BY <3>1, Fields DEF Shape
      <3>4. /\ ops[q].job.keys[1] \in Touches(ops[q].job) \cap Key
            /\ ops[q].job.keys[2] \in Touches(ops[q].job) \cap Key
        BY <3>3, KeysOf
      <3>5. /\ objects'[ops[q].job.keys[1]] = objects[ops[q].job.keys[1]]
            /\ objects'[ops[q].job.keys[2]] = objects[ops[q].job.keys[2]]
        BY <3>2, <3>4
      <3>6. PICK k1, k2 : k1 = ops[q].job.keys[1] /\ k2 = ops[q].job.keys[2]
        OBVIOUS
      <3>7. MoveFits(q)
        OBVIOUS
      <3>8. Seen(k1) = ops[q].source /\ Seen(k2) = q
        BY <2>2, <3>1, <3>6, <3>7 DEF MoveFits
      <3>9. Seen(k1)' = ops[q].source /\ Seen(k2)' = q
        BY <3>5, <3>6, <3>8 DEF Seen
      <3>10. ops'[q].job.keys[1] = k1 /\ ops'[q].job.keys[2] = k2 /\ ops'[q].source = ops[q].source
        BY <3>1, <3>6
      <3> QED
        BY <3>9, <3>10 DEF MoveFits, Seen
    <2>3. CASE q = o /\ ops'[q].stage = "copied"
      BY <1>1, <2>3
    <2> QED
      BY <2>1, <2>2, <2>3
  <1> QED
    BY <1>1, <1>2

ObjectsType == objects \in [Key -> [here : BOOLEAN, by : Op \cup {None}]]

LEMMA PutType ==
  ASSUME ObjectsType, NEW o \in Op, NEW k \in Key, Put(o, k)
  PROVE  ObjectsType' /\ (\A i \in Key \ {k} : objects'[i] = objects[i]) /\ Seen(k)' = o
  BY DEF ObjectsType, Put, Seen

LEMMA EraseType ==
  ASSUME ObjectsType, NEW o \in Op, NEW K \in SUBSET Key, Erase(o, K)
  PROVE  ObjectsType' /\ \A i \in Key \ K : objects'[i] = objects[i]
  BY DEF ObjectsType, Erase

LEMMA PutObjectFits ==
  ASSUME LocksFit, ObjectsType, \A q \in started : MoveFits(q), NEW o \in Op, PutObject(o)
  PROVE  LocksFit' /\ ObjectsType' /\ \A q \in started' : MoveFits(q)'
  <1>0. PICK keys : keys = ops[o].job.keys
    OBVIOUS
  <1>1. /\ o \in started /\ AtS3(o) /\ ops[o].job.kind \in {"copy", "folder", "write"}
        /\ UNCHANGED lockVars /\ lost' = lost
    BY DEF PutObject, AtStage, AtS3
  <1>2. PICK result \in {"ok", "error"} : ops' = [ops EXCEPT ![o] = Outcome(o, result)]
    BY DEF PutObject, Succeed, Fail
  <1>3. MayBecome(o, Outcome(o, result)) /\ Outcome(o, result).stage = "releasing"
    <2>1. Outcome(o, result).stage = "releasing"
      <3>1. ops[o] \in Operation
        BY <1>1, Fields
      <3> QED
        BY <3>1 DEF Outcome, Operation
    <2> QED
      BY <1>1, <2>1, OutcomeFits
  <1>4. LocksFit'
    BY <1>1, <1>2, <1>3, OneOperation
  <1>5. ops[o].job \in Job
    BY <1>1, Fields
  <1>6. keys \in Seq(Key) /\ Len(keys) > 0
    BY <1>0, <1>1, <1>5, KeysOf
  <1>7. Last(keys) \in Touches(ops[o].job) /\ Last(keys) \in Key
    <2>1. Len(keys) \in DOMAIN keys /\ keys[Len(keys)] \in Key
      BY <1>6, LastOne
    <2> QED
      BY <1>0, <1>5, <2>1, KeysOf DEF Last
  <1>8. Put(o, Last(keys)) \/ UNCHANGED objects
    BY <1>0 DEF PutObject
  <1>9. ObjectsType' /\ \A k \in Key \ Touches(ops[o].job) : objects'[k] = objects[k]
    <2>1. CASE Put(o, Last(keys))
      BY <1>7, <2>1, PutType
    <2>2. CASE UNCHANGED objects
      BY <2>2 DEF ObjectsType
    <2> QED
      BY <1>8, <2>1, <2>2
  <1> QED
    BY <1>1, <1>2, <1>3, <1>4, <1>9, MovesKept

LEMMA MoveDeleteFits ==
  ASSUME LocksFit, ObjectsType, \A q \in started : MoveFits(q), NEW o \in Op, MoveDelete(o)
  PROVE  LocksFit' /\ ObjectsType' /\ \A q \in started' : MoveFits(q)'
  <1> DEFINE k1 == ops[o].job.keys[1]
  <1>1. o \in started /\ AtS3(o) /\ ops[o].stage = "copied" /\ UNCHANGED lockVars /\ lost' = lost
    BY DEF MoveDelete, AtStage, AtS3
  <1>2. PICK result \in {"ok", "error"} : ops' = [ops EXCEPT ![o] = Outcome(o, result)]
    BY DEF MoveDelete, Succeed, Fail
  <1>3. ops[o].job \in Job /\ ops[o] \in Operation /\ ops[o].job.kind = "move"
    BY <1>1, Fields DEF Shape
  <1>4. MayBecome(o, Outcome(o, result)) /\ Outcome(o, result).stage = "releasing"
    <2>1. Outcome(o, result).stage = "releasing"
      BY <1>3 DEF Outcome, Operation
    <2> QED
      BY <1>1, <2>1, OutcomeFits
  <1>5. LocksFit'
    BY <1>1, <1>2, <1>4, OneOperation
  <1>6. k1 \in Touches(ops[o].job) /\ k1 \in Key
    BY <1>3, KeysOf
  <1>7. Erase(o, {k1}) \/ UNCHANGED objects
    BY DEF MoveDelete
  <1> HIDE DEF k1
  <1>8. ObjectsType' /\ \A k \in Key \ Touches(ops[o].job) : objects'[k] = objects[k]
    <2>1. CASE Erase(o, {k1})
      BY <1>6, <2>1, EraseType
    <2>2. CASE UNCHANGED objects
      BY <2>2 DEF ObjectsType
    <2> QED
      BY <1>7, <2>1, <2>2
  <1> QED
    BY <1>1, <1>2, <1>4, <1>5, <1>8, MovesKept

LEMMA MoveCopyFits ==
  ASSUME LocksFit, ObjectsType, \A q \in started : MoveFits(q), NEW o \in Op, MoveCopy(o)
  PROVE  LocksFit' /\ ObjectsType' /\ \A q \in started' : MoveFits(q)'
  <1>1. PICK k1, k2 : k1 = ops[o].job.keys[1] /\ k2 = ops[o].job.keys[2]
    OBVIOUS
  <1>2. /\ o \in started /\ AtS3(o) /\ ops[o].stage = "calling" /\ ops[o].job.kind = "move"
        /\ UNCHANGED lockVars /\ lost' = lost
    BY DEF MoveCopy, AtStage, AtS3
  <1>3. /\ ops[o] \in Operation /\ ops[o].job \in Job /\ ops[o].held \in Seq(LockId)
        /\ Shape(o, ops[o])
    BY <1>2, Fields
  <1>4. k1 \in Touches(ops[o].job) \cap Key /\ k2 \in Touches(ops[o].job) \cap Key
    BY <1>1, <1>2, <1>3, KeysOf
  <1>5. Put(o, k2) \/ UNCHANGED objects
    BY <1>1 DEF MoveCopy
  <1>6. ObjectsType' /\ \A k \in Key \ Touches(ops[o].job) : objects'[k] = objects[k]
    <2>1. CASE Put(o, k2)
      BY <1>4, <2>1, PutType
    <2>2. CASE UNCHANGED objects
      BY <2>2 DEF ObjectsType
    <2> QED
      BY <1>5, <2>1, <2>2
  <1>7. CASE Fail(o)
    <2>1. ops' = [ops EXCEPT ![o] = Outcome(o, "error")]
      BY <1>7 DEF Fail
    <2>2. Outcome(o, "error").stage = "releasing"
      BY <1>3 DEF Outcome, Operation
    <2>3. MayBecome(o, Outcome(o, "error"))
      BY <1>2, OutcomeFits
    <2>4. LocksFit'
      BY <1>2, <2>1, <2>3, OneOperation
    <2> QED
      BY <1>2, <1>6, <2>1, <2>2, <2>4, MovesKept
  <1>8. CASE /\ Put(o, k2)
             /\ ops' = [ops EXCEPT ![o].stage = "copied", ![o].source = Seen(k1)]
    <2>1. PICK v : v = Seen(k1)
      OBVIOUS
    <2>2. v \in Version
      BY <1>4, <2>1 DEF Seen, ObjectsType, Version
    <2>3. PICK r : r = [ops[o] EXCEPT !.stage = "copied", !.source = v]
      OBVIOUS
    <2>4. ops' = [ops EXCEPT ![o] = r]
      BY <1>8, <2>1, <2>3
    <2>5. /\ r \in Operation /\ r.stage = "copied" /\ r.held = ops[o].held /\ r.source = v
          /\ r.job = ops[o].job /\ r.todo = ops[o].todo /\ r.changed = ops[o].changed
      BY <1>3, <2>2, <2>3 DEF Operation, Stage
    <2>6. Shape(o, r)
      BY <1>2, <1>3, <2>5 DEF Shape, Moving
    <2>7. MayBecome(o, r)
      BY <1>2, <2>5, <2>6 DEF MayBecome, Moving
    <2>8. LocksFit'
      BY <1>2, <2>4, <2>7, OneOperation
    <2>9. MoveFits(o)'
      <3>1. CASE lost
        BY <1>2, <3>1 DEF MoveFits
      <3>2. CASE ~lost
        <4>1. k1 # k2
          BY <1>1, <1>2, <3>2, TwoKeys
        <4>2. objects'[k1] = objects[k1] /\ Seen(k2)' = o
          BY <1>4, <1>8, <4>1, PutType
        <4>3. Seen(k1)' = v
          BY <2>1, <4>2 DEF Seen
        <4>4. ops'[o] = r
          BY <1>2, <2>4 DEF LocksFit, started
        <4>5. ops'[o].job.keys[1] = k1 /\ ops'[o].job.keys[2] = k2 /\ ops'[o].source = v
          BY <1>1, <2>5, <4>4
        <4> QED
          BY <4>2, <4>3, <4>5 DEF MoveFits, Seen
      <3> QED
        BY <3>1, <3>2
    <2> QED
      BY <1>2, <1>6, <2>4, <2>8, <2>9, MovesKept
  <1> QED
    BY <1>1, <1>7, <1>8 DEF MoveCopy

LEMMA DeleteChunkFits ==
  ASSUME LocksFit, ObjectsType, \A q \in started : MoveFits(q), NEW o \in Op, DeleteChunk(o)
  PROVE  LocksFit' /\ ObjectsType' /\ \A q \in started' : MoveFits(q)'
  <1> DEFINE todo == ops[o].todo
             n    == IF Len(todo) < ChunkSize THEN Len(todo) ELSE ChunkSize
             rest == SubSeq(todo, n + 1, Len(todo))
  <1>0. \E K \in SUBSET {todo[i] : i \in 1 .. n} :
          /\ Erase(o, K)
          /\ \/ Fail(o)
             \/ ops' = [ops EXCEPT ![o] =
                  [(IF rest = <<>> THEN Outcome(o, "ok") ELSE ops[o])
                     EXCEPT !.todo = rest, !.changed = @ \cup K]]
    BY DEF DeleteChunk
  <1>1. /\ todo = ops[o].todo
        /\ n = IF Len(todo) < ChunkSize THEN Len(todo) ELSE ChunkSize
        /\ rest = SubSeq(todo, n + 1, Len(todo))
    OBVIOUS
  <1> HIDE DEF todo, n, rest
  <1>2. /\ o \in started /\ AtS3(o) /\ ops[o].stage = "calling"
        /\ UNCHANGED lockVars /\ lost' = lost
    BY DEF DeleteChunk, AtStage, AtS3
  <1>3. /\ ops[o] \in Operation /\ ops[o].job \in Job /\ ops[o].held \in Seq(LockId)
        /\ todo \in Seq(Key) /\ Shape(o, ops[o])
    BY <1>1, <1>2, Fields
  <1>4. PICK K \in SUBSET {todo[i] : i \in 1 .. n} :
          /\ Erase(o, K)
          /\ \/ Fail(o)
             \/ ops' = [ops EXCEPT ![o] =
                  [(IF rest = <<>> THEN Outcome(o, "ok") ELSE ops[o])
                     EXCEPT !.todo = rest, !.changed = @ \cup K]]
    BY <1>0
  <1>5. n \in Nat /\ n <= Len(todo) /\ Len(todo) \in Nat
    BY <1>1, <1>3, MutationAssumption
  <1>6. \A i \in 1 .. Len(todo) : todo[i] \in Touches(ops[o].job)
    BY <1>1, <1>3 DEF Shape
  <1>7. K \subseteq Touches(ops[o].job) /\ K \subseteq Key
    BY <1>3, <1>5, <1>6, KeysOf
  <1>8. rest \in Seq(Touches(ops[o].job)) /\ rest \in Seq(Key)
    <2>1. /\ \A i \in n + 1 .. Len(todo) : todo[i] \in Touches(ops[o].job)
          /\ \A i \in n + 1 .. Len(todo) : todo[i] \in Key
      BY <1>3, <1>5, <1>6, KeysOf
    <2>2. n + 1 \in Int /\ Len(todo) \in Int
      BY <1>5
    <2>3. rest \in Seq(Touches(ops[o].job))
      BY <1>1, <2>1, <2>2, SubSeqProperties
    <2>4. rest \in Seq(Key)
      BY <1>1, <2>1, <2>2, SubSeqProperties
    <2> QED
      BY <2>3, <2>4
  <1>9. ObjectsType' /\ \A k \in Key \ Touches(ops[o].job) : objects'[k] = objects[k]
    BY <1>4, <1>7, EraseType
  <1>10. \A result \in {"ok", "error"} :
           /\ MayBecome(o, Outcome(o, result)) /\ Outcome(o, result).stage = "releasing"
    <2> SUFFICES ASSUME NEW result \in {"ok", "error"}
                 PROVE  /\ MayBecome(o, Outcome(o, result))
                        /\ Outcome(o, result).stage = "releasing"
      OBVIOUS
    <2>1. Outcome(o, result).stage = "releasing"
      BY <1>3 DEF Outcome, Operation
    <2> QED
      BY <1>2, <2>1, OutcomeFits
  <1>11. PICK r : /\ ops' = [ops EXCEPT ![o] = r]
                  /\ \/ r = Outcome(o, "error")
                     \/ r = [Outcome(o, "ok") EXCEPT !.todo = rest, !.changed = @ \cup K]
                     \/ r = [ops[o] EXCEPT !.todo = rest, !.changed = @ \cup K]
    BY <1>4 DEF Fail
  <1>12. MayBecome(o, r) /\ r.stage # "copied"
    <2>1. CASE r = Outcome(o, "error")
      BY <1>10, <2>1
    <2>2. ASSUME NEW b, MayBecome(o, b), b.stage # "copied",
                 r = [b EXCEPT !.todo = rest, !.changed = @ \cup K]
          PROVE  MayBecome(o, r) /\ r.stage # "copied"
      <3>1. b \in Operation /\ Shape(o, b) /\ b.job = ops[o].job
        BY <2>2 DEF MayBecome
      <3>2. /\ r \in Operation /\ r.stage = b.stage /\ r.held = b.held /\ r.job = b.job
            /\ r.todo = rest /\ r.stale = b.stale /\ r.result = b.result
            /\ r.changed = b.changed \cup K
        BY <1>7, <1>8, <2>2, <3>1 DEF Operation
      <3>3. \A i \in DOMAIN r.todo : r.todo[i] \in Touches(r.job)
        BY <1>8, <3>1, <3>2
      <3>4. Shape(o, r)
        BY <1>7, <3>1, <3>2, <3>3 DEF Shape
      <3> QED
        BY <2>2, <3>1, <3>2, <3>4 DEF MayBecome
    <2>3. MayBecome(o, ops[o])
      BY <1>2, <1>3 DEF MayBecome
    <2> QED
      BY <1>2, <1>10, <1>11, <2>1, <2>2, <2>3
  <1>13. LocksFit'
    BY <1>2, <1>11, <1>12, OneOperation
  <1> QED
    BY <1>2, <1>9, <1>11, <1>12, <1>13, MovesKept

-----------------------------------------------------------------------------
(***************************************************************************)
(* Taking and giving back.                                                 *)
(***************************************************************************)

LEMMA StartFits ==
  ASSUME LocksFit, NEW o \in Op, NEW j \in Job, Start(o, j)
  PROVE  LocksFit' /\ ops'[o].stage = "locking" /\ started' = started \cup {o}
         /\ \A q \in started : ops'[q] = ops[q]
  <1>1. PICK r : r = [job |-> j, stage |-> "locking", result |-> None,
                      held |-> <<>>, todo |-> j.keys, changed |-> {},
                      source |-> None, stale |-> <<>>, blockers |-> {}]
    OBVIOUS
  <1>2. /\ o \notin started /\ ops' = With(ops, o, r) /\ UNCHANGED lockVars /\ lost' = lost
    BY <1>1 DEF Start
  <1>3. started' = started \cup {o} /\ ops'[o] = r /\ \A q \in started : ops'[q] = ops[q]
    BY <1>2 DEF With, started
  <1>4. r \in Operation
    <2>1. j.keys \in Seq(Key)
      BY KeysOf
    <2> QED
      BY <1>1, <2>1 DEF Operation, Stage, Version
  <1>5. \A q \in started' : ops'[q] \in Operation
    BY <1>3, <1>4 DEF LocksFit
  <1>6. ops' \in [started' -> Operation] /\ started' \subseteq Op
    <2>1. ops' = [q \in started' |-> ops'[q]]
      BY <1>2 DEF With, started
    <2> QED
      BY <1>3, <1>5, <2>1 DEF LocksFit
  <1>7. Shape(o, r)
    <2>1. Len(Wanted(j)) > 0 /\ Len(r.held) = 0 /\ r.stage = "locking" /\ r.job = j
          /\ r.todo = j.keys /\ r.held = <<>> /\ r.changed = {}
      BY <1>1, WantedCovers
    <2>2. \A i \in DOMAIN j.keys : j.keys[i] \in Touches(j)
      BY KeysOf
    <2> QED
      BY <2>1, <2>2 DEF Shape
  <1>8. live' = live /\ locks' = locks /\ TypeOK' /\ MutualExclusion'
    BY <1>2, RegistryKept DEF LocksFit, live, lockVars
  <1>9. \A q \in started' : Shape(q, ops'[q])
    BY <1>3, <1>7 DEF LocksFit
  <1>10. \A q \in started' : Owns(q)'
    <2>1. r.held = <<>>
      BY <1>1
    <2>2. Owns(o)'
      BY <1>3, <2>1 DEF Owns
    <2>3. ASSUME NEW q \in started PROVE Owns(q)'
      <3>1. Owns(q)
        BY DEF LocksFit
      <3> QED
        BY <1>2, <1>3, <1>8, <3>1 DEF Owns
    <2> QED
      BY <1>3, <2>2, <2>3
  <1>11. ASSUME NEW id \in live' PROVE LockFits(id)'
    <2>1. LockFits(id)
      BY <1>8 DEF LocksFit
    <2>2. id[1] \in started /\ ops'[id[1]] = ops[id[1]]
      BY <1>3, <2>1 DEF LockFits
    <2> QED
      BY <1>3, <2>1, <2>2 DEF LockFits
  <1>12. r.stage = "locking"
    BY <1>1
  <1> QED
    BY <1>3, <1>6, <1>8, <1>9, <1>10, <1>11, <1>12 DEF LocksFit

LEMMA TakeLockFits ==
  ASSUME LocksFit, NEW o \in Op, TakeLock(o)
  PROVE  LocksFit' /\ ops'[o].stage = "announcing" /\ started' = started
         /\ \A q \in started \ {o} : ops'[q] = ops[q]
  <1>1. PICK n, id, s : n = Len(ops[o].held) /\ id = <<o, n + 1>> /\ s = Wanted(ops[o].job)[n + 1]
    OBVIOUS
  <1>2. /\ o \in started /\ ops[o].stage = "locking" /\ Acquire(id, s, 0) /\ lost' = lost
        /\ ops' = [ops EXCEPT ![o].stage = "announcing", ![o].held = Append(@, id)]
    BY <1>1 DEF TakeLock, AtStage, NextScope
  <1>3. /\ ops[o] \in Operation /\ ops[o].job \in Job /\ ops[o].held \in Seq(LockId)
        /\ Shape(o, ops[o]) /\ Wanted(ops[o].job) \in Seq(Scope)
    BY <1>2, Fields
  <1>4. PICK w : w = Len(Wanted(ops[o].job))
    OBVIOUS
  <1>5. n \in Nat /\ w \in Nat /\ n < w /\ DOMAIN Wanted(ops[o].job) = 1 .. w
    BY <1>1, <1>2, <1>3, <1>4 DEF Shape
  <1>6. n + 1 \in DOMAIN Wanted(ops[o].job) /\ s \in Scope
    BY <1>1, <1>3, <1>5
  <1>7. id \in LockId
    BY <1>1, <1>3, <1>6, JobAssumption
  <1>8. [Next]_lockVars
    <2>1. 0 \in 0 .. MaxAge
      BY LockAssumption DEF MaxAge
    <2> QED
      BY <1>2, <1>6, <1>7, <2>1 DEF Next
  <1>9. TypeOK' /\ MutualExclusion'
    BY <1>8, TypeStep, ExclusionStep DEF LocksFit
  <1>10. /\ live' = live \cup {id} /\ id \notin live /\ locks'[id].scope = s
         /\ \A x \in live : locks'[x] = locks[x]
    BY <1>2 DEF Acquire, With, live, LocksFit, TypeOK
  <1>11. PICK r : r = [ops[o] EXCEPT !.stage = "announcing", !.held = Append(ops[o].held, id)]
    OBVIOUS
  <1>12. /\ started' = started /\ ops'[o] = r /\ ops' = [ops EXCEPT ![o] = r]
         /\ \A q \in started \ {o} : ops'[q] = ops[q]
    BY <1>2, <1>3, <1>11 DEF LocksFit, started, Operation
  <1>13. /\ r.stage = "announcing" /\ r.job = ops[o].job /\ r.todo = ops[o].todo
         /\ r.changed = ops[o].changed
         /\ r.held = Append(ops[o].held, id)
    BY <1>3, <1>11 DEF Operation
  <1>14. /\ r.held \in Seq(LockId) /\ Len(r.held) = n + 1 /\ r.held[n + 1] = id
         /\ \A i \in 1 .. n : r.held[i] = ops[o].held[i]
         /\ DOMAIN r.held = 1 .. (n + 1) /\ DOMAIN ops[o].held = 1 .. n
    BY <1>1, <1>3, <1>7, <1>13
  <1>15. r \in Operation
    BY <1>3, <1>11, <1>13, <1>14 DEF Operation, Stage
  <1>16. \A i \in 1 .. n : ops[o].held[i] = <<o, i>>
    BY <1>2, <1>3, <1>14 DEF Shape, Moving
  <1>17. \A i \in 1 .. (n + 1) : r.held[i] = <<o, i>>
    BY <1>1, <1>5, <1>14, <1>16
  <1>18. Shape(o, r)
    <2>1. \A i \in DOMAIN r.held : r.held[i] \in {o} \X Nat
      <3> SUFFICES ASSUME NEW i \in 1 .. (n + 1) PROVE r.held[i] \in {o} \X Nat
        BY <1>14
      <3>1. i \in Nat
        BY <1>5
      <3>2. r.held[i] = <<o, i>>
        BY <1>17
      <3> QED
        BY <3>1, <3>2
    <2>2. n + 1 \in 1 .. w
      BY <1>5
    <2>3. (\A i \in DOMAIN r.todo : r.todo[i] \in Touches(r.job)) /\ r.changed \subseteq Touches(r.job)
      BY <1>3, <1>13 DEF Shape
    <2> QED
      BY <1>4, <1>13, <1>14, <1>17, <2>1, <2>2, <2>3 DEF Shape
  <1>19. \A q \in started' : Shape(q, ops'[q])
    BY <1>12, <1>18 DEF LocksFit
  <1>20. ops' \in [started' -> Operation] /\ started' \subseteq Op
    BY <1>12, <1>15 DEF LocksFit
  <1>21. Owns(o)'
    <2> SUFFICES ASSUME ~lost, NEW i \in 1 .. (n + 1)
                 PROVE  <<o, i>> \in live' /\ locks'[<<o, i>>].scope = Wanted(ops[o].job)[i]
      BY <1>2, <1>12, <1>13, <1>14 DEF Owns
    <2>1. CASE i = n + 1
      BY <1>1, <1>10, <2>1
    <2>2. CASE i \in 1 .. n
      <3>1. <<o, i>> \in live /\ locks[<<o, i>>].scope = Wanted(ops[o].job)[i]
        BY <1>2, <1>14, <2>2 DEF LocksFit, Owns, Moving
      <3> QED
        BY <1>10, <3>1
    <2> QED
      BY <1>5, <2>1, <2>2
  <1>22. ASSUME NEW q \in started \ {o} PROVE Owns(q)'
    <2>1. Owns(q)
      BY DEF LocksFit
    <2> QED
      BY <1>2, <1>10, <1>12, <2>1 DEF Owns
  <1>23. ASSUME NEW x \in live' PROVE LockFits(x)'
    <2>1. CASE x = id
      <3>1. x \in started' \X Nat /\ x[1] = o
        BY <1>1, <1>2, <1>5, <1>12, <2>1
      <3>2. n + 1 \in DOMAIN r.held /\ r.held[n + 1] = x
        BY <1>5, <1>14, <2>1
      <3> QED
        BY <1>12, <1>13, <3>1, <3>2 DEF LockFits
    <2>2. CASE x # id
      <3>1. LockFits(x) /\ x[1] \in started
        BY <1>10, <2>2 DEF LocksFit, LockFits
      <3>2. CASE x[1] = o
        <4>1. PICK i \in DOMAIN ops[o].held : ops[o].held[i] = x
          BY <1>2, <3>1, <3>2 DEF LockFits
        <4>2. i \in DOMAIN r.held /\ r.held[i] = x
          BY <1>5, <1>14, <4>1
        <4> QED
          BY <1>12, <1>13, <3>1, <3>2, <4>2 DEF LockFits
      <3>3. CASE x[1] # o
        BY <1>12, <3>1, <3>3 DEF LockFits
      <3> QED
        BY <3>2, <3>3
    <2> QED
      BY <2>1, <2>2
  <1> QED
    BY <1>9, <1>12, <1>13, <1>19, <1>20, <1>21, <1>22, <1>23 DEF LocksFit

\* A lock is released, or nothing happens to the registry.
LEMMA ReleaseKeeps ==
  ASSUME TypeOK, MutualExclusion, NEW id,
         IF id \in live THEN Release(id) ELSE UNCHANGED lockVars
  PROVE  /\ TypeOK' /\ MutualExclusion'
         /\ live' = live \ {id} /\ \A x \in live' : locks'[x] = locks[x]
  <1>1. CASE id \in live
    <2>1. Release(id) /\ id \in LockId
      BY <1>1 DEF TypeOK
    <2>2. [Next]_lockVars
      BY <2>1 DEF Next
    <2>3. TypeOK' /\ MutualExclusion'
      BY <2>2, TypeStep, ExclusionStep
    <2> QED
      BY <2>1, <2>3 DEF Release, Without, live
  <1>2. CASE id \notin live
    BY <1>2, RegistryKept DEF live, lockVars
  <1> QED
    BY <1>1, <1>2

\* What a command invalidates are prefixes.
LEMMA AffectedPrefixes ==
  ASSUME NEW j \in Job, NEW deleted, deleted \subseteq Touches(j)
  PROVE  Affected(j, deleted) \in Seq(Prefix)
  <1>1. /\ j.keys \in Seq(Key)
        /\ j.kind \in {"copy", "move"} => Len(j.keys) = 2
        /\ j.kind \in {"folder", "write"} => Len(j.keys) = 1
        /\ j.kind \in {"copy", "move", "folder", "write", "delete"}
    BY KeysOf, MutationAssumption
  <1>2. CASE j.kind = "move"
    <2>1. Front(j.keys[1]) \in Prefix /\ Front(j.keys[2]) \in Prefix
      BY <1>1, <1>2, FoldersOfKeys
    <2>2. Affected(j, deleted) = <<Front(j.keys[1]), Front(j.keys[2])>>
      BY <1>2 DEF Affected
    <2> QED
      BY <2>1, <2>2
  <1>3. CASE j.kind = "delete"
    <2>1. {Front(k) : k \in deleted} \in SUBSET Prefix /\ IsFiniteSet({Front(k) : k \in deleted})
      BY <1>1, FoldersAreFinite DEF Touches
    <2>2. Affected(j, deleted) = Sorted({Front(k) : k \in deleted})
      BY <1>3 DEF Affected
    <2> QED
      BY <2>1, <2>2, SortedIsSorted
  <1>4. CASE j.kind \in {"copy", "folder", "write"}
    <2>1. j.keys[Len(j.keys)] \in Key
      <3>1. CASE j.kind = "copy"
        <4>1. Len(j.keys) = 2
          BY <1>1, <3>1
        <4> QED
          BY <1>1, <4>1, LastOne
      <3>2. CASE j.kind \in {"folder", "write"}
        <4>1. Len(j.keys) = 1
          BY <1>1, <3>2
        <4> QED
          BY <1>1, <4>1, LastOne
      <3> QED
        BY <1>4, <3>1, <3>2
    <2>2. Front(j.keys[Len(j.keys)]) \in Prefix
      BY <2>1, FoldersOfKeys
    <2>3. Affected(j, deleted) = <<Front(j.keys[Len(j.keys)])>>
      BY <1>4 DEF Affected
    <2> QED
      BY <2>2, <2>3
  <1> QED
    BY <1>1, <1>2, <1>3, <1>4

LEMMA GiveBackFits ==
  ASSUME LocksFit, NEW o \in Op, GiveBack(o)
  PROVE  /\ LocksFit' /\ o \in started /\ lost' = lost
         /\ \E r : ops' = [ops EXCEPT ![o] = r] /\ r.stage # "copied"
  <1>1. PICK id, rest, op, r :
          /\ id = Head(ops[o].held) /\ rest = Tail(ops[o].held)
          /\ op = [ops[o] EXCEPT !.held = rest]
          /\ r = IF rest = <<>> THEN Leave(op) ELSE op
    OBVIOUS
  <1>2. /\ o \in started /\ ops[o].stage = "releasing" /\ lost' = lost
        /\ IF id \in live THEN Release(id) ELSE UNCHANGED lockVars
    BY <1>1 DEF GiveBack, AtStage
  <1>3. /\ ops[o] \in Operation /\ ops[o].job \in Job /\ ops[o].held \in Seq(LockId)
        /\ ops[o].changed \subseteq Key /\ ops[o].stale \in Seq(Prefix) /\ Shape(o, ops[o])
    BY <1>2, Fields
  <1>4. op.held = rest /\ op.stage = "releasing" /\ op.job = ops[o].job
        /\ op.todo = ops[o].todo /\ op.result = ops[o].result /\ op.changed = ops[o].changed
    BY <1>1, <1>2, <1>3 DEF Operation
  <1>5. ops' = [ops EXCEPT ![o] = r]
    BY <1>1, <1>3 DEF GiveBack, Operation
  <1>6. PICK n : n = Len(ops[o].held)
    OBVIOUS
  <1>7. /\ n \in Nat /\ n > 0 /\ DOMAIN ops[o].held = 1 .. n /\ id = ops[o].held[1]
        /\ rest \in Seq(LockId) /\ Len(rest) = n - 1 /\ DOMAIN rest = 1 .. (n - 1)
        /\ \A i \in 1 .. (n - 1) : rest[i] = ops[o].held[i + 1]
    BY <1>1, <1>2, <1>3, <1>6 DEF Shape
  <1>8. op \in Operation
    BY <1>1, <1>3, <1>7 DEF Operation
  <1>18. \A i \in 1 .. n : ops[o].held[i] \in {o} \X Nat
    <2>1. \A i \in DOMAIN ops[o].held : ops[o].held[i] \in {o} \X Nat
      BY <1>3 DEF Shape
    <2> QED
      BY <1>7, <2>1
  <1>9. /\ r \in Operation /\ r.held = rest /\ r.job = ops[o].job /\ r.todo = ops[o].todo
        /\ r.changed = ops[o].changed
        /\ r.stage \in {"releasing", "ended", "invalidating"}
        /\ r.stage = "releasing" => rest # <<>>
        /\ r.stage # "releasing" => rest = <<>>
        /\ r.stage = "invalidating" => r.stale # <<>>
    <2>1. CASE rest # <<>>
      BY <1>1, <1>4, <1>8, <2>1
    <2>2. CASE rest = <<>>
      <3>1. PICK stale : stale = IF op.result = "ok" THEN Affected(op.job, op.changed) ELSE <<>>
        OBVIOUS
      <3>2. stale \in Seq(Prefix)
        <4>1. ops[o].changed \subseteq Touches(ops[o].job)
          BY <1>3 DEF Shape
        <4> QED
          BY <1>3, <1>4, <3>1, <4>1, AffectedPrefixes
      <3>3. r = [op EXCEPT !.stage = IF stale = <<>> THEN "ended" ELSE "invalidating",
                           !.stale = stale]
        BY <1>1, <2>2, <3>1 DEF Leave
      <3> QED
        BY <1>4, <1>8, <2>2, <3>2, <3>3 DEF Operation, Stage
    <2> QED
      BY <2>1, <2>2
  <1>10. /\ TypeOK' /\ MutualExclusion'
         /\ live' = live \ {id} /\ \A x \in live' : locks'[x] = locks[x]
    BY <1>2, ReleaseKeeps DEF LocksFit
  <1>11. /\ started' = started /\ ops'[o] = r
         /\ \A q \in started \ {o} : ops'[q] = ops[q]
    BY <1>2, <1>5 DEF LocksFit, started
  <1>12. Shape(o, r)
    <2>1. \A i \in DOMAIN r.held : r.held[i] \in {o} \X Nat
      <3> SUFFICES ASSUME NEW i \in 1 .. (n - 1) PROVE rest[i] \in {o} \X Nat
        BY <1>7, <1>9
      <3>1. i + 1 \in 1 .. n
        BY <1>7
      <3>2. rest[i] = ops[o].held[i + 1]
        BY <1>7
      <3> QED
        BY <1>18, <3>1, <3>2
    <2>2. (\A i \in DOMAIN r.todo : r.todo[i] \in Touches(r.job)) /\ r.changed \subseteq Touches(r.job)
      BY <1>3, <1>9 DEF Shape
    <2>3. /\ r.stage = "releasing" => Len(r.held) > 0
          /\ r.stage = "invalidating" => Len(r.held) = 0 /\ r.stale # <<>>
      BY <1>7, <1>9
    <2> QED
      BY <1>9, <2>1, <2>2, <2>3 DEF Shape, Moving
  <1>13. \A q \in started' : Shape(q, ops'[q])
    BY <1>11, <1>12 DEF LocksFit
  <1>14. ops' \in [started' -> Operation] /\ started' \subseteq Op
    BY <1>5, <1>9, <1>11 DEF LocksFit
  <1>15. id \in {o} \X Nat
    <2>1. 1 \in 1 .. n
      BY <1>7
    <2> QED
      BY <1>7, <1>18, <2>1
  <1>16. ASSUME NEW q \in started' PROVE Owns(q)'
    <2>1. CASE q = o
      BY <1>9, <1>11, <2>1 DEF Owns, Moving
    <2>2. CASE q # o
      <3>1. Owns(q) /\ ops'[q] = ops[q] /\ \A i : <<q, i>> # id
        BY <1>11, <1>15, <2>2 DEF LocksFit
      <3> QED
        BY <1>2, <1>10, <3>1 DEF Owns
    <2> QED
      BY <2>1, <2>2
  <1>17. ASSUME NEW x \in live' PROVE LockFits(x)'
    <2>1. x \in live /\ x # id /\ LockFits(x) /\ x[1] \in started
      BY <1>10 DEF LocksFit, LockFits
    <2>2. CASE x[1] = o
      <3>1. PICK i \in 1 .. n : ops[o].held[i] = x
        BY <1>2, <1>7, <2>1, <2>2 DEF LockFits
      <3>2. i # 1
        BY <1>7, <2>1, <3>1
      <3>3. i - 1 \in 1 .. (n - 1) /\ (i - 1) + 1 = i
        BY <1>7, <3>1, <3>2
      <3>4. i - 1 \in DOMAIN r.held /\ r.held[i - 1] = x
        BY <1>7, <1>9, <3>1, <3>3
      <3>5. r.stage # "ended"
        BY <1>7, <1>9, <3>3
      <3> QED
        BY <1>11, <2>1, <2>2, <3>4, <3>5 DEF LockFits
    <2>3. CASE x[1] # o
      BY <1>11, <2>1, <2>3 DEF LockFits
    <2> QED
      BY <2>2, <2>3
  <1> QED
    BY <1>2, <1>5, <1>9, <1>10, <1>11, <1>13, <1>14, <1>16, <1>17 DEF LocksFit

LEMMA InvalidateFits ==
  ASSUME LocksFit, NEW o \in Op, Invalidate(o)
  PROVE  /\ LocksFit' /\ o \in started /\ lost' = lost
         /\ \E r : ops' = [ops EXCEPT ![o] = r] /\ r.stage # "copied"
  <1>1. PICK rest, r :
          /\ rest = Tail(ops[o].stale)
          /\ r = [ops[o] EXCEPT !.stale = rest,
                                !.stage = IF rest = <<>> THEN "ended" ELSE "invalidating"]
    OBVIOUS
  <1>2. o \in started /\ ops[o].stage = "invalidating" /\ UNCHANGED lockVars /\ lost' = lost
    BY DEF Invalidate, AtStage
  <1>3. ops[o] \in Operation /\ ops[o].held \in Seq(LockId) /\ ops[o].stale \in Seq(Prefix)
        /\ Shape(o, ops[o])
    BY <1>2, Fields
  <1>4. ops[o].held = <<>> /\ ops[o].stale # <<>>
    BY <1>2, <1>3 DEF Shape
  <1>5. ops' = [ops EXCEPT ![o] = r]
    BY <1>1, <1>2, <1>3 DEF Invalidate, Operation
  <1>6. rest \in Seq(Prefix)
    BY <1>1, <1>3, <1>4
  <1>7. /\ r \in Operation /\ r.held = <<>> /\ r.job = ops[o].job /\ r.todo = ops[o].todo
        /\ r.changed = ops[o].changed
        /\ r.stage \in {"ended", "invalidating"} /\ r.stale = rest
        /\ r.stage = "invalidating" => rest # <<>>
    BY <1>1, <1>3, <1>4, <1>6 DEF Operation, Stage
  <1>8. Shape(o, r)
    BY <1>3, <1>4, <1>7 DEF Shape, Moving
  <1>9. MayBecome(o, r)
    BY <1>2, <1>4, <1>7, <1>8 DEF MayBecome, Moving
  <1>10. LocksFit'
    BY <1>2, <1>5, <1>9, OneOperation
  <1> QED
    BY <1>2, <1>5, <1>7, <1>10

LEMMA LapseFits ==
  ASSUME LocksFit, NEW id \in live, Lapse(id)
  PROVE  LocksFit' /\ (lost => lost') /\ ops' = ops
  <1>1. /\ Release(id) /\ ops' = ops /\ started' = started
        /\ lost' = (lost \/ ops[id[1]].stage # "ended")
    BY DEF Lapse, started
  <1>2. /\ TypeOK' /\ MutualExclusion'
        /\ live' = live \ {id} /\ \A x \in live' : locks'[x] = locks[x]
    BY <1>1, ReleaseKeeps DEF LocksFit
  <1>3. id \in started \X Nat
    BY DEF LocksFit, LockFits
  <1>4. ASSUME NEW q \in started PROVE Owns(q)'
    <2>1. Owns(q)
      BY DEF LocksFit
    <2>2. CASE ops[q].stage \in Moving /\ ~lost'
      <3>1. ~lost /\ ops[id[1]].stage = "ended"
        BY <1>1, <2>2
      <3>2. q # id[1]
        BY <2>2, <3>1 DEF Moving
      <3>3. \A i : <<q, i>> # id
        BY <1>3, <3>2
      <3> QED
        BY <1>1, <1>2, <2>1, <2>2, <3>1, <3>3 DEF Owns
    <2>3. CASE ~(ops[q].stage \in Moving /\ ~lost')
      BY <1>1, <2>3 DEF Owns
    <2> QED
      BY <2>2, <2>3
  <1>5. ASSUME NEW x \in live' PROVE LockFits(x)'
    <2>1. LockFits(x)
      BY <1>2 DEF LocksFit
    <2> QED
      BY <1>1, <2>1 DEF LockFits
  <1> QED
    BY <1>1, <1>2, <1>4, <1>5 DEF LocksFit

-----------------------------------------------------------------------------
(***************************************************************************)
(* Listings: what comes into the cache, and that nothing else depends on   *)
(* it.                                                                     *)
(***************************************************************************)

ListingsType ==
  /\ listings \in [Page -> [content : Listing, current : BOOLEAN] \cup {None}]
  /\ fetching \in [Fetch -> [page : Page, content : Listing] \cup {None}]

LEMMA AnswerIsListing ==
  ASSUME ObjectsType, NEW p \in Page
  PROVE  Answer(p) \in Listing
  <1>1. PICK K : K = IF p.flat THEN {i \in Key : IsPrefix(p.prefix, i)} ELSE Direct(p.prefix)
    OBVIOUS
  <1>2. K \in SUBSET Key
    BY <1>1 DEF Direct
  <1>3. \A k \in Key : Seen(k) \in Version
    BY DEF ObjectsType, Seen, Version
  <1>4. \A k \in K : Shown(k, p.flat) \in Version
    BY <1>2, <1>3 DEF Shown, Version
  <1>5. Answer(p) = [k \in K |-> Shown(k, p.flat)]
    BY <1>1 DEF Answer
  <1>6. Answer(p) \in [K -> Version]
    BY <1>4, <1>5
  <1> QED
    BY <1>2, <1>6 DEF Listing

LEMMA ListFits ==
  ASSUME ListingsType, ObjectsType, NEW f \in Fetch, NEW p \in Page, NEW force \in BOOLEAN,
         List(f, p, force)
  PROVE  ListingsType'
  <1>1. [page |-> p, content |-> Answer(p)] \in [page : Page, content : Listing]
    BY AnswerIsListing
  <1> QED
    BY <1>1 DEF List, ListingsType

LEMMA StoreListingFits ==
  ASSUME ListingsType, ObjectsType, NEW f \in Fetch, StoreListing(f)
  PROVE  ListingsType'
  <1>1. PICK r : r = fetching[f]
    OBVIOUS
  <1>2. r \in [page : Page, content : Listing]
    BY <1>1 DEF StoreListing, ListingsType
  <1>3. PICK b \in BOOLEAN : b = (r.content = Answer(r.page))
    OBVIOUS
  <1>4. listings' = [listings EXCEPT ![r.page] = [content |-> r.content, current |-> b]]
    BY <1>1, <1>3 DEF StoreListing
  <1>5. [content |-> r.content, current |-> b] \in [content : Listing, current : BOOLEAN]
    BY <1>2
  <1>6. fetching' = [fetching EXCEPT ![f] = None]
    BY DEF StoreListing
  <1> QED
    BY <1>4, <1>5, <1>6 DEF ListingsType

\* The steps of a command leave the listings as they are, or forget one.
LEMMA ForgetFits ==
  ASSUME ListingsType, NEW L, fetching' = fetching,
         listings' = [p \in Page |-> IF p \in L THEN None ELSE listings[p]]
  PROVE  ListingsType'
  BY DEF ListingsType

LEMMA ExpireFits ==
  ASSUME ListingsType, NEW p \in Page, Expire(p)
  PROVE  ListingsType'
  BY DEF Expire, ListingsType

-----------------------------------------------------------------------------
(***************************************************************************)
(* The invariant.                                                          *)
(***************************************************************************)

\* A step that changes no object and begins no second half of a move.
LEMMA QuietMoves ==
  ASSUME UNCHANGED objects, lost => lost', \A q \in started : MoveFits(q),
         \A q \in started' :
           ops'[q].stage = "copied" => q \in started /\ ops'[q] = ops[q]
  PROVE  \A q \in started' : MoveFits(q)'
  BY DEF MoveFits, Seen

LEMMA MutationInvParts ==
  MutationInv <=> /\ LocksFit /\ ObjectsType /\ ListingsType /\ lost \in BOOLEAN
                  /\ \A o \in started : MoveFits(o)
  BY DEF MutationInv, MutationTypeOK, LocksFit, ObjectsType, ListingsType, started

LEMMA MutationInvNext ==
  ASSUME LocksFit', ObjectsType', ListingsType', (lost \in BOOLEAN)',
         \A o \in started' : MoveFits(o)'
  PROVE  MutationInv'
  BY DEF MutationInv, MutationTypeOK, LocksFit, ObjectsType, ListingsType, started

LEMMA MutationInvInit == MutationInit => MutationInv
  <1> SUFFICES ASSUME MutationInit PROVE MutationInv
    OBVIOUS
  <1>1. started = {} /\ live = {} /\ TypeOK /\ MutualExclusion
    BY TypeInit DEF MutationInit, Init, started, live, MutualExclusion
  <1>2. ops \in [started -> Operation]
    BY <1>1 DEF MutationInit
  <1>3. LocksFit
    BY <1>1, <1>2 DEF LocksFit
  <1>4. ObjectsType
    BY DEF MutationInit, ObjectsType
  <1>5. ListingsType /\ lost \in BOOLEAN
    BY DEF MutationInit, ListingsType
  <1> QED
    BY <1>1, <1>3, <1>4, <1>5, MutationInvParts

\* One command takes a step up to its client, or gives back, or invalidates.
LEMMA QuietStep ==
  ASSUME MutationInv, NEW o \in Op,
         TakeLock(o) \/ Refused(o) \/ Announce(o) \/ Connect(o) \/ PoolMiss(o)
         \/ GiveBack(o) \/ Invalidate(o)
  PROVE  /\ LocksFit' /\ UNCHANGED objects /\ lost' = lost
         /\ \A q \in started' : ops'[q].stage = "copied" => q \in started /\ ops'[q] = ops[q]
  <1>1. LocksFit
    BY DEF MutationInv
  <1>2. CASE TakeLock(o)
    <2>1. UNCHANGED objects /\ lost' = lost
      BY <1>2 DEF TakeLock
    <2> QED
      BY <1>1, <1>2, <2>1, TakeLockFits
  <1>3. CASE \E r : ops' = [ops EXCEPT ![o] = r] /\ r.stage # "copied"
    <2>1. \A q \in started' : ops'[q].stage = "copied" => q \in started /\ ops'[q] = ops[q]
      BY <1>1, <1>3 DEF LocksFit, started
    <2>2. UNCHANGED objects /\ lost' = lost
      BY DEF TakeLock, Refused, Announce, Connect, PoolMiss, GiveBack, Invalidate
    <2>3. LocksFit'
      BY <1>1, TakeLockFits, RefusedFits, AnnounceFits, ConnectFits, GiveBackFits, InvalidateFits
    <2> QED
      BY <2>1, <2>2, <2>3
  <1>4. ASSUME o \in started PROVE ops[o] \in Operation
    BY <1>1, <1>4 DEF LocksFit
  <1>5. CASE Refused(o)
    <2>1. o \in started /\ ops[o] \in Operation
      BY <1>4, <1>5 DEF Refused, AtStage
    <2> DEFINE B == {id[1] : id \in {i \in live : Intersects(locks[i].scope, NextScope(o))}}
               stage == IF ops[o].held = <<>> THEN "ended" ELSE "releasing"
               r == [ops[o] EXCEPT !.stage = stage, !.result = "locked", !.blockers = B]
    <2>2. ops' = [ops EXCEPT ![o] = r]
      BY <1>5 DEF Refused
    <2>3. r.stage # "copied"
      BY <2>1 DEF Operation
    <2> QED
      BY <1>3, <2>2, <2>3
  <1>6. CASE Announce(o)
    <2>1. o \in started /\ ops[o] \in Operation
      BY <1>4, <1>6 DEF Announce, AtStage
    <2> DEFINE found == Last(ops[o].held) \in live
               more == Len(ops[o].held) < Len(Wanted(ops[o].job))
               stage == IF ~found THEN "ended" ELSE IF more THEN "locking" ELSE "connecting"
               result == IF found THEN None ELSE "panic"
               r == [ops[o] EXCEPT !.stage = stage, !.result = result]
    <2>2. ops' = [ops EXCEPT ![o] = r]
      BY <1>6 DEF Announce
    <2>3. r.stage # "copied"
      BY <2>1 DEF Operation
    <2> QED
      BY <1>3, <2>2, <2>3
  <1>7. CASE Connect(o) \/ PoolMiss(o)
    <2>1. o \in started /\ ops[o] \in Operation
      BY <1>4, <1>7 DEF Connect, PoolMiss, AtStage
    <2> DEFINE r == [ops[o] EXCEPT !.stage = "calling"]
               s == [ops[o] EXCEPT !.stage = "ended", !.result = "pool_miss"]
    <2>2. ops' = [ops EXCEPT ![o] = r] \/ ops' = [ops EXCEPT ![o] = s]
      BY <1>7 DEF Connect, PoolMiss
    <2>3. r.stage # "copied" /\ s.stage # "copied"
      BY <2>1 DEF Operation
    <2> QED
      BY <1>3, <2>2, <2>3
  <1>8. CASE GiveBack(o)
    BY <1>1, <1>3, <1>8, GiveBackFits
  <1>9. CASE Invalidate(o)
    BY <1>1, <1>3, <1>9, InvalidateFits
  <1> QED
    BY <1>2, <1>5, <1>6, <1>7, <1>8, <1>9

\* The type of the listings after a step of one command.
LEMMA OpStepListings ==
  ASSUME MutationInv, NEW o \in Op, OpStep(o)
  PROVE  ListingsType' /\ lost' = lost
  <1>1. ListingsType
    BY MutationInvParts
  <1>2. CASE Invalidate(o)
    <2>1. PICK L : L = {p \in Page : ~p.flat /\ p.prefix = Head(ops[o].stale)}
      OBVIOUS
    <2>2. listings' = [p \in Page |-> IF p \in L THEN None ELSE listings[p]]
      BY <1>2, <2>1 DEF Invalidate
    <2>3. fetching' = fetching /\ lost' = lost
      BY <1>2 DEF Invalidate
    <2> QED
      BY <1>1, <2>2, <2>3, ForgetFits
  <1>3. CASE ~Invalidate(o)
    <2>1. UNCHANGED <<listings, fetching, lost>>
      BY <1>3 DEF OpStep, TakeLock, Refused, Announce, Connect, PoolMiss, PutObject, MoveCopy,
                  MoveDelete, DeleteChunk, GiveBack
    <2> QED
      BY <1>1, <2>1 DEF ListingsType
  <1> QED
    BY <1>2, <1>3

LEMMA OpStepFits ==
  ASSUME MutationInv, NEW o \in Op, OpStep(o)
  PROVE  MutationInv'
  <1>1. LocksFit /\ ObjectsType /\ (\A q \in started : MoveFits(q)) /\ lost \in BOOLEAN
    BY MutationInvParts
  <1>2. ListingsType' /\ lost' = lost
    BY OpStepListings
  <1>3. CASE PutObject(o) \/ MoveCopy(o) \/ MoveDelete(o) \/ DeleteChunk(o)
    <2>1. LocksFit' /\ ObjectsType' /\ \A q \in started' : MoveFits(q)'
      BY <1>1, <1>3, PutObjectFits, MoveCopyFits, MoveDeleteFits, DeleteChunkFits
    <2> QED
      BY <1>1, <1>2, <2>1, MutationInvNext
  <1>4. CASE ~(PutObject(o) \/ MoveCopy(o) \/ MoveDelete(o) \/ DeleteChunk(o))
    <2>1. /\ LocksFit' /\ UNCHANGED objects /\ lost' = lost
          /\ \A q \in started' : ops'[q].stage = "copied" => q \in started /\ ops'[q] = ops[q]
      BY <1>4, QuietStep DEF OpStep
    <2>2. ObjectsType'
      BY <1>1, <2>1 DEF ObjectsType
    <2>3. \A q \in started' : MoveFits(q)'
      BY <1>1, <2>1, QuietMoves
    <2> QED
      BY <1>1, <1>2, <2>1, <2>2, <2>3, MutationInvNext
  <1> QED
    BY <1>3, <1>4

\* A step that is no command's: nothing the locks and the moves depend on.
LEMMA AsideFits ==
  ASSUME MutationInv, ListingsType', UNCHANGED <<lockVars, ops, objects, lost>>
  PROVE  MutationInv'
  <1>1. LocksFit /\ ObjectsType /\ (\A q \in started : MoveFits(q)) /\ lost \in BOOLEAN
    BY MutationInvParts
  <1>2. TypeOK' /\ MutualExclusion'
    BY <1>1, RegistryKept DEF LocksFit
  <1>3. started' = started /\ live' = live /\ locks' = locks /\ ops' = ops /\ lost' = lost
    BY DEF started, live, lockVars
  <1>4. \A q \in started : Owns(q)'
    BY <1>1, <1>3 DEF LocksFit, Owns
  <1>5. \A id \in live : LockFits(id)'
    BY <1>1, <1>3 DEF LocksFit, LockFits
  <1>6. LocksFit'
    BY <1>1, <1>2, <1>3, <1>4, <1>5 DEF LocksFit
  <1>7. ObjectsType' /\ \A q \in started' : MoveFits(q)'
    BY <1>1, <1>3 DEF ObjectsType, MoveFits, Seen
  <1> QED
    BY <1>1, <1>3, <1>6, <1>7, MutationInvNext

LEMMA MutationInvStep == MutationInv /\ [MutationNext]_vars => MutationInv'
  <1> SUFFICES ASSUME MutationInv, [MutationNext]_vars PROVE MutationInv'
    OBVIOUS
  <1>1. /\ LocksFit /\ ObjectsType /\ ListingsType /\ lost \in BOOLEAN
        /\ \A q \in started : MoveFits(q)
    BY MutationInvParts
  <1>2. ASSUME NEW o \in Op, NEW j \in Job, Start(o, j) PROVE MutationInv'
    <2>1. /\ LocksFit' /\ ops'[o].stage = "locking" /\ started' = started \cup {o}
          /\ \A q \in started : ops'[q] = ops[q]
      BY <1>1, <1>2, StartFits
    <2>2. UNCHANGED <<objects, listings, fetching, lost>>
      BY <1>2 DEF Start
    <2>3. ObjectsType' /\ ListingsType' /\ lost' \in BOOLEAN
      BY <1>1, <2>2 DEF ObjectsType, ListingsType
    <2>4. \A q \in started' : MoveFits(q)'
      <3>1. \A q \in started' : ops'[q].stage = "copied" => q \in started /\ ops'[q] = ops[q]
        BY <2>1
      <3> QED
        BY <1>1, <2>2, <3>1, QuietMoves
    <2> QED
      BY <2>1, <2>3, <2>4, MutationInvNext
  <1>3. ASSUME NEW o \in Op, OpStep(o) PROVE MutationInv'
    BY <1>3, OpStepFits
  <1>4. ASSUME NEW f \in Fetch, NEW p \in Page, NEW force \in BOOLEAN, List(f, p, force)
        PROVE  MutationInv'
    <2>1. ListingsType'
      BY <1>1, <1>4, ListFits
    <2> QED
      BY <1>4, <2>1, AsideFits DEF List
  <1>5. ASSUME NEW f \in Fetch, StoreListing(f) PROVE MutationInv'
    <2>1. ListingsType'
      BY <1>1, <1>5, StoreListingFits
    <2> QED
      BY <1>5, <2>1, AsideFits DEF StoreListing
  <1>6. ASSUME NEW p \in Page, Expire(p) PROVE MutationInv'
    <2>1. ListingsType'
      BY <1>1, <1>6, ExpireFits
    <2> QED
      BY <1>6, <2>1, AsideFits DEF Expire
  <1>7. ASSUME NEW id \in live, Lapse(id) PROVE MutationInv'
    <2>1. LocksFit' /\ (lost => lost') /\ ops' = ops
      BY <1>1, <1>7, LapseFits
    <2>2. UNCHANGED <<objects, listings, fetching>> /\ lost' \in BOOLEAN
      BY <1>7 DEF Lapse
    <2>3. ObjectsType' /\ ListingsType'
      BY <1>1, <2>2 DEF ObjectsType, ListingsType
    <2>4. \A q \in started' : MoveFits(q)'
      BY <1>1, <2>1, <2>2, QuietMoves DEF started
    <2> QED
      BY <2>1, <2>2, <2>3, <2>4, MutationInvNext
  <1>8. ASSUME UNCHANGED vars PROVE MutationInv'
    <2>1. ListingsType'
      BY <1>1, <1>8 DEF vars, opVars, ListingsType
    <2> QED
      BY <1>8, <2>1, AsideFits DEF vars, opVars
  <1> QED
    BY <1>2, <1>3, <1>4, <1>5, <1>6, <1>7, <1>8 DEF MutationNext

(***************************************************************************)
(* The invariant holds throughout: commands own the locks they have taken, *)
(* and between the halves of a move its objects are as it left them.       *)
(***************************************************************************)
THEOREM MutationsInvariant == MutationSpec => []MutationInv
  <1> QED
    BY MutationInvInit, MutationInvStep, PTL DEF MutationSpec

(***************************************************************************)
(* As long as no lock lapses, no two commands at S3 disturb each other's   *)
(* objects, and a move deletes only what it has copied: for any commands   *)
(* on any keys, any number of them, whatever fails.                        *)
(***************************************************************************)
THEOREM MutationsExcluded == MutationSpec => []MutationsExclude
  <1>1. MutationInv => MutationsExclude
    <2> SUFFICES ASSUME MutationInv PROVE MutationsExclude
      OBVIOUS
    <2>1. LocksFit /\ MutationTypeOK /\ \A o \in started : MoveFits(o)
      BY DEF MutationInv
    <2>2. \A j \in Job : Writes(j) \subseteq Touches(j)
      <3> SUFFICES ASSUME NEW j \in Job, j.kind = "copy" PROVE {j.keys[2]} \subseteq Touches(j)
        BY DEF Writes
      <3>1. j.keys \in Seq(Key) /\ Len(j.keys) = 2 /\ \A i \in DOMAIN j.keys : j.keys[i] \in Touches(j)
        BY KeysOf
      <3> QED
        BY <3>1
    <2>3. OneWriter
      <3> SUFFICES ASSUME NEW o \in started, NEW q \in started,
                          o # q, AtS3(o), AtS3(q), ~lost
                   PROVE  Writes(ops[o].job) \cap Touches(ops[q].job) = {}
        BY DEF OneWriter
      <3>1. Touches(ops[o].job) \cap Touches(ops[q].job) = {}
        BY <2>1, TouchesDiffer
      <3>2. ops[o].job \in Job
        BY <2>1, Fields
      <3> QED
        BY <2>2, <3>1, <3>2
    <2>4. MoveLosesNothing
      BY <2>1 DEF MoveLosesNothing, MoveFits, AtStage
    <2> QED
      BY <2>1, <2>3, <2>4 DEF MutationsExclude
  <1> QED
    BY <1>1, MutationsInvariant, PTL

(***************************************************************************)
(* A command that has ended holds no lock, except after a panic or when    *)
(* the pool had no client for it.                                          *)
(***************************************************************************)
THEOREM LocksAreReturned == MutationSpec => []LocksReturned
  <1>1. MutationInv => LocksReturned
    BY DEF MutationInv, LocksFit, LockFits, LocksReturned, AtStage
  <1> QED
    BY <1>1, MutationsInvariant, PTL

(***************************************************************************)
(* What a command does to the registry, the registry allows.               *)
(***************************************************************************)
LEMMA OpStepIsRegistryStep ==
  ASSUME LocksFit, NEW o \in Op, OpStep(o)
  PROVE  [Next]_lockVars
  <1>1. CASE TakeLock(o)
    <2>1. PICK n, id, s : n = Len(ops[o].held) /\ id = <<o, n + 1>> /\ s = Wanted(ops[o].job)[n + 1]
      OBVIOUS
    <2>2. o \in started /\ ops[o].stage = "locking" /\ Acquire(id, s, 0)
      BY <1>1, <2>1 DEF TakeLock, AtStage, NextScope
    <2>3. /\ ops[o].job \in Job /\ ops[o].held \in Seq(LockId)
          /\ Shape(o, ops[o]) /\ Wanted(ops[o].job) \in Seq(Scope)
      BY <2>2, Fields
    <2>4. PICK w : w = Len(Wanted(ops[o].job))
      OBVIOUS
    <2>5. n \in Nat /\ w \in Nat /\ n < w /\ DOMAIN Wanted(ops[o].job) = 1 .. w
      BY <2>1, <2>2, <2>3, <2>4 DEF Shape
    <2>6. n + 1 \in DOMAIN Wanted(ops[o].job) /\ s \in Scope
      BY <2>1, <2>3, <2>5
    <2>7. id \in LockId
      BY <2>1, <2>3, <2>6, JobAssumption
    <2>8. 0 \in 0 .. MaxAge
      BY LockAssumption DEF MaxAge
    <2> QED
      BY <2>2, <2>6, <2>7, <2>8 DEF Next
  <1>2. CASE GiveBack(o)
    <2>1. CASE UNCHANGED lockVars
      BY <2>1
    <2>2. ASSUME NEW id \in live, Release(id)
          PROVE  Next
      BY <2>2 DEF Next, LocksFit, TypeOK
    <2> QED
      BY <1>2, <2>1, <2>2 DEF GiveBack
  <1>3. CASE Refused(o) \/ Announce(o) \/ Connect(o) \/ PoolMiss(o)
    BY <1>3 DEF Refused, Announce, Connect, PoolMiss
  <1>4. CASE PutObject(o) \/ MoveCopy(o) \/ MoveDelete(o) \/ DeleteChunk(o) \/ Invalidate(o)
    <2>1. UNCHANGED lockVars
      BY <1>4, Zenon DEF PutObject, MoveCopy, MoveDelete, DeleteChunk, Invalidate
    <2> QED
      BY <2>1
  <1> QED
    BY <1>1, <1>2, <1>3, <1>4 DEF OpStep

(***************************************************************************)
(* Copies, moves, new folders, writes and batches use the registry as its  *)
(* specification allows, with the locks that others release as stale.      *)
(***************************************************************************)
THEOREM MutationsImplementRegistry == MutationSpec => Spec
  <1>1. MutationInit => Init
    BY DEF MutationInit
  <1>2. ASSUME MutationInv, MutationNext
        PROVE  [Next]_lockVars
    <2>1. LocksFit
      BY <1>2 DEF MutationInv
    <2>2. CASE \E o \in Op : OpStep(o)
      BY <2>1, <2>2, OpStepIsRegistryStep
    <2>3. CASE \E id \in live : Lapse(id)
      BY <2>1, <2>3 DEF Lapse, Next, LocksFit, TypeOK
    <2>4. CASE ~ (\E o \in Op : OpStep(o)) /\ ~ \E id \in live : Lapse(id)
      BY <1>2, <2>4 DEF MutationNext, Start, List, StoreListing, Expire
    <2> QED
      BY <2>2, <2>3, <2>4
  <1>3. MutationInv /\ [MutationNext]_vars => [Next]_lockVars
    BY <1>2 DEF vars
  <1> QED
    BY <1>1, <1>3, MutationsInvariant, PTL DEF MutationSpec, Spec

\* However commands fail, panic or lose their locks, an object never passes from
\* one command to another without having been free.
THEOREM CommandsOwnTheirObjects == MutationSpec => ImplementsOwnership
  BY MutationsImplementRegistry, RegistryImplementsOwnership, PTL

-----------------------------------------------------------------------------
(***************************************************************************)
(* What the cache says.                                                    *)
(***************************************************************************)

\* A change of k by a command like op is in what the command is going to
\* invalidate, or the command has failed and reports that.
Marks(k, op) ==
  \/ Front(k) \in ToSet(Affected(op.job, op.changed))
  \/ op.stage \notin Moving /\ op.result = "error"

\* The command op has not come past the listing of the folder of k.
Waits(k, op) ==
  /\ op.stage = "invalidating" => Front(k) \in ToSet(op.stale)
  /\ op.stage = "ended" => op.result # "ok"

Told(k) ==
  objects[k].by # None => objects[k].by \in started /\ Marks(k, ops[objects[k].by])

Pending(k) == objects[k].by # None /\ Waits(k, ops[objects[k].by])

\* The entry is of the objects directly in its folder, and where it is wrong
\* the last change is one whose command will still invalidate it, or failed.
EntryFits(p) ==
  listings[p] # None =>
    /\ DOMAIN listings[p].content = Direct(p.prefix)
    /\ listings[p].current => \A k \in Direct(p.prefix) : Agrees(p, k) \/ Pending(k)

AnswerFits(f) ==
  fetching[f] # None /\ ~fetching[f].page.flat =>
    DOMAIN fetching[f].content = Direct(fetching[f].page.prefix)

CacheFits ==
  /\ \A k \in Key : Told(k)
  /\ \A p \in Page : ~p.flat => EntryFits(p)
  /\ \A f \in Fetch : AnswerFits(f)

FollowInv == MutationInv /\ CacheFits

\* A step of one command: what it changes it marks, and an entry survives only
\* if the command still waits for it, or had nothing to tell about it.
LEMMA CommandFollows ==
  ASSUME MutationInv, CacheFits, NEW o \in started, NEW r,
         ops' = [ops EXCEPT ![o] = r], fetching' = fetching,
         \A k \in Key : \/ objects'[k] = objects[k] /\ (Marks(k, ops[o]) => Marks(k, r))
                        \/ objects'[k].by = o /\ Marks(k, r) /\ Waits(k, r),
         \A p \in Page : listings'[p] = listings[p] \/ listings'[p] = None,
         \A p \in Page : ~p.flat /\ listings'[p] # None =>
           \A k \in Direct(p.prefix) : Marks(k, ops[o]) /\ Waits(k, ops[o]) => Waits(k, r)
  PROVE  CacheFits'
  <1>1. started' = started /\ \A q \in started : ops'[q] = IF q = o THEN r ELSE ops[q]
    BY DEF MutationInv, LocksFit, started
  <1>2. ASSUME NEW k \in Key PROVE Told(k)'
    <2>1. Told(k)
      BY DEF CacheFits
    <2>2. CASE objects'[k] = objects[k] /\ (Marks(k, ops[o]) => Marks(k, r))
      BY <1>1, <2>1, <2>2 DEF Told, Marks
    <2>3. CASE objects'[k].by = o /\ Marks(k, r)
      BY <1>1, <2>3 DEF Told, Marks
    <2> QED
      BY <2>2, <2>3
  <1>3. ASSUME NEW p \in Page, ~p.flat PROVE EntryFits(p)'
    <2> SUFFICES ASSUME listings'[p] # None PROVE EntryFits(p)'
      BY DEF EntryFits
    <2>1. listings'[p] = listings[p] /\ EntryFits(p) /\ listings[p] # None
      BY <1>3 DEF CacheFits
    <2>2. ASSUME listings[p].current, NEW k \in Direct(p.prefix)
          PROVE  (Agrees(p, k) \/ Pending(k))'
      <3>1. k \in Key /\ Told(k) /\ (Agrees(p, k) \/ Pending(k))
        BY <2>1, <2>2 DEF CacheFits, Direct, EntryFits
      <3>2. CASE objects'[k].by = o /\ Waits(k, r)
        <4>1. o # None
          BY MutationAssumption DEF MutationInv, LocksFit
        <4> QED
          BY <1>1, <3>2, <4>1 DEF Pending, Waits
      <3>3. CASE objects'[k] = objects[k]
        <4>1. CASE Agrees(p, k)
          <5>1. Agrees(p, k)'
            BY <2>1, <3>3, <4>1 DEF Agrees, Seen
          <5> QED
            BY <5>1
        <4>2. CASE Pending(k)
          <5>1. PICK q : q = objects[k].by
            OBVIOUS
          <5>2. q \in started /\ q # None /\ Marks(k, ops[q]) /\ Waits(k, ops[q])
            BY <3>1, <4>2, <5>1 DEF Told, Pending
          <5>3. Waits(k, ops'[q])
            <6>1. CASE q = o
              <7>1. Waits(k, r)
                BY <1>3, <2>1, <5>2, <6>1
              <7> QED
                BY <1>1, <5>2, <6>1, <7>1
            <6>2. CASE q # o
              BY <1>1, <5>2, <6>2
            <6> QED
              BY <6>1, <6>2
          <5> QED
            BY <3>3, <5>1, <5>2, <5>3 DEF Pending, Waits
        <4> QED
          BY <3>1, <4>1, <4>2
      <3> QED
        BY <3>1, <3>2, <3>3
    <2> QED
      BY <2>1, <2>2 DEF EntryFits
  <1>4. \A f \in Fetch : AnswerFits(f)'
    BY DEF CacheFits, AnswerFits
  <1> QED
    BY <1>2, <1>3, <1>4 DEF CacheFits

\* What a command invalidates when it has changed the objects of D.
LEMMA AffectedFolders ==
  ASSUME NEW j \in Job, NEW D, D \subseteq Touches(j)
  PROVE  /\ j.kind \in {"copy", "folder", "write"} => Front(Last(j.keys)) \in ToSet(Affected(j, D))
         /\ j.kind = "move" => /\ Front(j.keys[1]) \in ToSet(Affected(j, D))
                               /\ Front(j.keys[2]) \in ToSet(Affected(j, D))
         /\ j.kind = "delete" => ToSet(Affected(j, D)) = {Front(k) : k \in D}
  <1>1. \A x : x \in ToSet(<<x>>) /\ \A y : x \in ToSet(<<x, y>>) /\ y \in ToSet(<<x, y>>)
    BY DEF ToSet
  <1>2. ASSUME j.kind = "delete" PROVE ToSet(Affected(j, D)) = {Front(k) : k \in D}
    <2>1. Affected(j, D) = Sorted({Front(k) : k \in D})
      BY <1>2 DEF Affected
    <2>2. j.keys \in Seq(Key) /\ \A k \in D : \E i \in DOMAIN j.keys : j.keys[i] = k
      BY KeysOf DEF Touches
    <2>3. {Front(k) : k \in D} \in SUBSET Prefix /\ IsFiniteSet({Front(k) : k \in D})
      BY <2>2, FoldersAreFinite
    <2> QED
      BY <2>1, <2>3, SortedIsSorted
  <1> QED
    BY <1>1, <1>2 DEF Affected, Last

\* Up to its client a command changes nothing and tells nothing.
LEMMA EarlyFollows ==
  ASSUME FollowInv, NEW o \in Op,
         TakeLock(o) \/ Refused(o) \/ Announce(o) \/ Connect(o) \/ PoolMiss(o)
  PROVE  CacheFits'
  <1>1. LocksFit
    BY DEF FollowInv, MutationInv
  <1>2. o \in started /\ ops[o].stage \in Moving
    BY DEF TakeLock, Refused, Announce, Connect, PoolMiss, AtStage, Moving
  <1>3. ops[o] \in Operation
    BY <1>1, <1>2, Fields
  <1>4. UNCHANGED <<objects, listings, fetching>>
    BY DEF TakeLock, Refused, Announce, Connect, PoolMiss
  <1>5. \E r : /\ ops' = [ops EXCEPT ![o] = r]
               /\ r.job = ops[o].job /\ r.changed = ops[o].changed
               /\ r.stage # "invalidating" /\ (r.stage = "ended" => r.result # "ok")
    <2>1. CASE TakeLock(o)
      <3>1. PICK id, r : /\ ops' = [ops EXCEPT ![o] = r]
                         /\ r = [ops[o] EXCEPT !.stage = "announcing", !.held = Append(ops[o].held, id)]
        BY <1>3, <2>1 DEF TakeLock, Operation
      <3>2. r.stage = "announcing" /\ r.job = ops[o].job /\ r.changed = ops[o].changed
        BY <1>3, <3>1 DEF Operation
      <3> QED
        BY <3>1, <3>2
    <2>2. CASE Refused(o)
      <3> DEFINE B == {id[1] : id \in {i \in live : Intersects(locks[i].scope, NextScope(o))}}
                 stage == IF ops[o].held = <<>> THEN "ended" ELSE "releasing"
                 r == [ops[o] EXCEPT !.stage = stage, !.result = "locked", !.blockers = B]
      <3>1. ops' = [ops EXCEPT ![o] = r]
        BY <2>2 DEF Refused
      <3>2. /\ r.stage # "invalidating" /\ r.result = "locked"
            /\ r.job = ops[o].job /\ r.changed = ops[o].changed
        BY <1>3 DEF Operation
      <3> QED
        BY <3>1, <3>2
    <2>3. CASE Announce(o)
      <3> DEFINE found == Last(ops[o].held) \in live
                 more == Len(ops[o].held) < Len(Wanted(ops[o].job))
                 stage == IF ~found THEN "ended" ELSE IF more THEN "locking" ELSE "connecting"
                 result == IF found THEN None ELSE "panic"
                 r == [ops[o] EXCEPT !.stage = stage, !.result = result]
      <3>1. ops' = [ops EXCEPT ![o] = r]
        BY <2>3 DEF Announce
      <3>2. /\ r.stage # "invalidating" /\ (r.stage = "ended" => r.result = "panic")
            /\ r.job = ops[o].job /\ r.changed = ops[o].changed
        BY <1>3 DEF Operation
      <3> QED
        BY <3>1, <3>2
    <2>4. CASE Connect(o) \/ PoolMiss(o)
      <3> DEFINE r == [ops[o] EXCEPT !.stage = "calling"]
                 t == [ops[o] EXCEPT !.stage = "ended", !.result = "pool_miss"]
      <3>1. ops' = [ops EXCEPT ![o] = r] \/ ops' = [ops EXCEPT ![o] = t]
        BY <2>4 DEF Connect, PoolMiss
      <3>2. /\ r.stage = "calling" /\ t.stage = "ended" /\ t.result = "pool_miss"
            /\ r.job = ops[o].job /\ r.changed = ops[o].changed
            /\ t.job = ops[o].job /\ t.changed = ops[o].changed
        BY <1>3 DEF Operation
      <3> QED
        BY <3>1, <3>2
    <2> QED
      BY <2>1, <2>2, <2>3, <2>4
  <1>6. PICK r : /\ ops' = [ops EXCEPT ![o] = r]
                 /\ r.job = ops[o].job /\ r.changed = ops[o].changed
                 /\ r.stage # "invalidating" /\ (r.stage = "ended" => r.result # "ok")
    BY <1>5
  <1>8. \A k : (Marks(k, ops[o]) => Marks(k, r)) /\ Waits(k, r)
    BY <1>2, <1>6 DEF Marks, Waits
  <1>9. MutationInv /\ CacheFits
    BY DEF FollowInv
  <1> QED
    BY <1>2, <1>4, <1>6, <1>8, <1>9, CommandFollows

LEMMA LastKey ==
  ASSUME NEW j \in Job, j.kind \in {"copy", "folder", "write"}
  PROVE  Last(j.keys) \in Key
  <1>1. j.kind = "copy" => Len(j.keys) = 2
    BY KeysOf
  <1>2. j.kind \in {"folder", "write"} => Len(j.keys) = 1
    BY KeysOf
  <1>3. PICK keys : keys = j.keys
    OBVIOUS
  <1>4. keys \in Seq(Key) /\ (Len(keys) = 1 \/ Len(keys) = 2)
    BY <1>1, <1>2, <1>3, KeysOf
  <1>5. Len(keys) > 0
    <2>1. CASE Len(keys) = 1
      BY <2>1
    <2>2. CASE Len(keys) = 2
      BY <2>2
    <2> QED
      BY <1>4, <2>1, <2>2
  <1> QED
    BY <1>3, <1>4, <1>5, LastOne DEF Last

\* What a command takes with it on the way out.
LEMMA OutcomeMarks ==
  ASSUME NEW o \in started, ops[o] \in Operation, NEW result
  PROVE  /\ Outcome(o, result).stage = "releasing" /\ Outcome(o, result).result = result
         /\ Outcome(o, result).job = ops[o].job /\ Outcome(o, result).changed = ops[o].changed
         /\ \A k : Waits(k, Outcome(o, result))
         /\ \A k : Front(k) \in ToSet(Affected(ops[o].job, ops[o].changed)) =>
                     Marks(k, Outcome(o, result))
         /\ \A k : result = "error" => Marks(k, Outcome(o, result))
  <1>1. /\ Outcome(o, result).stage = "releasing" /\ Outcome(o, result).result = result
        /\ Outcome(o, result).job = ops[o].job /\ Outcome(o, result).changed = ops[o].changed
    BY DEF Outcome, Operation
  <1> QED
    BY <1>1 DEF Marks, Waits, Moving

\* One request of a batch: the keys it deletes, and what becomes of the batch.
LEMMA ChunkOf ==
  ASSUME LocksFit, NEW o \in Op, DeleteChunk(o)
  PROVE  \E K \in SUBSET Key :
           /\ K \subseteq Touches(ops[o].job) /\ Erase(o, K)
           /\ \/ Fail(o)
              \/ \E b, r, rest : /\ b = Outcome(o, "ok") \/ b = ops[o]
                                 /\ r = [b EXCEPT !.todo = rest, !.changed = @ \cup K]
                                 /\ ops' = [ops EXCEPT ![o] = r]
  <1> DEFINE todo == ops[o].todo
             n    == IF Len(todo) < ChunkSize THEN Len(todo) ELSE ChunkSize
             rest == SubSeq(todo, n + 1, Len(todo))
  <1>0. \E K \in SUBSET {todo[i] : i \in 1 .. n} :
          /\ Erase(o, K)
          /\ \/ Fail(o)
             \/ ops' = [ops EXCEPT ![o] =
                  [(IF rest = <<>> THEN Outcome(o, "ok") ELSE ops[o])
                     EXCEPT !.todo = rest, !.changed = @ \cup K]]
    BY DEF DeleteChunk
  <1>1. todo = ops[o].todo /\ n = IF Len(todo) < ChunkSize THEN Len(todo) ELSE ChunkSize
    OBVIOUS
  <1> HIDE DEF todo, n, rest
  <1>2. o \in started
    BY DEF DeleteChunk, AtStage
  <1>3. todo \in Seq(Key) /\ Shape(o, ops[o])
    BY <1>1, <1>2, Fields
  <1>4. n \in Nat /\ n <= Len(todo) /\ Len(todo) \in Nat
    BY <1>1, <1>3, MutationAssumption
  <1>5. \A i \in 1 .. n : todo[i] \in Key /\ todo[i] \in Touches(ops[o].job)
    <2>1. \A i \in 1 .. n : todo[i] \in Key /\ i \in DOMAIN todo
      BY <1>3, <1>4
    <2> QED
      BY <1>1, <1>3, <2>1 DEF Shape
  <1>6. PICK K \in SUBSET {todo[i] : i \in 1 .. n} :
          /\ Erase(o, K)
          /\ \/ Fail(o)
             \/ ops' = [ops EXCEPT ![o] =
                  [(IF rest = <<>> THEN Outcome(o, "ok") ELSE ops[o])
                     EXCEPT !.todo = rest, !.changed = @ \cup K]]
    BY <1>0
  <1>7. PICK b : b = IF rest = <<>> THEN Outcome(o, "ok") ELSE ops[o]
    OBVIOUS
  <1>8. PICK r : r = [b EXCEPT !.todo = rest, !.changed = @ \cup K]
    OBVIOUS
  <1>9. Fail(o) \/ ops' = [ops EXCEPT ![o] = r]
    BY <1>6, <1>7, <1>8
  <1>10. K \in SUBSET Key /\ K \subseteq Touches(ops[o].job) /\ Erase(o, K)
    BY <1>5, <1>6
  <1>11. b = Outcome(o, "ok") \/ b = ops[o]
    BY <1>7
  <1> QED
    BY <1>8, <1>9, <1>10, <1>11

\* At S3 a command marks what it changes, or fails.
LEMMA RequestFollows ==
  ASSUME FollowInv, NEW o \in Op,
         PutObject(o) \/ MoveCopy(o) \/ MoveDelete(o) \/ DeleteChunk(o)
  PROVE  CacheFits'
  <1>1. MutationInv /\ CacheFits /\ LocksFit /\ ObjectsType
    BY MutationInvParts DEF FollowInv
  <1>2. /\ o \in started /\ ops[o].stage \in {"calling", "copied"}
        /\ UNCHANGED <<listings, fetching>>
    BY DEF PutObject, MoveCopy, MoveDelete, DeleteChunk, AtStage
  <1>3. PICK j, D : j = ops[o].job /\ D = ops[o].changed
    OBVIOUS
  <1>4. /\ ops[o] \in Operation /\ j \in Job /\ D \subseteq Touches(j) /\ ops[o].todo \in Seq(Key)
        /\ Shape(o, ops[o])
    BY <1>1, <1>2, <1>3, Fields DEF Shape
  <1>5. \A k : Marks(k, ops[o]) <=> Front(k) \in ToSet(Affected(j, D))
    BY <1>2, <1>3 DEF Marks, Moving
  <1>6. SUFFICES
          \E r : /\ ops' = [ops EXCEPT ![o] = r]
                 /\ \A k : Waits(k, r) /\ (Marks(k, ops[o]) => Marks(k, r))
                 /\ \A k \in Key : objects'[k] = objects[k] \/ (objects'[k].by = o /\ Marks(k, r))
    BY <1>1, <1>2, CommandFollows
  <1>7. ASSUME NEW result, ops' = [ops EXCEPT ![o] = Outcome(o, result)],
               \A k \in Key : objects'[k] = objects[k] \/
                              (objects'[k].by = o /\ Marks(k, Outcome(o, result)))
        PROVE  \E r : /\ ops' = [ops EXCEPT ![o] = r]
                      /\ \A k : Waits(k, r) /\ (Marks(k, ops[o]) => Marks(k, r))
                      /\ \A k \in Key : objects'[k] = objects[k] \/ (objects'[k].by = o /\ Marks(k, r))
    <2>1. \A k : /\ Waits(k, Outcome(o, result))
                 /\ Marks(k, ops[o]) => Marks(k, Outcome(o, result))
      BY <1>2, <1>3, <1>4, <1>5, OutcomeMarks
    <2> QED
      BY <1>7, <2>1
  <1>8. ASSUME NEW K \in SUBSET Key, Erase(o, K) PROVE \A k \in Key : objects'[k] = objects[k] \/ objects'[k].by = o
    BY <1>1, <1>8 DEF Erase, ObjectsType
  <1>9. ASSUME NEW x \in Key, Put(o, x) PROVE \A k \in Key : objects'[k] = objects[k] \/ (objects'[k].by = o /\ k = x)
    BY <1>1, <1>9 DEF Put, ObjectsType
  <1>10. CASE Fail(o)
    <2>1. ops' = [ops EXCEPT ![o] = Outcome(o, "error")]
      BY <1>10 DEF Fail
    <2>2. \A k : Marks(k, Outcome(o, "error"))
      BY <1>2, <1>4, OutcomeMarks
    <2>3. \A k \in Key : objects'[k] = objects[k] \/ objects'[k].by = o
      <3>1. CASE UNCHANGED objects
        BY <3>1
      <3>2. CASE \E x \in Key : Put(o, x)
        BY <1>9, <3>2
      <3>3. CASE \E K \in SUBSET Key : Erase(o, K)
        BY <1>8, <3>3
      <3>4. UNCHANGED objects \/ (\E x \in Key : Put(o, x)) \/ \E K \in SUBSET Key : Erase(o, K)
        <4>1. CASE PutObject(o)
          <5>1. j.kind \in {"copy", "folder", "write"}
            BY <1>3, <4>1 DEF PutObject
          <5>2. Last(j.keys) \in Key
            BY <1>4, <5>1, LastKey
          <5> QED
            BY <1>3, <4>1, <5>2 DEF PutObject
        <4>2. CASE MoveCopy(o)
          <5>1. j.keys[2] \in Key
            BY <1>3, <1>4, <4>2, KeysOf DEF MoveCopy
          <5> QED
            BY <1>3, <4>2, <5>1 DEF MoveCopy
        <4>3. CASE MoveDelete(o)
          <5>1. j.kind = "move"
            BY <1>3, <1>4, <4>3 DEF MoveDelete, AtStage, Shape
          <5>2. {j.keys[1]} \in SUBSET Key
            BY <1>4, <5>1, KeysOf
          <5> QED
            BY <1>3, <4>3, <5>2 DEF MoveDelete
        <4>4. CASE DeleteChunk(o)
          <5>1. \E K \in SUBSET Key : Erase(o, K)
            BY <1>1, <4>4, ChunkOf
          <5> QED
            BY <5>1
        <4> QED
          BY <4>1, <4>2, <4>3, <4>4
      <3> QED
        BY <3>1, <3>2, <3>3, <3>4
    <2> QED
      BY <1>7, <2>1, <2>2, <2>3
  <1>11. CASE PutObject(o) /\ ~Fail(o)
    <2>1. /\ ops' = [ops EXCEPT ![o] = Outcome(o, "ok")] /\ Put(o, Last(j.keys))
          /\ j.kind \in {"copy", "folder", "write"}
      BY <1>3, <1>11 DEF PutObject, Succeed
    <2>2. Last(j.keys) \in Key
      BY <1>4, <2>1, LastKey
    <2>3. PICK x \in Key : x = Last(j.keys)
      BY <2>2
    <2>4. Front(x) \in ToSet(Affected(j, D))
      BY <1>4, <2>1, <2>3, AffectedFolders
    <2>5. Marks(x, Outcome(o, "ok"))
      BY <1>2, <1>3, <1>4, <2>4, OutcomeMarks
    <2> QED
      BY <1>7, <1>9, <2>1, <2>3, <2>5
  <1>12. CASE MoveDelete(o) /\ ~Fail(o)
    <2>1. /\ ops' = [ops EXCEPT ![o] = Outcome(o, "ok")] /\ Erase(o, {j.keys[1]})
          /\ j.kind = "move"
      BY <1>3, <1>4, <1>12 DEF MoveDelete, AtStage, Shape, Succeed
    <2>2. PICK x \in Key : x = j.keys[1]
      BY <1>4, <2>1, KeysOf
    <2>3. Front(x) \in ToSet(Affected(j, D))
      BY <1>4, <2>1, <2>2, AffectedFolders
    <2>4. Marks(x, Outcome(o, "ok"))
      BY <1>2, <1>3, <1>4, <2>3, OutcomeMarks
    <2>5. \A k \in Key : objects'[k] = objects[k] \/ (objects'[k].by = o /\ k = x)
      BY <1>1, <2>1, <2>2 DEF Erase, ObjectsType
    <2> QED
      BY <1>7, <2>1, <2>4, <2>5
  <1>13. CASE MoveCopy(o) /\ ~Fail(o)
    <2>0. PICK v, r : v = Seen(ops[o].job.keys[1]) /\ r = [ops[o] EXCEPT !.stage = "copied", !.source = v]
      OBVIOUS
    <2>1. /\ ops' = [ops EXCEPT ![o] = r] /\ r = [ops[o] EXCEPT !.stage = "copied", !.source = v]
          /\ Put(o, j.keys[2]) /\ j.kind = "move"
      <3>1. ops' = [ops EXCEPT ![o] = r]
        BY <1>4, <1>13, <2>0 DEF MoveCopy, Operation
      <3>2. Put(o, j.keys[2]) /\ j.kind = "move"
        BY <1>3, <1>13 DEF MoveCopy
      <3> QED
        BY <2>0, <3>1, <3>2
    <2>2. PICK x \in Key : x = j.keys[2]
      BY <1>4, <2>1, KeysOf
    <2>3. r.stage = "copied" /\ r.job = j /\ r.changed = D
      BY <1>3, <1>4, <2>1 DEF Operation
    <2>4. \A k : Waits(k, r) /\ (Marks(k, ops[o]) => Marks(k, r))
      BY <1>5, <2>3 DEF Waits, Marks
    <2>5. Front(x) \in ToSet(Affected(j, D))
      BY <1>4, <2>1, <2>2, AffectedFolders
    <2>6. \A k \in Key : objects'[k] = objects[k] \/ (objects'[k].by = o /\ Marks(k, r))
      BY <1>9, <2>1, <2>2, <2>3, <2>5 DEF Marks
    <2> QED
      BY <2>1, <2>4, <2>6
  <1>14. CASE DeleteChunk(o) /\ ~Fail(o)
    <2>1. PICK K \in SUBSET Key :
            /\ K \subseteq Touches(j) /\ Erase(o, K)
            /\ \E b, r, rest : /\ b = Outcome(o, "ok") \/ b = ops[o]
                               /\ r = [b EXCEPT !.todo = rest, !.changed = @ \cup K]
                               /\ ops' = [ops EXCEPT ![o] = r]
      BY <1>1, <1>3, <1>14, ChunkOf
    <2>2. PICK b, r, rest : /\ b = Outcome(o, "ok") \/ b = ops[o]
                            /\ r = [b EXCEPT !.todo = rest, !.changed = @ \cup K]
                            /\ ops' = [ops EXCEPT ![o] = r]
      BY <2>1
    <2>5. b \in Operation /\ b.job = j /\ b.changed = D /\ b.stage \in {"calling", "copied", "releasing"}
      <3>1. MayBecome(o, Outcome(o, "ok"))
        BY <1>1, <1>2, OutcomeFits DEF AtS3, AtStage
      <3>2. /\ Outcome(o, "ok").stage = "releasing"
            /\ Outcome(o, "ok").job = j /\ Outcome(o, "ok").changed = D
        BY <1>2, <1>3, <1>4, OutcomeMarks
      <3> QED
        BY <1>2, <1>3, <1>4, <2>2, <3>1, <3>2 DEF MayBecome
    <2>6. r.stage = b.stage /\ r.job = j /\ r.changed = D \cup K
      BY <2>2, <2>5 DEF Operation
    <2>7. j.kind = "delete"
      BY <1>3, <1>14 DEF DeleteChunk
    <2>8. /\ ToSet(Affected(j, D)) = {Front(k) : k \in D}
          /\ ToSet(Affected(j, D \cup K)) = {Front(k) : k \in D \cup K}
      BY <1>4, <2>1, <2>7, AffectedFolders
    <2>9. \A k : Waits(k, r) /\ (Marks(k, ops[o]) => Marks(k, r))
      <3>1. \A k : Waits(k, r)
        BY <2>5, <2>6 DEF Waits
      <3>2. ToSet(Affected(j, D)) \subseteq ToSet(Affected(j, D \cup K))
        BY <2>8
      <3>3. \A k : Marks(k, ops[o]) => Marks(k, r)
        BY <1>5, <2>6, <3>2 DEF Marks
      <3> QED
        BY <3>1, <3>3
    <2>10. \A k \in K : Marks(k, r)
      BY <2>6, <2>8 DEF Marks
    <2>11. \A k \in Key : objects'[k] = objects[k] \/ (objects'[k].by = o /\ k \in K)
      BY <1>1, <2>1 DEF Erase, ObjectsType
    <2> QED
      BY <2>2, <2>9, <2>10, <2>11
  <1> QED
    BY <1>10, <1>11, <1>12, <1>13, <1>14

\* On the way out a command that reports success first takes on to invalidate
\* what it has changed.
LEMMA GiveBackFollows ==
  ASSUME FollowInv, NEW o \in Op, GiveBack(o)
  PROVE  CacheFits'
  <1>1. PICK rest, op, r :
          /\ rest = Tail(ops[o].held)
          /\ op = [ops[o] EXCEPT !.held = rest]
          /\ r = IF rest = <<>> THEN Leave(op) ELSE op
    OBVIOUS
  <1>2. /\ o \in started /\ ops[o].stage = "releasing" /\ UNCHANGED <<objects, listings, fetching>>
    BY DEF GiveBack, AtStage
  <1>3. MutationInv /\ CacheFits /\ LocksFit
    BY MutationInvParts DEF FollowInv
  <1>4. ops[o] \in Operation /\ op \in Operation
    <2>1. ops[o] \in Operation /\ ops[o].held \in Seq(LockId) /\ Len(ops[o].held) > 0
      BY <1>2, <1>3, Fields DEF Shape
    <2>2. rest \in Seq(LockId)
      BY <1>1, <2>1
    <2> QED
      BY <1>1, <2>1, <2>2 DEF Operation
  <1>5. ops' = [ops EXCEPT ![o] = r]
    BY <1>1, <1>4 DEF GiveBack, Operation
  <1>6. PICK j, D, result : j = ops[o].job /\ D = ops[o].changed /\ result = ops[o].result
    OBVIOUS
  <1>7. op.job = j /\ op.changed = D /\ op.result = result /\ op.stage = "releasing"
    BY <1>1, <1>2, <1>4, <1>6 DEF Operation
  <1>8. PICK stale : stale = IF result = "ok" THEN Affected(j, D) ELSE <<>>
    OBVIOUS
  <1>9. /\ r.job = j /\ r.changed = D /\ r.result = result
        /\ \/ r.stage = "releasing"
           \/ r.stage = "ended" /\ stale = <<>>
           \/ r.stage = "invalidating" /\ r.stale = stale /\ stale # <<>>
    <2>1. CASE rest # <<>>
      BY <1>1, <1>7, <2>1
    <2>2. CASE rest = <<>>
      <3>1. stale = IF op.result = "ok" THEN Affected(op.job, op.changed) ELSE <<>>
        BY <1>7, <1>8
      <3>2. r = [op EXCEPT !.stage = IF stale = <<>> THEN "ended" ELSE "invalidating",
                           !.stale = stale]
        BY <1>1, <2>2, <3>1 DEF Leave
      <3>3. /\ r.job = op.job /\ r.changed = op.changed /\ r.result = op.result
            /\ r.stage = (IF stale = <<>> THEN "ended" ELSE "invalidating") /\ r.stale = stale
        BY <1>4, <3>2 DEF Operation
      <3> QED
        BY <1>7, <3>3
    <2> QED
      BY <2>1, <2>2
  <1>10. \A k : Marks(k, ops[o]) => Marks(k, r)
    BY <1>2, <1>6, <1>9 DEF Marks, Moving
  <1>11. ASSUME NEW k, Marks(k, ops[o]) PROVE Waits(k, r)
    <2>1. CASE Front(k) \in ToSet(Affected(j, D)) /\ result = "ok"
      <3>1. Front(k) \in ToSet(stale)
        BY <1>8, <2>1
      <3>2. stale # <<>>
        BY <3>1 DEF ToSet
      <3> QED
        BY <1>9, <3>1, <3>2 DEF Waits
    <2>2. CASE result # "ok"
      BY <1>8, <1>9, <2>2 DEF Waits
    <2> QED
      BY <1>6, <1>11, <2>1, <2>2 DEF Marks
  <1> QED
    BY <1>2, <1>3, <1>5, <1>10, <1>11, CommandFollows

\* An entry outlives the round of its folder only if it is of another folder.
LEMMA InvalidateFollows ==
  ASSUME FollowInv, NEW o \in Op, Invalidate(o)
  PROVE  CacheFits'
  <1>1. PICK stale, rest, r :
          /\ stale = ops[o].stale /\ rest = Tail(stale)
          /\ r = [ops[o] EXCEPT !.stale = rest,
                                !.stage = IF rest = <<>> THEN "ended" ELSE "invalidating"]
    OBVIOUS
  <1>2. /\ o \in started /\ ops[o].stage = "invalidating" /\ UNCHANGED <<objects, fetching>>
    BY DEF Invalidate, AtStage
  <1>3. MutationInv /\ CacheFits /\ LocksFit /\ ListingsType
    BY MutationInvParts DEF FollowInv
  <1>4. ops[o] \in Operation /\ stale \in Seq(Prefix) /\ stale # <<>>
    BY <1>1, <1>2, <1>3, Fields DEF Shape
  <1>5. ops' = [ops EXCEPT ![o] = r]
    BY <1>1, <1>2, <1>4 DEF Invalidate, Operation
  <1>6. /\ r.job = ops[o].job /\ r.changed = ops[o].changed /\ r.result = ops[o].result
        /\ r.stale = rest /\ r.stage = IF rest = <<>> THEN "ended" ELSE "invalidating"
    BY <1>1, <1>4 DEF Operation
  <1>7. \A k : Marks(k, ops[o]) => Marks(k, r)
    BY <1>2, <1>6 DEF Marks, Moving
  <1>8. \A p \in Page : listings'[p] = IF ~p.flat /\ p.prefix = Head(stale) THEN None ELSE listings[p]
    BY <1>1 DEF Invalidate
  <1>9. ASSUME NEW k, Front(k) # Head(stale), Waits(k, ops[o]) PROVE Waits(k, r)
    <2>1. Front(k) \in ToSet(stale)
      BY <1>1, <1>2, <1>9 DEF Waits
    <2>2. PICK i \in DOMAIN stale : stale[i] = Front(k)
      BY <2>1 DEF ToSet
    <2>3. i - 1 \in DOMAIN rest /\ rest[i - 1] = Front(k)
      <3>1. i \in 1 .. Len(stale) /\ Len(stale) \in Nat
        BY <1>4
      <3>2. i # 1
        BY <1>4, <1>9, <2>2
      <3> QED
        BY <1>1, <1>4, <2>2, <3>1, <3>2
    <2>4. Front(k) \in ToSet(rest) /\ rest # <<>>
      BY <2>3 DEF ToSet
    <2> QED
      BY <1>6, <2>4 DEF Waits
  <1>10. ASSUME NEW p \in Page, ~p.flat, listings'[p] # None, NEW k \in Direct(p.prefix),
                Waits(k, ops[o])
         PROVE  Waits(k, r)
    BY <1>8, <1>9, <1>10 DEF Direct
  <1> QED
    BY <1>2, <1>3, <1>5, <1>7, <1>8, <1>10, CommandFollows

\* What only reads the objects: an answer is stored as it came.
LEMMA StoreFollows ==
  ASSUME FollowInv, NEW f \in Fetch, StoreListing(f)
  PROVE  CacheFits'
  <1>1. MutationInv /\ CacheFits /\ ListingsType /\ ObjectsType
    BY MutationInvParts DEF FollowInv
  <1>2. PICK r : r = fetching[f]
    OBVIOUS
  <1>3. PICK p : p = r.page
    OBVIOUS
  <1>4. PICK b \in BOOLEAN : b = (r.content = Answer(p))
    OBVIOUS
  <1>5. /\ UNCHANGED <<ops, objects>> /\ started' = started
        /\ r # None /\ r \in [page : Page, content : Listing] /\ p \in Page
    BY <1>1, <1>2, <1>3 DEF StoreListing, ListingsType, started
  <1>6. listings' = [listings EXCEPT ![p] = [content |-> r.content, current |-> b]]
    BY <1>2, <1>3, <1>4 DEF StoreListing
  <1>7. fetching' = [fetching EXCEPT ![f] = None]
    BY DEF StoreListing
  <1>8. \A k \in Key : Told(k)'
    BY <1>1, <1>5 DEF CacheFits, Told, Marks
  <1>9. \A g \in Fetch : AnswerFits(g)'
    BY <1>1, <1>7 DEF CacheFits, AnswerFits, ListingsType
  <1>10. ASSUME NEW q \in Page, ~q.flat PROVE EntryFits(q)'
    <2>1. CASE q # p
      <3>1. listings'[q] = listings[q] /\ EntryFits(q)
        BY <1>1, <1>6, <1>10, <2>1 DEF ListingsType, CacheFits
      <3> QED
        BY <1>5, <3>1 DEF EntryFits, Agrees, Seen, Pending, Waits
    <2>2. CASE q = p
      <3>1. listings'[q].content = r.content /\ listings'[q].current = b
        BY <1>1, <1>5, <1>6, <2>2 DEF ListingsType
      <3>2. DOMAIN r.content = Direct(q.prefix)
        BY <1>1, <1>2, <1>3, <1>5, <1>10, <2>2 DEF CacheFits, AnswerFits
      <3>3. ASSUME b, NEW k \in Direct(q.prefix) PROVE Agrees(q, k)'
        <4>1. k \in Key /\ r.content = Answer(q)
          BY <1>4, <2>2, <3>3 DEF Direct
        <4>2. r.content[k] = Shown(k, q.flat)
          BY <1>10, <3>3, <4>1 DEF Answer
        <4>3. CASE Last(k) \notin Folder
          <5>1. r.content[k] = Seen(k)
            BY <1>10, <4>2, <4>3 DEF Shown
          <5> QED
            BY <1>5, <3>1, <4>3, <5>1 DEF Agrees, Seen
        <4>4. CASE Last(k) \in Folder
          <5>1. IsPrefix(k, k)
            BY <4>1, ScopeAssumption DEF IsPrefix
          <5>2. objects[k].here => r.content[k] = None
            BY <1>10, <4>1, <4>2, <4>4, <5>1 DEF Shown
          <5>3. objects[k].here => r.content[k] # Absent
            BY <5>2, MutationAssumption
          <5> QED
            BY <1>5, <1>10, <3>1, <4>4, <5>3 DEF Agrees
        <4> QED
          BY <4>3, <4>4
      <3> QED
        BY <3>1, <3>2, <3>3 DEF EntryFits
    <2> QED
      BY <2>1, <2>2
  <1> QED
    BY <1>8, <1>9, <1>10 DEF CacheFits

LEMMA ListFollows ==
  ASSUME FollowInv, NEW f \in Fetch, NEW p \in Page, NEW force \in BOOLEAN, List(f, p, force)
  PROVE  CacheFits'
  <1>1. CacheFits /\ ListingsType
    BY MutationInvParts DEF FollowInv
  <1>2. UNCHANGED <<ops, objects, listings>> /\ started' = started
    BY DEF List, started
  <1>3. PICK a : a = Answer(p)
    OBVIOUS
  <1>4. fetching' = [fetching EXCEPT ![f] = [page |-> p, content |-> a]]
    BY <1>3 DEF List
  <1>5. ~p.flat => DOMAIN a = Direct(p.prefix)
    BY <1>3 DEF Answer
  <1>6. \A g \in Fetch : AnswerFits(g)'
    BY <1>1, <1>4, <1>5 DEF CacheFits, AnswerFits, ListingsType
  <1> QED
    BY <1>1, <1>2, <1>6 DEF CacheFits, Told, Marks, EntryFits, Agrees, Seen, Pending, Waits

\* Steps that only take entries away, or begin a command, or lose a lock.
LEMMA AsideFollows ==
  ASSUME FollowInv, started \subseteq started', \A q \in started : ops'[q] = ops[q],
         UNCHANGED <<objects, fetching>>,
         \A p \in Page : listings'[p] = listings[p] \/ listings'[p] = None
  PROVE  CacheFits'
  <1>1. CacheFits
    BY DEF FollowInv
  <1>2. \A k \in Key : Told(k)'
    BY <1>1 DEF CacheFits, Told, Marks
  <1>3. ASSUME NEW p \in Page, ~p.flat PROVE EntryFits(p)'
    <2> SUFFICES ASSUME listings'[p] # None PROVE EntryFits(p)'
      BY DEF EntryFits
    <2>1. listings'[p] = listings[p] /\ listings[p] # None /\ EntryFits(p)
      BY <1>1, <1>3 DEF CacheFits
    <2>2. ASSUME listings[p].current, NEW k \in Direct(p.prefix) PROVE (Agrees(p, k) \/ Pending(k))'
      <3>1. k \in Key /\ Told(k) /\ (Agrees(p, k) \/ Pending(k))
        BY <1>1, <2>1, <2>2 DEF EntryFits, Direct, CacheFits
      <3> QED
        BY <2>1, <3>1 DEF Agrees, Seen, Pending, Told, Waits
    <2> QED
      BY <2>1, <2>2 DEF EntryFits
  <1>4. \A f \in Fetch : AnswerFits(f)'
    BY <1>1 DEF CacheFits, AnswerFits
  <1> QED
    BY <1>2, <1>3, <1>4 DEF CacheFits

LEMMA FollowInit == MutationInit => FollowInv
  <1> SUFFICES ASSUME MutationInit PROVE FollowInv
    OBVIOUS
  <1>1. MutationInv
    BY MutationInvInit
  <1>2. CacheFits
    BY DEF MutationInit, CacheFits, Told, EntryFits, AnswerFits
  <1> QED
    BY <1>1, <1>2 DEF FollowInv

LEMMA FollowStep == FollowInv /\ [MutationNext]_vars => FollowInv'
  <1> SUFFICES ASSUME FollowInv, [MutationNext]_vars PROVE FollowInv'
    OBVIOUS
  <1>1. MutationInv'
    BY MutationInvStep DEF FollowInv
  <1>2. LocksFit /\ ListingsType
    BY MutationInvParts DEF FollowInv
  <1>3. CASE \E o \in Op, j \in Job : Start(o, j)
    <2>1. PICK o \in Op, j \in Job : Start(o, j)
      BY <1>3
    <2>2. started' = started \cup {o} /\ \A q \in started : ops'[q] = ops[q]
      BY <1>2, <2>1, StartFits
    <2>3. UNCHANGED <<objects, listings, fetching>>
      BY <2>1 DEF Start
    <2>4. CacheFits'
      BY <2>2, <2>3, AsideFollows
    <2> QED
      BY <1>1, <2>4 DEF FollowInv
  <1>4. CASE \E o \in Op : OpStep(o)
    <2>1. CacheFits'
      BY <1>4, EarlyFollows, RequestFollows, GiveBackFollows, InvalidateFollows DEF OpStep
    <2> QED
      BY <1>1, <2>1 DEF FollowInv
  <1>5. CASE \E f \in Fetch, p \in Page, force \in BOOLEAN : List(f, p, force)
    BY <1>1, <1>5, ListFollows DEF FollowInv
  <1>6. CASE \E f \in Fetch : StoreListing(f)
    BY <1>1, <1>6, StoreFollows DEF FollowInv
  <1>7. CASE (\E p \in Page : Expire(p)) \/ (\E id \in live : Lapse(id)) \/ UNCHANGED vars
    <2>1. /\ UNCHANGED <<ops, objects, fetching>> /\ started' = started
          /\ \A p \in Page : listings'[p] = listings[p] \/ listings'[p] = None
      BY <1>2, <1>7 DEF Expire, Lapse, vars, opVars, started, ListingsType
    <2>2. CacheFits'
      BY <2>1, AsideFollows
    <2> QED
      BY <1>1, <2>2 DEF FollowInv
  <1> QED
    BY <1>3, <1>4, <1>5, <1>6, <1>7 DEF MutationNext

(***************************************************************************)
(* What the cache says of the objects directly under a prefix differs from *)
(* S3 only where the last change is under way or has failed, whatever the  *)
(* order of listings, changes, expiries and lapses of locks.               *)
(***************************************************************************)
THEOREM ListingsAlwaysFollow == MutationSpec => []ListingsFollow
  <1>1. FollowInv => ListingsFollow
    <2> SUFFICES ASSUME FollowInv, NEW p \in Page, ~p.flat PROVE Follows(p)
      BY DEF ListingsFollow
    <2>1. CacheFits /\ EntryFits(p)
      BY DEF FollowInv, CacheFits
    <2>2. \A k \in Key : Pending(k) => Unsettled(k)
      BY DEF Pending, Waits, Unsettled, AtStage
    <2> QED
      BY <2>1, <2>2 DEF Follows, EntryFits, Direct
  <1> QED
    BY <1>1, FollowInit, FollowStep, PTL DEF MutationSpec

-----------------------------------------------------------------------------
(***************************************************************************)
(* Batches.                                                                *)
(***************************************************************************)

\* The folders that a batch locks, in the order in which it locks them.
Folders(o) == Parents(ops[o].job.keys)

Deletes(o) == ops[o].job.kind = "delete"

Climbing(op) == op.stage \in {"locking", "announcing"}

Near(p, q) == IsPrefix(p, q) \/ IsPrefix(q, p)

\* A lock of a batch is on one of its folders.
OnFolder(id) ==
  Deletes(id[1]) =>
    /\ id[2] \in DOMAIN Folders(id[1])
    /\ locks[id].scope = PrefixScope(TheProfile, TheBucket, Folders(id[1])[id[2]])

\* o has been refused s because q had its folder m: what o still holds comes
\* before s and is apart from that folder, and q can only go on behind it.
Barred(o, q) ==
  \E m \in DOMAIN Folders(q), s \in Prefix :
    /\ Near(Folders(q)[m], s)
    /\ Climbing(ops[q]) => m <= Len(ops[q].held)
    /\ \A l \in DOMAIN Folders(o) : <<o, l>> \in live =>
         Rank[Folders(o)[l]] < Rank[s] /\ ~Near(Folders(o)[l], Folders(q)[m])

BatchesFit ==
  /\ \A id \in live : OnFolder(id)
  /\ \A o \in started : /\ ops[o].blockers \subseteq started
                        /\ Climbing(ops[o]) => ops[o].blockers = {}
  /\ \A o, q \in started :
       o # q /\ Deletes(o) /\ Deletes(q) /\ q \in ops[o].blockers => Barred(o, q)
  /\ BatchesDoNotRefuseEachOther

\* The order of strings: who holds something before s and apart from a, which
\* meets s, meets nothing behind a.
LEMMA NoWayBack ==
  ASSUME NEW a \in Prefix, NEW s \in Prefix, NEW c \in Prefix, NEW d \in Prefix,
         Near(a, s), Rank[c] < Rank[s], ~Near(c, a), Rank[a] < Rank[d], Near(c, d)
  PROVE  FALSE
  <1>1. /\ Rank[a] \in Nat /\ Rank[s] \in Nat /\ Rank[c] \in Nat /\ Rank[d] \in Nat
    BY MutationAssumption
  <1>2. Rank[c] < Rank[a]
    <2>1. CASE IsPrefix(a, s)
      <3>1. ~(Rank[a] <= Rank[c])
        <4>1. Rank[a] <= Rank[c] => IsPrefix(a, c)
          BY <1>1, <2>1, RankAssumption
        <4> QED
          BY <4>1 DEF Near
      <3> QED
        BY <1>1, <3>1
    <2>2. CASE IsPrefix(s, a)
      <3>1. Rank[s] <= Rank[a]
        BY <2>2, RankAssumption
      <3> QED
        BY <1>1, <3>1
    <2> QED
      BY <2>1, <2>2 DEF Near
  <1>3. CASE IsPrefix(c, d)
    <2>1. Rank[c] <= Rank[a] /\ Rank[a] <= Rank[d]
      BY <1>1, <1>2
    <2>2. IsPrefix(c, a)
      BY <1>3, <2>1, RankAssumption
    <2> QED
      BY <2>2 DEF Near
  <1>4. CASE IsPrefix(d, c)
    <2>1. Rank[d] <= Rank[c]
      BY <1>4, RankAssumption
    <2> QED
      BY <1>1, <1>2, <2>1
  <1> QED
    BY <1>3, <1>4 DEF Near

LEMMA FoldersAreWanted ==
  ASSUME LocksFit, NEW o \in started, Deletes(o)
  PROVE  /\ Folders(o) \in Seq(Prefix) /\ DOMAIN Wanted(ops[o].job) = DOMAIN Folders(o)
         /\ \A i \in DOMAIN Folders(o) : /\ Folders(o)[i] \in Prefix
                                         /\ Wanted(ops[o].job)[i] =
                                              PrefixScope(TheProfile, TheBucket, Folders(o)[i])
         /\ \A i, n \in DOMAIN Folders(o) : i < n => Rank[Folders(o)[i]] < Rank[Folders(o)[n]]
  <1>1. PICK j, s : j = ops[o].job /\ s = Parents(j.keys)
    OBVIOUS
  <1>2. j \in Job /\ j.kind = "delete" /\ Folders(o) = s
    BY <1>1, Fields DEF Deletes, Folders
  <1>3. s \in Seq(Prefix) /\ \A i, n \in DOMAIN s : i < n => Rank[s[i]] < Rank[s[n]]
    BY <1>1, <1>2, KeysOf, ParentsOfKeys
  <1>4. Wanted(j) = [i \in DOMAIN s |-> PrefixScope(TheProfile, TheBucket, s[i])]
    BY <1>1, <1>2 DEF Wanted
  <1>5. \A i \in DOMAIN s : s[i] \in Prefix
    BY <1>3
  <1> QED
    BY <1>1, <1>2, <1>3, <1>4, <1>5

\* Two locks of two commands on folders: the folders are apart.
LEMMA LockedApart ==
  ASSUME LocksFit, NEW x \in live, NEW y \in live, x # y, NEW p \in Prefix, NEW q \in Prefix,
         locks[x].scope = PrefixScope(TheProfile, TheBucket, p),
         locks[y].scope = PrefixScope(TheProfile, TheBucket, q)
  PROVE  ~Near(p, q)
  <1> SUFFICES ASSUME Near(p, q) PROVE FALSE
    OBVIOUS
  <1>1. /\ PrefixScope(TheProfile, TheBucket, p) \in Scope
        /\ PrefixScope(TheProfile, TheBucket, q) \in Scope
    BY FolderScope
  <1>2. Intersects(PrefixScope(TheProfile, TheBucket, p), PrefixScope(TheProfile, TheBucket, q))
    BY DEF Near, Intersects, PrefixScope, SameBucketMeet, PrefixesMeet
  <1>3. Covers(locks[x].scope) \cap Covers(locks[y].scope) # {}
    BY <1>1, <1>2, IntersectsOverlaps
  <1> QED
    BY <1>3 DEF LocksFit, MutualExclusion

LEMMA ScopesNear ==
  ASSUME NEW p \in Prefix, NEW q \in Prefix,
         Intersects(PrefixScope(TheProfile, TheBucket, p), PrefixScope(TheProfile, TheBucket, q))
  PROVE  Near(p, q)
  <1>1. p # None /\ q # None /\ TheBucket # None
    BY ScopeAssumption, MutationAssumption
  <1> QED
    BY <1>1 DEF Near, Intersects, PrefixScope, SameBucketMeet, PrefixesMeet

\* While it takes locks, those of a command are the ones it has taken.
LEMMA TakenSoFar ==
  ASSUME LocksFit, NEW o \in started, Climbing(ops[o]), NEW l, <<o, l>> \in live
  PROVE  l \in DOMAIN ops[o].held /\ l \in Nat /\ l <= Len(ops[o].held)
  <1>1. LockFits(<<o, l>>) /\ Shape(o, ops[o]) /\ ops[o].held \in Seq(LockId)
    BY Fields DEF LocksFit
  <1>2. ops[o].stage # "ended" /\ ops[o].stage \in Moving
    BY DEF Climbing, Moving
  <1>3. PICK i \in DOMAIN ops[o].held : ops[o].held[i] = <<o, l>>
    BY <1>1, <1>2 DEF LockFits
  <1>4. ops[o].held[i] = <<o, i>>
    BY <1>1, <1>2 DEF Shape
  <1> QED
    BY <1>1, <1>3, <1>4

\* A step that takes no lock and refuses none.
LEMMA BatchesKept ==
  ASSUME LocksFit, BatchesFit, started \subseteq started', live' \subseteq live,
         \A id \in live' : locks'[id] = locks[id],
         \A q \in started : /\ ops'[q].job = ops[q].job /\ ops'[q].blockers = ops[q].blockers
                            /\ Climbing(ops'[q]) => Climbing(ops[q]) /\ ops'[q].held = ops[q].held,
         \A q \in started' \ started : ops'[q].blockers = {}
  PROVE  BatchesFit'
  <1>1. ASSUME NEW id \in live' PROVE OnFolder(id)'
    <2>1. OnFolder(id) /\ id[1] \in started
      BY DEF BatchesFit, LocksFit, LockFits
    <2> QED
      BY <2>1 DEF OnFolder, Deletes, Folders
  <1>2. ASSUME NEW o \in started'
        PROVE  /\ ops'[o].blockers \subseteq started'
               /\ Climbing(ops'[o]) => ops'[o].blockers = {}
    BY DEF BatchesFit
  <1>3. ASSUME NEW o \in started', NEW q \in started', o # q, Deletes(o)', Deletes(q)',
               q \in ops'[o].blockers
        PROVE  Barred(o, q)'
    <2>1. o \in started /\ q \in started /\ Deletes(o) /\ Deletes(q) /\ q \in ops[o].blockers
      BY <1>3 DEF BatchesFit, Deletes
    <2>2. Barred(o, q)
      BY <1>3, <2>1 DEF BatchesFit
    <2>3. Folders(o)' = Folders(o) /\ Folders(q)' = Folders(q)
      BY <2>1 DEF Folders
    <2>4. PICK m \in DOMAIN Folders(q), s \in Prefix :
            /\ Near(Folders(q)[m], s)
            /\ Climbing(ops[q]) => m <= Len(ops[q].held)
            /\ \A l \in DOMAIN Folders(o) : <<o, l>> \in live =>
                 Rank[Folders(o)[l]] < Rank[s] /\ ~Near(Folders(o)[l], Folders(q)[m])
      BY <2>2 DEF Barred
    <2>5. Climbing(ops'[q]) => m <= Len(ops'[q].held)
      BY <2>1, <2>4
    <2>6. \A l \in DOMAIN Folders(o) : <<o, l>> \in live' =>
            Rank[Folders(o)[l]] < Rank[s] /\ ~Near(Folders(o)[l], Folders(q)[m])
      BY <2>4
    <2> QED
      BY <2>3, <2>4, <2>5, <2>6 DEF Barred
  <1>4. BatchesDoNotRefuseEachOther'
    <2> SUFFICES ASSUME NEW o \in started', NEW q \in started', o # q, Deletes(o)', Deletes(q)',
                        q \in ops'[o].blockers, o \in ops'[q].blockers
                 PROVE  FALSE
      BY DEF BatchesDoNotRefuseEachOther, Deletes
    <2>1. o \in started /\ q \in started
      OBVIOUS
    <2> QED
      BY <2>1 DEF BatchesFit, BatchesDoNotRefuseEachOther, Deletes
  <1> QED
    BY <1>1, <1>2, <1>3, <1>4 DEF BatchesFit

LEMMA TakeLockBatches ==
  ASSUME LocksFit, BatchesFit, NEW o \in Op, TakeLock(o)
  PROVE  BatchesFit'
  <1>1. PICK n, id, s : n = Len(ops[o].held) /\ id = <<o, n + 1>> /\ s = Wanted(ops[o].job)[n + 1]
    OBVIOUS
  <1>2. PICK r : r = [ops[o] EXCEPT !.stage = "announcing", !.held = Append(ops[o].held, id)]
    OBVIOUS
  <1>3. /\ o \in started /\ ops[o].stage = "locking" /\ Acquire(id, s, 0)
        /\ ops' = [ops EXCEPT ![o].stage = "announcing", ![o].held = Append(@, id)]
    BY <1>1 DEF TakeLock, AtStage, NextScope
  <1>4. ops[o] \in Operation /\ ops[o].held \in Seq(LockId) /\ Shape(o, ops[o])
    BY <1>3, Fields
  <1>5. /\ started' = started /\ ops'[o] = r
        /\ \A q \in started \ {o} : ops'[q] = ops[q]
    BY <1>2, <1>3, <1>4 DEF LocksFit, started, Operation
  <1>6. /\ r.job = ops[o].job /\ r.blockers = ops[o].blockers /\ r.held = Append(ops[o].held, id)
    BY <1>2, <1>4 DEF Operation
  <1>7. /\ live' = live \cup {id} /\ id \notin live /\ locks'[id].scope = s
        /\ \A x \in live : locks'[x] = locks[x]
    BY <1>3 DEF Acquire, With, live, LocksFit, TypeOK
  <1>8. r.blockers = {}
    BY <1>3, <1>6 DEF BatchesFit, Climbing
  <1>9. \A q \in started : /\ ops'[q].job = ops[q].job /\ ops'[q].blockers = ops[q].blockers
                           /\ Folders(q)' = Folders(q) /\ Deletes(q)' = Deletes(q)
    <2> SUFFICES ASSUME NEW q \in started
                 PROVE  ops'[q].job = ops[q].job /\ ops'[q].blockers = ops[q].blockers
      BY DEF Folders, Deletes
    <2> QED
      BY <1>5, <1>6
  <1>10. ASSUME NEW x \in live' PROVE OnFolder(x)'
    <2>1. CASE x = id
      <3> SUFFICES ASSUME Deletes(o)
                   PROVE  /\ n + 1 \in DOMAIN Folders(o)
                          /\ s = PrefixScope(TheProfile, TheBucket, Folders(o)[n + 1])
        BY <1>1, <1>3, <1>7, <1>9, <2>1 DEF OnFolder
      <3>1. PICK w : w = Len(Wanted(ops[o].job))
        OBVIOUS
      <3>2. n \in Nat /\ w \in Nat /\ n < w /\ DOMAIN Wanted(ops[o].job) = 1 .. w
        BY <1>1, <1>3, <1>4, <3>1, Fields DEF Shape
      <3>3. n + 1 \in DOMAIN Wanted(ops[o].job)
        BY <3>2
      <3> QED
        BY <1>1, <1>3, <3>3, FoldersAreWanted
    <2>2. CASE x # id
      <3>1. x \in live /\ OnFolder(x) /\ x[1] \in started
        BY <1>7, <2>2 DEF BatchesFit, LocksFit, LockFits
      <3> QED
        BY <1>7, <1>9, <3>1 DEF OnFolder
    <2> QED
      BY <2>1, <2>2
  <1>11. ASSUME NEW x \in started'
         PROVE  /\ ops'[x].blockers \subseteq started'
                /\ Climbing(ops'[x]) => ops'[x].blockers = {}
    BY <1>5, <1>8, <1>9 DEF BatchesFit
  <1>12. ASSUME NEW x \in started', NEW q \in started', x # q, Deletes(x)', Deletes(q)',
                q \in ops'[x].blockers
         PROVE  Barred(x, q)'
    <2>1. /\ x \in started /\ q \in started /\ Deletes(x) /\ Deletes(q) /\ q \in ops[x].blockers
          /\ x # o
      BY <1>5, <1>8, <1>9, <1>12
    <2>2. Barred(x, q)
      BY <1>12, <2>1 DEF BatchesFit
    <2>3. Folders(x)' = Folders(x) /\ Folders(q)' = Folders(q)
      BY <1>9, <2>1
    <2>4. PICK m \in DOMAIN Folders(q), t \in Prefix :
            /\ Near(Folders(q)[m], t)
            /\ Climbing(ops[q]) => m <= Len(ops[q].held)
            /\ \A l \in DOMAIN Folders(x) : <<x, l>> \in live =>
                 Rank[Folders(x)[l]] < Rank[t] /\ ~Near(Folders(x)[l], Folders(q)[m])
      BY <2>2 DEF Barred
    <2>5. Climbing(ops'[q]) => m <= Len(ops'[q].held)
      <3>1. CASE q = o
        <4>1. m <= Len(ops[o].held)
          BY <1>3, <2>4, <3>1 DEF Climbing
        <4>2. Len(r.held) = Len(ops[o].held) + 1 /\ Len(ops[o].held) \in Nat
          BY <1>4, <1>6
        <4>3. m \in Nat
          <5>1. Folders(q) \in Seq(Prefix)
            BY <2>1, FoldersAreWanted
          <5> QED
            BY <5>1
        <4>4. m <= Len(r.held)
          BY <4>1, <4>2, <4>3
        <4> QED
          BY <1>5, <3>1, <4>4
      <3>2. CASE q # o
        BY <1>5, <2>1, <2>4, <3>2
      <3> QED
        BY <3>1, <3>2
    <2>6. \A l \in DOMAIN Folders(x) : <<x, l>> \in live' =>
            Rank[Folders(x)[l]] < Rank[t] /\ ~Near(Folders(x)[l], Folders(q)[m])
      <3>1. \A l : <<x, l>> # id
        BY <1>1, <2>1
      <3> QED
        BY <1>7, <2>4, <3>1
    <2> QED
      BY <2>3, <2>4, <2>5, <2>6 DEF Barred
  <1>13. BatchesDoNotRefuseEachOther'
    BY <1>5, <1>9 DEF BatchesFit, BatchesDoNotRefuseEachOther, Deletes
  <1> QED
    BY <1>10, <1>11, <1>12, <1>13 DEF BatchesFit

\* A refusal: it stands against everything its blockers may yet ask for, and
\* so none of them has been refused because of it before.
LEMMA RefusedBatches ==
  ASSUME LocksFit, BatchesFit, NEW o \in Op, Refused(o)
  PROVE  BatchesFit'
  <1>1. PICK B, stage, r :
          /\ B = {id[1] : id \in {i \in live : Intersects(locks[i].scope, NextScope(o))}}
          /\ stage = IF ops[o].held = <<>> THEN "ended" ELSE "releasing"
          /\ r = [ops[o] EXCEPT !.stage = stage, !.result = "locked", !.blockers = B]
    OBVIOUS
  <1>2. /\ o \in started /\ ops[o].stage = "locking" /\ UNCHANGED lockVars
        /\ ops' = [ops EXCEPT ![o] = r]
    BY <1>1 DEF Refused, AtStage
  <1>3. ops[o] \in Operation /\ ops[o].held \in Seq(LockId) /\ Shape(o, ops[o])
    BY <1>2, Fields
  <1>4. /\ started' = started /\ ops'[o] = r /\ live' = live /\ locks' = locks
        /\ \A q \in started \ {o} : ops'[q] = ops[q]
    BY <1>2 DEF LocksFit, started, live, lockVars
  <1>5. r.job = ops[o].job /\ r.blockers = B /\ ~Climbing(r)
    BY <1>1, <1>3 DEF Operation, Climbing
  <1>6. \A q \in started : ops'[q].job = ops[q].job /\ Folders(q)' = Folders(q) /\ Deletes(q)' = Deletes(q)
    <2> SUFFICES ASSUME NEW q \in started PROVE ops'[q].job = ops[q].job
      BY DEF Folders, Deletes
    <2> QED
      BY <1>4, <1>5
  <1>7. PICK n : n = Len(ops[o].held)
    OBVIOUS
  <1>8. NextScope(o) = Wanted(ops[o].job)[n + 1] /\ n \in Nat
    BY <1>3, <1>7 DEF NextScope
  <1>9. ASSUME Deletes(o)
        PROVE  /\ n + 1 \in DOMAIN Folders(o) /\ Folders(o)[n + 1] \in Prefix
               /\ NextScope(o) = PrefixScope(TheProfile, TheBucket, Folders(o)[n + 1])
    <2>1. PICK w : w = Len(Wanted(ops[o].job))
      OBVIOUS
    <2>2. w \in Nat /\ n < w /\ DOMAIN Wanted(ops[o].job) = 1 .. w
      BY <1>2, <1>3, <1>7, <2>1, Fields DEF Shape
    <2>3. n + 1 \in DOMAIN Wanted(ops[o].job)
      BY <1>8, <2>2
    <2> QED
      BY <1>2, <1>8, <1>9, <2>3, FoldersAreWanted
  \* What blocks a batch is a folder of the blocker, near the one it wants.
  <1>10. ASSUME NEW q \in B, Deletes(o), Deletes(q)
         PROVE  /\ q \in started
                /\ \E m \in DOMAIN Folders(q) :
                     /\ <<q, m>> \in live /\ Folders(q)[m] \in Prefix
                     /\ locks[<<q, m>>].scope = PrefixScope(TheProfile, TheBucket, Folders(q)[m])
                     /\ Near(Folders(q)[m], Folders(o)[n + 1])
    <2>1. PICK id \in live : q = id[1] /\ Intersects(locks[id].scope, NextScope(o))
      BY <1>1
    <2>2. id \in started \X Nat /\ OnFolder(id)
      BY DEF LocksFit, LockFits, BatchesFit
    <2>3. PICK m : m = id[2]
      OBVIOUS
    <2>4. id = <<q, m>> /\ q \in started
      BY <2>1, <2>2, <2>3
    <2>5. /\ m \in DOMAIN Folders(q)
          /\ locks[<<q, m>>].scope = PrefixScope(TheProfile, TheBucket, Folders(q)[m])
      BY <1>10, <2>1, <2>2, <2>3, <2>4 DEF OnFolder
    <2>6. Folders(q)[m] \in Prefix
      BY <1>10, <2>4, <2>5, FoldersAreWanted
    <2>7. Near(Folders(q)[m], Folders(o)[n + 1])
      BY <1>9, <1>10, <2>1, <2>4, <2>5, <2>6, ScopesNear
    <2> QED
      BY <2>1, <2>4, <2>5, <2>6, <2>7
  <1>11. B \subseteq started
    <2>1. \A id \in live : id[1] \in started
      BY DEF LocksFit, LockFits
    <2> QED
      BY <1>1, <2>1
  <1>12. ASSUME NEW id \in live' PROVE OnFolder(id)'
    <2>1. OnFolder(id) /\ id[1] \in started
      BY <1>4 DEF BatchesFit, LocksFit, LockFits
    <2> QED
      BY <1>4, <1>6, <2>1 DEF OnFolder
  <1>13. ASSUME NEW x \in started'
         PROVE  /\ ops'[x].blockers \subseteq started'
                /\ Climbing(ops'[x]) => ops'[x].blockers = {}
    BY <1>4, <1>5, <1>11 DEF BatchesFit
  <1>14. ASSUME NEW q \in B, q # o, Deletes(o), Deletes(q) PROVE Barred(o, q)'
    <2>1. PICK m \in DOMAIN Folders(q) :
            /\ q \in started
            /\ <<q, m>> \in live /\ Folders(q)[m] \in Prefix
            /\ locks[<<q, m>>].scope = PrefixScope(TheProfile, TheBucket, Folders(q)[m])
            /\ Near(Folders(q)[m], Folders(o)[n + 1])
      BY <1>10, <1>14
    <2>2. Climbing(ops'[q]) => m <= Len(ops'[q].held)
      BY <1>4, <1>14, <2>1, TakenSoFar
    <2>3. ASSUME NEW l \in DOMAIN Folders(o), <<o, l>> \in live
          PROVE  Rank[Folders(o)[l]] < Rank[Folders(o)[n + 1]] /\ ~Near(Folders(o)[l], Folders(q)[m])
      <3>1. l \in Nat /\ l <= n
        BY <1>2, <1>7, <2>3, TakenSoFar DEF Climbing
      <3>2. l < n + 1
        BY <1>8, <3>1
      <3>3. Rank[Folders(o)[l]] < Rank[Folders(o)[n + 1]] /\ Folders(o)[l] \in Prefix
        BY <1>2, <1>9, <1>14, <3>2, FoldersAreWanted
      <3>4. OnFolder(<<o, l>>)
        BY <2>3 DEF BatchesFit
      <3>5. locks[<<o, l>>].scope = PrefixScope(TheProfile, TheBucket, Folders(o)[l])
        BY <1>14, <3>4 DEF OnFolder
      <3>6. <<o, l>> # <<q, m>>
        BY <1>14
      <3> QED
        BY <2>1, <2>3, <3>3, <3>5, <3>6, LockedApart
    <2>4. Folders(o)' = Folders(o) /\ Folders(q)' = Folders(q)
      BY <1>2, <1>6, <2>1
    <2> QED
      BY <1>4, <1>9, <1>14, <2>1, <2>2, <2>3, <2>4 DEF Barred
  <1>15. ASSUME NEW x \in started', NEW q \in started', x # q, Deletes(x)', Deletes(q)',
                q \in ops'[x].blockers
         PROVE  Barred(x, q)'
    <2>1. x \in started /\ q \in started /\ Deletes(x) /\ Deletes(q)
      BY <1>4, <1>6, <1>15
    <2>2. CASE x = o
      BY <1>4, <1>5, <1>14, <1>15, <2>1, <2>2
    <2>3. CASE x # o
      <3>1. Barred(x, q)
        BY <1>4, <1>15, <2>1, <2>3 DEF BatchesFit
      <3>2. Folders(x)' = Folders(x) /\ Folders(q)' = Folders(q)
        BY <1>6, <2>1
      <3>3. PICK m \in DOMAIN Folders(q), t \in Prefix :
              /\ Near(Folders(q)[m], t)
              /\ Climbing(ops[q]) => m <= Len(ops[q].held)
              /\ \A l \in DOMAIN Folders(x) : <<x, l>> \in live =>
                   Rank[Folders(x)[l]] < Rank[t] /\ ~Near(Folders(x)[l], Folders(q)[m])
        BY <3>1 DEF Barred
      <3>4. Climbing(ops'[q]) => m <= Len(ops'[q].held)
        BY <1>4, <1>5, <2>1, <3>3
      <3> QED
        BY <1>4, <3>2, <3>3, <3>4 DEF Barred
    <2> QED
      BY <2>2, <2>3
  \* Who blocks it has not been refused because of it.
  <1>16. ASSUME NEW q \in B, q # o, Deletes(o), Deletes(q), o \in ops[q].blockers PROVE FALSE
    <2>1. PICK m \in DOMAIN Folders(q) :
            /\ q \in started
            /\ <<q, m>> \in live /\ Folders(q)[m] \in Prefix
            /\ locks[<<q, m>>].scope = PrefixScope(TheProfile, TheBucket, Folders(q)[m])
            /\ Near(Folders(q)[m], Folders(o)[n + 1])
      BY <1>10, <1>16
    <2>2. Barred(q, o)
      BY <1>2, <1>16, <2>1 DEF BatchesFit
    <2>3. PICK i \in DOMAIN Folders(o), s \in Prefix :
            /\ Near(Folders(o)[i], s)
            /\ Climbing(ops[o]) => i <= Len(ops[o].held)
            /\ \A l \in DOMAIN Folders(q) : <<q, l>> \in live =>
                 Rank[Folders(q)[l]] < Rank[s] /\ ~Near(Folders(q)[l], Folders(o)[i])
      BY <2>2 DEF Barred
    <2>4. i < n + 1
      <3>1. i <= n
        BY <1>2, <1>7, <2>3 DEF Climbing
      <3>2. i \in Nat
        <4>1. Folders(o) \in Seq(Prefix)
          BY <1>2, <1>16, FoldersAreWanted
        <4> QED
          BY <4>1
      <3> QED
        BY <1>8, <3>1, <3>2
    <2>5. /\ Rank[Folders(o)[i]] < Rank[Folders(o)[n + 1]]
          /\ Folders(o)[i] \in Prefix /\ Folders(o)[n + 1] \in Prefix
      BY <1>2, <1>9, <1>16, <2>4, FoldersAreWanted
    <2> QED
      BY <2>1, <2>3, <2>5, NoWayBack
  <1>17. BatchesDoNotRefuseEachOther'
    <2> SUFFICES ASSUME NEW x \in started', NEW q \in started', x # q, Deletes(x)', Deletes(q)',
                        q \in ops'[x].blockers, x \in ops'[q].blockers
                 PROVE  FALSE
      BY DEF BatchesDoNotRefuseEachOther, Deletes
    <2>1. x \in started /\ q \in started /\ Deletes(x) /\ Deletes(q)
      BY <1>4, <1>6
    <2>2. CASE x = o
      BY <1>4, <1>5, <1>16, <2>1, <2>2
    <2>3. CASE q = o
      BY <1>4, <1>5, <1>16, <2>1, <2>3
    <2>4. CASE x # o /\ q # o
      BY <1>4, <2>1, <2>4 DEF BatchesFit, BatchesDoNotRefuseEachOther, Deletes
    <2> QED
      BY <2>2, <2>3, <2>4
  <1> QED
    BY <1>12, <1>13, <1>15, <1>17 DEF BatchesFit

\* The other steps of a command: a lookup, a request, a way out.
LEMMA OtherStep ==
  ASSUME LocksFit, NEW o \in Op, OpStep(o), ~TakeLock(o), ~Refused(o)
  PROVE  \E r : /\ o \in started /\ ops' = [ops EXCEPT ![o] = r]
                /\ r.job = ops[o].job /\ r.blockers = ops[o].blockers
                /\ Climbing(r) => Climbing(ops[o]) /\ r.held = ops[o].held
  <1>1. o \in started
    BY DEF OpStep, TakeLock, Refused, Announce, Connect, PoolMiss, PutObject, MoveCopy,
           MoveDelete, DeleteChunk, GiveBack, Invalidate, AtStage
  <1>2. ops[o] \in Operation
    BY <1>1, Fields
  <1>3. CASE Announce(o)
    <2> DEFINE found == Last(ops[o].held) \in live
               more == Len(ops[o].held) < Len(Wanted(ops[o].job))
               stage == IF ~found THEN "ended" ELSE IF more THEN "locking" ELSE "connecting"
               result == IF found THEN None ELSE "panic"
               r == [ops[o] EXCEPT !.stage = stage, !.result = result]
    <2>1. ops' = [ops EXCEPT ![o] = r] /\ Climbing(ops[o])
      BY <1>3 DEF Announce, AtStage, Climbing
    <2>2. r.job = ops[o].job /\ r.blockers = ops[o].blockers /\ r.held = ops[o].held
      BY <1>2 DEF Operation
    <2> QED
      BY <1>1, <2>1, <2>2
  <1>4. CASE Connect(o) \/ PoolMiss(o)
    <2> DEFINE r == [ops[o] EXCEPT !.stage = "calling"]
               t == [ops[o] EXCEPT !.stage = "ended", !.result = "pool_miss"]
    <2>1. ops' = [ops EXCEPT ![o] = r] \/ ops' = [ops EXCEPT ![o] = t]
      BY <1>4 DEF Connect, PoolMiss
    <2>2. /\ r.job = ops[o].job /\ r.blockers = ops[o].blockers /\ ~Climbing(r)
          /\ t.job = ops[o].job /\ t.blockers = ops[o].blockers /\ ~Climbing(t)
      BY <1>2 DEF Operation, Climbing
    <2> QED
      BY <1>1, <2>1, <2>2
  <1>5. ASSUME NEW result
        PROVE  /\ Outcome(o, result).job = ops[o].job /\ Outcome(o, result).stage = "releasing"
               /\ Outcome(o, result).blockers = ops[o].blockers
    BY <1>2 DEF Outcome, Operation
  <1>6. ASSUME NEW result, ops' = [ops EXCEPT ![o] = Outcome(o, result)]
        PROVE  \E r : /\ o \in started /\ ops' = [ops EXCEPT ![o] = r]
                      /\ r.job = ops[o].job /\ r.blockers = ops[o].blockers
                      /\ Climbing(r) => Climbing(ops[o]) /\ r.held = ops[o].held
    BY <1>1, <1>5, <1>6 DEF Climbing
  <1>7. CASE PutObject(o) \/ MoveDelete(o)
    BY <1>6, <1>7 DEF PutObject, MoveDelete, Succeed, Fail
  <1>8. CASE MoveCopy(o)
    <2>1. CASE Fail(o)
      BY <1>6, <2>1 DEF Fail
    <2>2. CASE ~Fail(o)
      <3>1. PICK v, r : v = Seen(ops[o].job.keys[1]) /\ r = [ops[o] EXCEPT !.stage = "copied", !.source = v]
        OBVIOUS
      <3>2. ops' = [ops EXCEPT ![o] = r]
        BY <1>2, <1>8, <2>2, <3>1 DEF MoveCopy, Operation
      <3>3. r.job = ops[o].job /\ r.blockers = ops[o].blockers /\ r.stage = "copied"
        BY <1>2, <3>1 DEF Operation
      <3> QED
        BY <1>1, <3>2, <3>3 DEF Climbing
    <2> QED
      BY <2>1, <2>2
  <1>9. CASE DeleteChunk(o)
    <2>1. PICK K : \/ Fail(o)
                   \/ \E b, r, rest : /\ b = Outcome(o, "ok") \/ b = ops[o]
                                      /\ r = [b EXCEPT !.todo = rest, !.changed = @ \cup K]
                                      /\ ops' = [ops EXCEPT ![o] = r]
      BY <1>9, ChunkOf
    <2>2. CASE Fail(o)
      BY <1>6, <2>2 DEF Fail
    <2>3. CASE ~Fail(o)
      <3>1. PICK b, r, rest : /\ b = Outcome(o, "ok") \/ b = ops[o]
                              /\ r = [b EXCEPT !.todo = rest, !.changed = @ \cup K]
                              /\ ops' = [ops EXCEPT ![o] = r]
        BY <2>1, <2>3
      <3>2. b.job = ops[o].job /\ b.blockers = ops[o].blockers /\ b.stage \in {"calling", "releasing"}
        BY <1>5, <1>9, <3>1 DEF DeleteChunk, AtStage
      <3>3. PICK changed : r = [b EXCEPT !.todo = rest, !.changed = changed]
        BY <3>1
      <3>4. r.job = b.job /\ r.blockers = b.blockers /\ r.stage = b.stage
        <4>1. b \in Operation
          <5>1. MayBecome(o, Outcome(o, "ok"))
            BY <1>1, <1>9, OutcomeFits DEF DeleteChunk, AtStage, AtS3
          <5> QED
            BY <1>2, <3>1, <5>1 DEF MayBecome
        <4> QED
          BY <3>3, <4>1 DEF Operation
      <3> QED
        BY <1>1, <3>1, <3>2, <3>4 DEF Climbing
    <2> QED
      BY <2>2, <2>3
  <1>10. CASE GiveBack(o)
    <2>1. PICK rest, op, r :
            /\ rest = Tail(ops[o].held) /\ op = [ops[o] EXCEPT !.held = rest]
            /\ r = IF rest = <<>> THEN Leave(op) ELSE op
      OBVIOUS
    <2>2. ops' = [ops EXCEPT ![o] = r]
      BY <1>2, <1>10, <2>1 DEF GiveBack, Operation
    <2>3. /\ op.job = ops[o].job /\ op.blockers = ops[o].blockers /\ op.stage = "releasing"
          /\ op \in [job : Job, stage : Stage, result : Result \cup {None}, held : {rest},
                     todo : Seq(Key), changed : SUBSET Key, source : Version,
                     stale : Seq(Prefix), blockers : SUBSET Op]
      BY <1>2, <1>10, <2>1 DEF GiveBack, AtStage, Operation
    <2>4. r.job = op.job /\ r.blockers = op.blockers /\ r.stage \in {"releasing", "ended", "invalidating"}
      <3>1. CASE rest # <<>>
        BY <2>1, <2>3, <3>1
      <3>2. CASE rest = <<>>
        <4>1. PICK stale : stale = IF op.result = "ok" THEN Affected(op.job, op.changed) ELSE <<>>
          OBVIOUS
        <4>2. r = [op EXCEPT !.stage = IF stale = <<>> THEN "ended" ELSE "invalidating",
                             !.stale = stale]
          BY <2>1, <3>2, <4>1 DEF Leave
        <4> QED
          BY <2>3, <4>2
      <3> QED
        BY <3>1, <3>2
    <2> QED
      BY <1>1, <2>2, <2>3, <2>4 DEF Climbing
  <1>11. CASE Invalidate(o)
    <2>1. PICK rest, r :
            /\ rest = Tail(ops[o].stale)
            /\ r = [ops[o] EXCEPT !.stale = rest,
                                  !.stage = IF rest = <<>> THEN "ended" ELSE "invalidating"]
      OBVIOUS
    <2>2. ops' = [ops EXCEPT ![o] = r]
      BY <1>2, <1>11, <2>1 DEF Invalidate, AtStage, Operation
    <2>3. /\ r.job = ops[o].job /\ r.blockers = ops[o].blockers
          /\ r.stage \in {"ended", "invalidating"}
      BY <1>2, <2>1 DEF Operation
    <2> QED
      BY <1>1, <2>2, <2>3 DEF Climbing
  <1> QED
    BY <1>3, <1>4, <1>7, <1>8, <1>9, <1>10, <1>11 DEF OpStep

LEMMA OtherBatches ==
  ASSUME LocksFit, BatchesFit, NEW o \in Op, OpStep(o), ~TakeLock(o), ~Refused(o)
  PROVE  BatchesFit'
  <1>1. PICK r : /\ o \in started /\ ops' = [ops EXCEPT ![o] = r]
                 /\ r.job = ops[o].job /\ r.blockers = ops[o].blockers
                 /\ Climbing(r) => Climbing(ops[o]) /\ r.held = ops[o].held
    BY OtherStep
  <1>2. started' = started /\ \A q \in started : ops'[q] = IF q = o THEN r ELSE ops[q]
    BY <1>1 DEF LocksFit, started
  <1>3. live' \subseteq live /\ \A id \in live' : locks'[id] = locks[id]
    <2>1. CASE GiveBack(o)
      <3>1. PICK id : IF id \in live THEN Release(id) ELSE UNCHANGED lockVars
        BY <2>1 DEF GiveBack
      <3>2. live' = live \ {id} /\ \A x \in live' : locks'[x] = locks[x]
        BY <3>1, ReleaseKeeps DEF LocksFit
      <3> QED
        BY <3>2
    <2>2. CASE ~GiveBack(o)
      <3>1. UNCHANGED lockVars
        BY <2>2 DEF OpStep, Announce, Connect, PoolMiss, PutObject, MoveCopy, MoveDelete,
                    DeleteChunk, Invalidate
      <3> QED
        BY <3>1 DEF lockVars, live
    <2> QED
      BY <2>1, <2>2
  <1>4. \A q \in started : /\ ops'[q].job = ops[q].job /\ ops'[q].blockers = ops[q].blockers
                           /\ Climbing(ops'[q]) => Climbing(ops[q]) /\ ops'[q].held = ops[q].held
    BY <1>1, <1>2
  <1> QED
    BY <1>2, <1>3, <1>4, BatchesKept

BatchInv == MutationInv /\ BatchesFit

LEMMA BatchInit == MutationInit => BatchInv
  <1> SUFFICES ASSUME MutationInit PROVE BatchInv
    OBVIOUS
  <1>1. MutationInv
    BY MutationInvInit
  <1>2. started = {} /\ live = {}
    BY DEF MutationInit, Init, started, live
  <1>3. BatchesFit
    BY <1>2 DEF BatchesFit, BatchesDoNotRefuseEachOther
  <1> QED
    BY <1>1, <1>3 DEF BatchInv

LEMMA BatchStep == BatchInv /\ [MutationNext]_vars => BatchInv'
  <1> SUFFICES ASSUME BatchInv, [MutationNext]_vars PROVE BatchInv'
    OBVIOUS
  <1>1. MutationInv' /\ LocksFit /\ BatchesFit
    BY MutationInvStep, MutationInvParts DEF BatchInv
  <1>2. CASE \E o \in Op, j \in Job : Start(o, j)
    <2>1. PICK o \in Op, j \in Job : Start(o, j)
      BY <1>2
    <2>2. started' = started \cup {o} /\ o \notin started /\ \A q \in started : ops'[q] = ops[q]
      BY <1>1, <2>1, StartFits DEF Start
    <2>3. ops'[o].blockers = {}
      BY <2>1 DEF Start, With
    <2>4. live' = live /\ locks' = locks
      BY <2>1 DEF Start, lockVars, live
    <2>5. BatchesFit'
      BY <1>1, <2>2, <2>3, <2>4, BatchesKept
    <2> QED
      BY <1>1, <2>5 DEF BatchInv
  <1>3. CASE \E o \in Op : OpStep(o)
    <2>1. BatchesFit'
      BY <1>1, <1>3, TakeLockBatches, RefusedBatches, OtherBatches
    <2> QED
      BY <1>1, <2>1 DEF BatchInv
  <1>4. CASE ~(\E o \in Op, j \in Job : Start(o, j)) /\ ~\E o \in Op : OpStep(o)
    <2>1. ops' = ops /\ started' = started
      BY <1>4 DEF MutationNext, List, StoreListing, Expire, Lapse, vars, opVars, started
    <2>2. live' \subseteq live /\ \A id \in live' : locks'[id] = locks[id]
      <3>1. CASE \E id \in live : Lapse(id)
        <4>1. PICK id \in live : Release(id)
          BY <3>1 DEF Lapse
        <4>2. live' = live \ {id} /\ \A x \in live' : locks'[x] = locks[x]
          BY <1>1, <4>1, ReleaseKeeps DEF LocksFit
        <4> QED
          BY <4>2
      <3>2. CASE ~\E id \in live : Lapse(id)
        <4>1. UNCHANGED lockVars
          BY <1>4, <3>2 DEF MutationNext, List, StoreListing, Expire, vars
        <4> QED
          BY <4>1 DEF lockVars, live
      <3> QED
        BY <3>1, <3>2
    <2>3. BatchesFit'
      BY <1>1, <2>1, <2>2, BatchesKept
    <2> QED
      BY <1>1, <2>3 DEF BatchInv
  <1> QED
    BY <1>2, <1>3, <1>4

(***************************************************************************)
(* Two batches never refuse each other, however many locks of theirs lapse *)
(* in between: each takes its folders in the order of their names as       *)
(* strings.                                                                *)
(***************************************************************************)
THEOREM BatchesTakeTurns == MutationSpec => []BatchesDoNotRefuseEachOther
  <1>1. BatchInv => BatchesDoNotRefuseEachOther
    BY DEF BatchInv, BatchesFit
  <1> QED
    BY <1>1, BatchInit, BatchStep, PTL DEF MutationSpec

=============================================================================
