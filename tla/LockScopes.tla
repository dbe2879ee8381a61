----------------------------- MODULE LockScopes -----------------------------
(***************************************************************************)
(* Scopes of resource locks: src-tauri/src/locks/mod.rs, LockScope and     *)
(* LockScope::intersects.                                                  *)
(*                                                                         *)
(* A key or a prefix is a sequence of chunks, where the code has a string; *)
(* starts_with on strings is IsPrefix on the sequences.  The optional      *)
(* fields of the Rust record are None when absent.                         *)
(***************************************************************************)
EXTENDS SequencesExt

CONSTANTS
  Profile,   \* profile ids
  Bucket,    \* bucket names
  Chunk,     \* what keys and prefixes are strings of
  Key,       \* the object keys
  Prefix,    \* the prefixes that operations lock
  None       \* an absent optional field

ASSUME ScopeAssumption ==
  /\ Key \subseteq Seq(Chunk)
  /\ Prefix \subseteq Seq(Chunk)
  /\ None \notin Bucket \cup Key \cup Prefix

(***************************************************************************)
(* S3 has no directories: any string is the prefix of some possible key,   *)
(* so a lock never covers nothing.                                         *)
(***************************************************************************)
ASSUME InhabitedAssumption ==
  /\ Bucket # {}
  /\ Key # {}
  /\ \A p \in Prefix : \E k \in Key : IsPrefix(p, k)

Scope == [profile : Profile,
          bucket  : Bucket \cup {None},
          prefix  : Prefix \cup {None},
          key     : Key \cup {None}]

\* The scopes the operations build: one object, or one "folder".
KeyScope(p, b, k) == [profile |-> p, bucket |-> b, prefix |-> None, key |-> k]
PrefixScope(p, b, x) == [profile |-> p, bucket |-> b, prefix |-> x, key |-> None]

-----------------------------------------------------------------------------

\* Key k is under the prefix of the broader scope s.
KeyUnder(k, s) == s.prefix = None \/ IsPrefix(s.prefix, k)

\* Mutant: prefixes are compared in one direction only.
PrefixesMeetOneWay(s, t) ==
  \/ s.prefix = None
  \/ t.prefix = None
  \/ IsPrefix(s.prefix, t.prefix)

\* The two arms for a pair of scopes without a key.
PrefixesMeet(s, t) ==
  \/ s.prefix = None
  \/ t.prefix = None
  \/ IsPrefix(s.prefix, t.prefix)
  \/ IsPrefix(t.prefix, s.prefix)

\* Mutant: an absent prefix decides before the keys are looked at, as in the
\* earlier implementation that the comment in the code remembers.
SameBucketMeetEager(s, t) ==
  \/ s.prefix = None
  \/ t.prefix = None
  \/ PrefixesMeet(s, t)

\* Scopes of one profile and one bucket: keys are compared before prefixes.
SameBucketMeet(s, t) ==
  \/ s.key # None /\ t.key # None /\ s.key = t.key
  \/ s.key # None /\ t.key = None /\ KeyUnder(s.key, t)
  \/ s.key = None /\ t.key # None /\ KeyUnder(t.key, s)
  \/ s.key = None /\ t.key = None /\ PrefixesMeet(s, t)

(***************************************************************************)
(* LockScope::intersects.  An absent bucket makes the scope profile-wide,  *)
(* whatever its prefix and key say.                                        *)
(***************************************************************************)
Intersects(s, t) ==
  /\ s.profile = t.profile
  /\ \/ s.bucket = None
     \/ t.bucket = None
     \/ s.bucket = t.bucket /\ SameBucketMeet(s, t)

-----------------------------------------------------------------------------

(***************************************************************************)
(* What a scope stands for, independently of how two scopes are compared:  *)
(* the objects whose owner a lock on it claims to be.                      *)
(***************************************************************************)
Object == [profile : Profile, bucket : Bucket, key : Key]

Covers(s) ==
  {o \in Object :
     /\ o.profile = s.profile
     /\ \/ s.bucket = None
        \/ /\ s.bucket = o.bucket
           /\ IF s.key # None THEN s.key = o.key ELSE KeyUnder(o.key, s)}

=============================================================================
