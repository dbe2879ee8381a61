--------------------------- MODULE ObjectOwnership ---------------------------
(***************************************************************************)
(* What the lock registry promises, without scopes, hierarchies or time:   *)
(* every object has at most one owner, and ownership never passes from one *)
(* lock to another without the object having been free in between.         *)
(***************************************************************************)
CONSTANTS
  Object,    \* the objects that can be owned
  LockId,    \* the locks that can own them
  Free       \* the owner of an object nobody owns: not a lock

VARIABLE owner

TypeOK == owner \in [Object -> LockId \cup {Free}]

Init == owner = [o \in Object |-> Free]

\* A lock that owns nothing yet takes some objects, all of them free.
Claim(id) ==
  /\ \A o \in Object : owner[o] # id
  /\ owner' \in [Object -> LockId \cup {Free}]
  /\ \A o \in Object :
       owner'[o] = owner[o] \/ (owner[o] = Free /\ owner'[o] = id)

\* Some locks give up everything they own.
Yield(ids) ==
  owner' = [o \in Object |-> IF owner[o] \in ids THEN Free ELSE owner[o]]

Next ==
  \/ \E id \in LockId : Claim(id)
  \/ \E ids \in SUBSET LockId : Yield(ids)

Spec == Init /\ [][Next]_owner

=============================================================================
