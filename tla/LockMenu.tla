------------------------------ MODULE LockMenu ------------------------------
(***************************************************************************)
(* What the interface makes of the locks of the backend: the store that    *)
(* mirrors the lock events (store/locks.ts, fed by query/client.ts), the   *)
(* hook that finds the locks of a folder, and the context menu of the file *)
(* list, which is to disable what would conflict (ContextMenu.tsx) and is  *)
(* part of the list it belongs to.                                         *)
(*                                                                         *)
(* The shown folder lies in the scope of every operation here.             *)
(***************************************************************************)
EXTENDS Naturals, Sequences, FiniteSets

CONSTANTS
  Op,           \* operations of the backend, each with one lock
  OpName,       \* [Op -> the name its lock carries]
  Announced,    \* those that announce the lock they acquire: transfers do not
  MaxLockBus    \* bound: events not delivered yet

ASSUME LockMenuAssumption == Announced \subseteq Op /\ MaxLockBus \in Nat \ {0}

VARIABLES
  held,      \* the operations that hold their lock
  over,      \* those that are over
  lockBus,   \* lock:acquired and lock:released events under way
  locks,     \* the store
  scene      \* the file list: shown, replaced by its error boundary, or away

lockMenuVars == <<held, over, lockBus, locks, scene>>

\* The resource of a lock in the store.  The store expects a path; the
\* payload of lock:acquired has a "scope" and no "resource".
Resource == {"folder", "elsewhere", "undefined"}

PayloadResource == "undefined"

LockMenuTypeOK ==
  /\ held \in SUBSET Op /\ over \in SUBSET (Op \ held)
  /\ \A i \in DOMAIN lockBus : lockBus[i] \in [what : {"acquired", "released"}, op : Op]
  /\ locks \subseteq [id : Op, resource : Resource]
  /\ scene \in {"shown", "failed", "away"}

LockMenuInit ==
  /\ held = {} /\ over = {} /\ lockBus = <<>> /\ locks = {}
  /\ scene = "shown"

-----------------------------------------------------------------------------
(* The hook and the menu.                                                  *)

\* The commands an operation of each name blocks.
FileCommands ==
  {"file.delete", "file.rename", "file.cut", "file.copy", "file.move_to",
   "file.copy_to", "storage_class.change"}

LOCK_BLOCKED_ACTIONS_MAP(name) ==
  CASE name \in {"upload", "delete", "move", "rename", "storage_class_change"} -> FileCommands
    [] name = "copy" -> FileCommands \ {"file.copy", "file.copy_to"}
    [] OTHER -> {}

\* One path is a prefix of the other.  The first comparison takes the
\* missing path for a text nothing starts with, the second one throws.
ScopeIntersects(resource) ==
  CASE resource = "folder"    -> "yes"
    [] resource = "elsewhere" -> "no"
    [] resource = "undefined" -> "throws"

UseLocks(among) ==
  LET active == {l \in among : ScopeIntersects(l.resource) = "yes"} IN
  [throws  |-> \E l \in among : ScopeIntersects(l.resource) = "throws",
   blocked |-> UNION {LOCK_BLOCKED_ACTIONS_MAP(OpName[l.id]) : l \in active}]

LockAwareItem(command) == command \in UseLocks(locks).blocked

\* The list renders with its menu, or its error boundary takes over and
\* stays until it is told to try again or the location changes.
Render(old, among) ==
  IF old = "shown" /\ UseLocks(among).throws THEN "failed" ELSE old

AnnounceLock(o) ==
  /\ o \notin held \cup over
  /\ Len(lockBus) < MaxLockBus
  /\ held' = held \cup {o}
  /\ lockBus' = IF o \in Announced
                THEN Append(lockBus, [what |-> "acquired", op |-> o]) ELSE lockBus
  /\ UNCHANGED <<over, locks, scene>>

\* Delete is chosen in the menu.
FileContextMenu(o) ==
  /\ OpName[o] = "object_delete_batch"
  /\ scene = "shown" /\ ~LockAwareItem("file.delete")
  /\ AnnounceLock(o)

\* Every other operation: drops, buttons and dialogs do not ask for locks.
BackendOperation(o) == OpName[o] # "object_delete_batch" /\ AnnounceLock(o)

\* It ends, and its lock is released.
OperationEnds(o) ==
  /\ o \in held
  /\ Len(lockBus) < MaxLockBus
  /\ held' = held \ {o}
  /\ over' = over \cup {o}
  /\ lockBus' = Append(lockBus, [what |-> "released", op |-> o])
  /\ UNCHANGED <<locks, scene>>

-----------------------------------------------------------------------------
(* The store.                                                              *)

AddLock(o) ==
  IF \E l \in locks : l.id = o THEN locks
  ELSE locks \cup {[id |-> o, resource |-> PayloadResource]}

\* Mutant: a release clears every lock on the resource.
RemoveResource(o) == {l \in locks : l.resource # PayloadResource}

RemoveLock(o) == {l \in locks : l.id # o}

DeliverLock ==
  /\ lockBus # <<>>
  /\ lockBus' = Tail(lockBus)
  /\ LET e == Head(lockBus) IN
       locks' = IF e.what = "acquired" THEN AddLock(e.op) ELSE RemoveLock(e.op)
  /\ scene' = Render(scene, locks')
  /\ UNCHANGED <<held, over>>

\* "Try again", or another location: the list renders anew.
ResetBoundary ==
  /\ scene = "failed"
  /\ scene' = Render("shown", locks)
  /\ UNCHANGED <<held, over, lockBus, locks>>

\* A full-pane view takes the place of the list, and gives it back.
LeaveList == scene = "shown" /\ scene' = "away" /\ UNCHANGED <<held, over, lockBus, locks>>

ReturnToList ==
  /\ scene = "away"
  /\ scene' = Render("shown", locks)
  /\ UNCHANGED <<held, over, lockBus, locks>>

LockMenuNext ==
  \/ DeliverLock \/ ResetBoundary \/ LeaveList \/ ReturnToList
  \/ \E o \in Op : FileContextMenu(o) \/ BackendOperation(o) \/ OperationEnds(o)

LockMenuSpec == LockMenuInit /\ [][LockMenuNext]_lockMenuVars

-----------------------------------------------------------------------------
(* Properties.                                                             *)

\* When every event has been delivered, the store holds the locks that were
\* announced and are held, and no other, however the events of operations on
\* one folder came in between: no command stays disabled for an operation that
\* is over.  (Locks that are never announced are not known, and a list that a
\* lock has thrown into its error boundary stays there until "Try again".)
QuietStoreMirrorsLocks ==
  lockBus = <<>> => {l.id : l \in locks} = held \cap Announced

\* "Lock-aware: `useLocks(scope)` disables items whose command ids appear in
\* `blockedActions`": while an announced operation is known to hold the
\* folder, the list is there, and its menu will not delete.
LockedItemsAreDisabled ==
  (lockBus = <<>> /\ scene # "away" /\ held \cap Announced # {})
    => (scene = "shown" /\ LockAwareItem("file.delete"))
=============================================================================
