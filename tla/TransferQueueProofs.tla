------------------------- MODULE TransferQueueProofs -------------------------
(***************************************************************************)
(* Proofs about the transfer queue, for any number of transfers, any       *)
(* widths of the semaphore and any number of changes of it.                *)
(*                                                                         *)
(* The argument: a task's stage determines what its record, its last event *)
(* and its notice say (TaskFits), and whether it has a permit; a live lock *)
(* is on the key of a task between taking and releasing it (LockFits), and *)
(* while no transfer outlasts its lock, every such task has one.  The      *)
(* registry excludes locks on one key, the permits are counted.            *)
(***************************************************************************)
EXTENDS TransferQueue, ResourceLocksProofs, FiniteSetTheorems

\* How the work of a transfer can end: the state and the error it records,
\* and what the task returns.
Outcome == {<<"done", None, None>>, <<"failed", "network", "network">>,
            <<"canceled", None, "cancelled">>}

\* Nothing but the stage so far.
Fresh(t, state) ==
  /\ transfers[t].state = state /\ transfers[t].error = None
  /\ task[t].result = None
  /\ told[t] = [event |-> state, notice |-> None]

TaskFits(t) ==
  /\ task[t].stage \in {"waiting", "starting"} => Fresh(t, "queued")
  /\ task[t].stage \in Working => Fresh(t, "running")
  /\ task[t].stage = "releasing" =>
       /\ <<transfers[t].state, transfers[t].error, task[t].result>> \in Outcome
       /\ told[t] = [event |-> transfers[t].state, notice |-> None]
  /\ task[t].stage = "returning" =>
       \/ /\ task[t].result = "locked"
          /\ transfers[t].state = "queued" /\ transfers[t].error = None
          /\ told[t] = [event |-> "queued", notice |-> None]
       \/ /\ <<transfers[t].state, transfers[t].error, task[t].result>> \in Outcome
          /\ told[t] = [event |-> transfers[t].state, notice |-> transfers[t].state]
  /\ task[t].stage = "finished" =>
       /\ transfers[t].error = task[t].result
       /\ transfers[t].state = IF task[t].result = None THEN "done" ELSE "failed"
       /\ told[t] = LastTold(task[t].result)

LEMMA LastToldIs ==
  /\ LastTold(None) = [event |-> "done", notice |-> "done"]
  /\ LastTold("network") = [event |-> "failed", notice |-> "failed"]
  /\ LastTold("cancelled") = [event |-> "canceled", notice |-> "canceled"]
  /\ LastTold("locked") = [event |-> "queued", notice |-> None]
BY ErrorAssumption DEF LastTold, Error

LockFits(t) ==
  /\ t \in registered
  /\ task[t].stage \in Working \cup {"releasing"}
  /\ locks[t].scope = KeyLock(t)

PermitsFit ==
  \A g \in DOMAIN semaphores : Cardinality(Holders(g)) <= semaphores[g]

\* Who works has the lock, as long as no transfer outlasts it.
LockLasts ==
  ~MayOutlast =>
    /\ \A id \in live : locks[id].age <= TTL
    /\ \A t \in registered : task[t].stage \in Working \cup {"releasing"} => t \in live

QueueInv ==
  /\ QueueTypeOK /\ IsFiniteSet(registered) /\ semaphores # <<>>
  /\ MutualExclusion
  /\ \A t \in registered : TaskFits(t)
  /\ \A t \in live : LockFits(t)
  /\ PermitsFit
  /\ LockLasts

(***************************************************************************)
(* A function with one more value.                                         *)
(***************************************************************************)
LEMMA OneMore ==
  ASSUME NEW f, NEW t, t \notin DOMAIN f, NEW v
  PROVE  /\ DOMAIN With(f, t, v) = DOMAIN f \cup {t}
         /\ With(f, t, v)[t] = v
         /\ \A x \in DOMAIN f : With(f, t, v)[x] = f[x]
  BY DEF With

(***************************************************************************)
(* The key of a transfer makes the scope of a lock.                        *)
(***************************************************************************)
LEMMA KeyLockIsScope ==
  ASSUME QueueTypeOK, NEW t \in registered
  PROVE  KeyLock(t) \in Scope
  BY TransferAssumption DEF QueueTypeOK, registered, KeyLock, KeyScope, Scope, Transfer

(***************************************************************************)
(* What a transfer does to the registry, the registry allows.              *)
(***************************************************************************)
LEMMA QueueStepIsRegistryStep ==
  ASSUME QueueTypeOK, [QueueNext]_vars
  PROVE  [Next]_lockVars
  <1>1. MaxAge \in Nat /\ 0 \in 0 .. MaxAge
    BY LockAssumption DEF MaxAge
  <1>2. registered \subseteq LockId
    BY TransferAssumption DEF QueueTypeOK, registered
  <1>3. ASSUME NEW t \in TransferId, NEW kind, NEW key, NEW o, Enqueue(t, kind, key, o)
        PROVE  UNCHANGED lockVars
    BY <1>3 DEF Enqueue
  <1>4. CASE \E t \in TransferId : TransferStart(t)
    BY <1>3, <1>4 DEF TransferStart
  <1>5. CASE \E t, o \in TransferId : TransferRetry(t, o)
    BY <1>3, <1>5 DEF TransferRetry
  <1>6. ASSUME NEW t \in registered, TransferCancel(t) \/ TakePermit(t) \/ TaskStep(t)
        PROVE  [Next]_lockVars
    <2>1. CASE Begin(t)
      BY <1>1, <1>2, <2>1, KeyLockIsScope DEF Begin, Next
    <2>2. CASE ReleaseAndNotify(t)
      BY <1>2, <2>2 DEF ReleaseAndNotify, Next
    <2>3. CASE ~Begin(t) /\ ~ReleaseAndNotify(t)
      BY <1>6, <2>3 DEF TransferCancel, TakePermit, TaskStep, LockRefused, Fail, SeeCancel,
                        PassLastPoll, Complete, Finish, Settle
    <2> QED
      BY <2>1, <2>2, <2>3
  <1>7. CASE \E c \in Caps : RebuildSemaphore(c)
    BY <1>7 DEF RebuildSemaphore
  <1>8. CASE ReapLocks
    BY <1>8 DEF ReapLocks, Next
  <1>9. CASE TimePasses
    BY <1>9 DEF TimePasses, Next
  <1>10. CASE UNCHANGED vars
    BY <1>10 DEF vars
  <1> QED
    BY <1>4, <1>5, <1>6, <1>7, <1>8, <1>9, <1>10 DEF QueueNext

LEMMA QueueInvInit == QueueInit => QueueInv
  <1> SUFFICES ASSUME QueueInit
               PROVE  QueueInv
    OBVIOUS
  <1>1. registered = {} /\ live = {} /\ TypeOK /\ MutualExclusion
    <2>1. Init /\ transfers = [t \in {} |-> {}]
      BY DEF QueueInit
    <2>2. live = {}
      BY <2>1 DEF Init, live
    <2> QED
      BY <2>1, <2>2, TypeInit DEF registered, MutualExclusion
  <1>2. PICK c \in Caps : semaphores = <<c>>
    BY DEF QueueInit
  <1>3. semaphores \in Seq(Caps) /\ DOMAIN semaphores = {1} /\ semaphores[1] = c
    BY <1>2
  <1>4. QueueTypeOK
    BY <1>1, <1>3 DEF QueueTypeOK, QueueInit, registered
  <1>5. IsFiniteSet(registered) /\ Cardinality({}) = 0
    BY <1>1, FS_EmptySet
  <1>6. PermitsFit
    <2>1. \A g : Holders(g) = {}
      BY <1>1 DEF Holders
    <2>2. \A g : Cardinality(Holders(g)) = 0
      BY <1>5, <2>1
    <2>3. c \in Nat
      BY TransferAssumption
    <2> QED
      BY <1>3, <2>2, <2>3 DEF PermitsFit
  <1> QED
    BY <1>1, <1>3, <1>4, <1>5, <1>6 DEF QueueInv, LockLasts

(***************************************************************************)
(* Permits.                                                                *)
(***************************************************************************)

\* Nobody new has a permit.
LEMMA SamePermits ==
  ASSUME QueueTypeOK, IsFiniteSet(registered), PermitsFit,
         semaphores' = semaphores,
         \A g \in DOMAIN semaphores : Holders(g)' \subseteq Holders(g)
  PROVE  PermitsFit'
  <1> SUFFICES ASSUME NEW g \in DOMAIN semaphores
               PROVE  Cardinality(Holders(g)') <= semaphores[g]
    BY DEF PermitsFit
  <1>1. IsFiniteSet(Holders(g))
    BY FS_Subset DEF Holders
  <1>2. Cardinality(Holders(g)') <= Cardinality(Holders(g)) /\ IsFiniteSet(Holders(g)')
    BY <1>1, FS_Subset
  <1>3. Cardinality(Holders(g)) \in Nat /\ Cardinality(Holders(g)') \in Nat
    BY <1>1, <1>2, FS_CardinalityType
  <1>4. semaphores[g] \in Nat
    BY TransferAssumption DEF QueueTypeOK
  <1> QED
    BY <1>2, <1>3, <1>4 DEF PermitsFit

(***************************************************************************)
(* Preservation.                                                           *)
(***************************************************************************)

\* What every step leaves to show: the registry's part is known.
LEMMA RegistryPart ==
  ASSUME QueueInv, [QueueNext]_vars
  PROVE  TypeOK' /\ MutualExclusion'
  <1>1. [Next]_lockVars
    BY QueueStepIsRegistryStep DEF QueueInv
  <1> QED
    BY <1>1, TypeStep, ExclusionStep DEF QueueInv, QueueTypeOK

\* One task goes on, and touches no lock: its stage stays on the same side
\* of taking and giving back the permit and the lock.
LEMMA TaskGoesOn ==
  ASSUME QueueInv, TypeOK', MutualExclusion', NEW t \in registered,
         NEW next \in Task, NEW record \in Transfer, NEW tell,
         tell \in [event : State, notice : Terminal \cup {None}],
         transfers' = [transfers EXCEPT ![t] = record],
         task' = [task EXCEPT ![t] = next],
         told' = [told EXCEPT ![t] = tell],
         record.key = transfers[t].key, next.sem = task[t].sem,
         next.stage \notin {"waiting"}, task[t].stage # "finished",
         task[t].stage = "waiting" => next.stage = "finished",
         (next.stage \in Working \cup {"releasing"}) <=> (task[t].stage \in Working \cup {"releasing"}),
         TaskFits(t)',
         tokens' \subseteq tokens, signals' \subseteq signals,
         UNCHANGED <<lockVars, semaphores>>
  PROVE  QueueInv'
  <1>1. registered' = registered
    BY DEF QueueInv, QueueTypeOK, registered
  <1>2. \A u \in registered : u # t =>
          transfers'[u] = transfers[u] /\ task'[u] = task[u] /\ told'[u] = told[u]
    BY DEF QueueInv, QueueTypeOK, registered
  <1>3. transfers'[t] = record /\ task'[t] = next /\ told'[t] = tell
    BY DEF QueueInv, QueueTypeOK, registered
  <1>4. QueueTypeOK'
    BY <1>1 DEF QueueInv, QueueTypeOK, registered
  <1>5. \A u \in registered' : TaskFits(u)'
    <2> SUFFICES ASSUME NEW u \in registered, u # t
                 PROVE  TaskFits(u)'
      BY <1>1
    <2>1. TaskFits(u)
      BY DEF QueueInv
    <2> QED
      BY <1>2, <2>1 DEF TaskFits, Fresh
  <1>6. live' = live /\ locks' = locks
    BY DEF lockVars, live
  <1>7. \A u \in live' : LockFits(u)'
    BY <1>1, <1>2, <1>3, <1>6 DEF QueueInv, LockFits, KeyLock, KeyScope
  <1>8. PermitsFit'
    <2>1. \A g \in DOMAIN semaphores : Holders(g)' \subseteq Holders(g)
      BY <1>1, <1>2, <1>3 DEF Holders, HasPermit
    <2> QED
      BY <2>1, SamePermits DEF QueueInv
  <1>9. LockLasts'
    BY <1>1, <1>2, <1>3, <1>6 DEF QueueInv, LockLasts
  <1> QED
    BY <1>1, <1>4, <1>5, <1>7, <1>8, <1>9 DEF QueueInv

\* A new transfer, at the end of the queue.
LEMMA EnqueueKeepsInv ==
  ASSUME QueueInv, TypeOK', MutualExclusion', NEW t \in TransferId, NEW kind \in Kind,
         NEW key \in Key, NEW origin \in TransferId \cup {None}, Enqueue(t, kind, key, origin)
  PROVE  QueueInv'
  <1> DEFINE new == [kind |-> kind, key |-> key, origin |-> origin, state |-> "queued", error |-> None]
  <1>1. /\ t \notin registered /\ registered' = registered \cup {t}
        /\ transfers'[t] = new
        /\ task'[t] = [stage |-> "waiting", sem |-> Len(semaphores), result |-> None]
        /\ told'[t] = [event |-> "queued", notice |-> None]
    BY DEF Enqueue, With, registered, QueueInv, QueueTypeOK
  <1>2. \A u \in registered :
          transfers'[u] = transfers[u] /\ task'[u] = task[u] /\ told'[u] = told[u]
    BY <1>1 DEF Enqueue, With, registered, QueueInv, QueueTypeOK
  <1>3. live' = live /\ locks' = locks /\ semaphores' = semaphores
    BY DEF Enqueue, lockVars, live
  <1>4. QueueTypeOK'
    <2>1. Len(semaphores) \in DOMAIN semaphores /\ Len(semaphores) \in Nat
      BY DEF QueueInv, QueueTypeOK
    <2>2. transfers' \in [registered' -> Transfer]
      <3>1. transfers' = [u \in registered' |-> IF u = t THEN new ELSE transfers[u]]
        BY <1>1 DEF Enqueue, With, registered
      <3>2. new \in Transfer
        BY DEF Transfer, State
      <3> HIDE DEF new
      <3> QED
        BY <1>1, <3>1, <3>2 DEF QueueInv, QueueTypeOK, registered
    <2>3. task' \in [registered' -> Task]
      BY <1>1, <2>1 DEF Enqueue, With, QueueInv, QueueTypeOK, registered, Task, Stage
    <2>4. told' \in [registered' -> [event : State, notice : Terminal \cup {None}]]
      BY <1>1 DEF Enqueue, With, QueueInv, QueueTypeOK, registered, State
    <2>5. \A u \in registered' : task'[u].sem \in DOMAIN semaphores
      BY <1>1, <1>2, <2>1 DEF QueueInv, QueueTypeOK, registered
    <2>6. tokens' \subseteq registered' /\ signals' \subseteq registered' /\ registered' \subseteq TransferId
      BY <1>1 DEF Enqueue, QueueInv, QueueTypeOK, registered
    <2> QED
      BY <1>3, <2>2, <2>3, <2>4, <2>5, <2>6 DEF QueueInv, QueueTypeOK, registered
  <1>5. IsFiniteSet(registered')
    BY <1>1, FS_AddElement DEF QueueInv
  <1>6. \A u \in registered' : TaskFits(u)'
    <2>1. TaskFits(t)'
      BY <1>1 DEF TaskFits, Fresh, Working
    <2>2. ASSUME NEW u \in registered
          PROVE  TaskFits(u)'
      <3>1. TaskFits(u)
        BY DEF QueueInv
      <3> QED
        BY <1>2, <3>1 DEF TaskFits, Fresh
    <2> QED
      BY <1>1, <2>1, <2>2
  <1>7. \A u \in live' : LockFits(u)'
    BY <1>1, <1>2, <1>3 DEF QueueInv, LockFits, KeyLock, KeyScope
  <1>8. PermitsFit'
    <2>1. \A g \in DOMAIN semaphores : Holders(g)' \subseteq Holders(g)
      BY <1>1, <1>2 DEF Holders, HasPermit
    <2> QED
      BY <1>3, <2>1, SamePermits DEF QueueInv
  <1>9. LockLasts'
    BY <1>1, <1>2, <1>3 DEF QueueInv, LockLasts, Working
  <1> QED
    BY <1>3, <1>4, <1>5, <1>6, <1>7, <1>8, <1>9 DEF QueueInv

LEMMA TakePermitKeepsInv ==
  ASSUME QueueInv, TypeOK', MutualExclusion', NEW t \in registered, TakePermit(t)
  PROVE  QueueInv'
  <1> DEFINE g == task[t].sem
  <1>1. registered' = registered /\ transfers' = transfers /\ told' = told /\ semaphores' = semaphores
    BY DEF TakePermit, registered
  <1>2. \A u \in registered : u # t => task'[u] = task[u]
    BY DEF TakePermit, GoTo, QueueInv, QueueTypeOK, registered
  <1>3. task'[t] = [task[t] EXCEPT !.stage = "starting"] /\ task[t] \in Task /\ task[t].stage = "waiting"
    BY DEF TakePermit, GoTo, QueueInv, QueueTypeOK, registered
  <1>4. live' = live /\ locks' = locks
    BY DEF TakePermit, lockVars, live
  <1>5. QueueTypeOK'
    BY <1>1, <1>2, <1>3 DEF TakePermit, GoTo, QueueInv, QueueTypeOK, registered, Task, Stage
  <1>6. \A u \in registered' : TaskFits(u)'
    <2>1. TaskFits(t)'
      BY <1>1, <1>3 DEF QueueInv, TaskFits, Fresh, Task, Working
    <2>2. ASSUME NEW u \in registered, u # t
          PROVE  TaskFits(u)'
      <3>1. TaskFits(u)
        BY DEF QueueInv
      <3> QED
        BY <1>1, <1>2, <2>2, <3>1 DEF TaskFits, Fresh
    <2> QED
      BY <1>1, <2>1, <2>2
  <1>7. \A u \in live' : LockFits(u)'
    BY <1>1, <1>2, <1>3, <1>4 DEF QueueInv, LockFits, KeyLock, KeyScope, Task, Working
  <1>8. PermitsFit'
    <2> SUFFICES ASSUME NEW h \in DOMAIN semaphores
                 PROVE  Cardinality(Holders(h)') <= semaphores[h]
      BY <1>1 DEF PermitsFit
    <2>1. IsFiniteSet(Holders(h)) /\ Cardinality(Holders(h)) \in Nat /\ semaphores[h] \in Nat
      <3>1. IsFiniteSet(Holders(h))
        BY FS_Subset DEF QueueInv, Holders
      <3> QED
        BY <3>1, FS_CardinalityType, TransferAssumption DEF QueueInv, QueueTypeOK
    <2>2. CASE h = g
      <3>1. Holders(h)' = Holders(h) \cup {t} /\ t \notin Holders(h)
        BY <1>1, <1>2, <1>3, <2>2 DEF Holders, HasPermit, Task
      <3>2. Cardinality(Holders(h) \cup {t}) = Cardinality(Holders(h)) + 1
        BY <2>1, <3>1, FS_AddElement
      <3>3. Cardinality(Holders(h)) < semaphores[h]
        BY <2>2 DEF TakePermit
      <3> QED
        BY <2>1, <3>1, <3>2, <3>3
    <2>3. CASE h # g
      <3>1. Holders(h)' = Holders(h)
        BY <1>1, <1>2, <1>3, <2>3 DEF Holders, HasPermit, Task
      <3> QED
        BY <3>1 DEF QueueInv, PermitsFit
    <2> QED
      BY <2>2, <2>3
  <1>9. LockLasts'
    BY <1>1, <1>2, <1>3, <1>4 DEF QueueInv, LockLasts, Task, Working
  <1> QED
    BY <1>1, <1>5, <1>6, <1>7, <1>8, <1>9 DEF QueueInv

LEMMA LockRefusedKeepsInv ==
  ASSUME QueueInv, TypeOK', MutualExclusion', NEW t \in registered, LockRefused(t)
  PROVE  QueueInv'
  <1> DEFINE next == [task[t] EXCEPT !.stage = "returning", !.result = "locked"]
  <1>1. /\ task[t] \in Task /\ task[t].stage = "starting" /\ TaskFits(t)
        /\ transfers[t] \in Transfer /\ told[t] \in [event : State, notice : Terminal \cup {None}]
    BY DEF LockRefused, QueueInv, QueueTypeOK, registered
  <1>2. /\ task' = [task EXCEPT ![t] = next]
        /\ transfers' = [transfers EXCEPT ![t] = transfers[t]]
        /\ told' = [told EXCEPT ![t] = told[t]]
    BY DEF LockRefused, QueueInv, QueueTypeOK, registered
  <1>3. /\ next \in Task /\ next.stage = "returning" /\ next.result = "locked"
        /\ next.sem = task[t].sem
    BY <1>1 DEF Task, Stage, Error
  <1>4. transfers' = transfers /\ told' = told /\ task'[t] = next
    BY <1>2 DEF LockRefused, QueueInv, QueueTypeOK, registered
  <1>5. TaskFits(t)'
    BY <1>1, <1>3, <1>4 DEF TaskFits, Fresh, Working
  <1> HIDE DEF next
  <1>6. /\ ~(task[t].stage \in Working \cup {"releasing"}) /\ task[t].stage \notin {"waiting", "finished"}
        /\ ~(next.stage \in Working \cup {"releasing"}) /\ next.stage \notin {"waiting"}
    BY <1>1, <1>3 DEF Working
  <1>7. UNCHANGED <<lockVars, tokens, signals, semaphores>>
    BY DEF LockRefused
  <1> QED
    BY <1>1, <1>2, <1>3, <1>5, <1>6, <1>7, TaskGoesOn

\* A poll finds no signal.
LEMMA PassLastPollKeepsInv ==
  ASSUME QueueInv, TypeOK', MutualExclusion', NEW t \in registered, PassLastPoll(t)
  PROVE  QueueInv'
  <1> DEFINE next == [task[t] EXCEPT !.stage = "renaming"]
  <1>1. /\ task[t] \in Task /\ task[t].stage = "streaming" /\ TaskFits(t)
        /\ transfers[t] \in Transfer /\ told[t] \in [event : State, notice : Terminal \cup {None}]
    BY DEF PassLastPoll, QueueInv, QueueTypeOK, registered
  <1>2. /\ task' = [task EXCEPT ![t] = next]
        /\ transfers' = [transfers EXCEPT ![t] = transfers[t]]
        /\ told' = [told EXCEPT ![t] = told[t]]
    BY DEF PassLastPoll, GoTo, QueueInv, QueueTypeOK, registered
  <1>3. /\ next \in Task /\ next.stage = "renaming" /\ next.result = task[t].result
        /\ next.sem = task[t].sem
    BY <1>1 DEF Task, Stage, Working
  <1>4. transfers' = transfers /\ told' = told /\ task'[t] = next
    BY <1>2 DEF PassLastPoll, QueueInv, QueueTypeOK, registered
  <1>5. TaskFits(t)'
    BY <1>1, <1>3, <1>4 DEF TaskFits, Fresh, Working
  <1> HIDE DEF next
  <1>6. /\ task[t].stage \in Working \cup {"releasing"} /\ task[t].stage \notin {"waiting", "finished"}
        /\ next.stage \in Working \cup {"releasing"} /\ next.stage \notin {"waiting"}
    BY <1>1, <1>3 DEF Working
  <1>7. UNCHANGED <<lockVars, tokens, signals, semaphores>>
    BY DEF PassLastPoll
  <1> QED
    BY <1>1, <1>2, <1>3, <1>5, <1>6, <1>7, TaskGoesOn

\* The three ways the work can end.
LEMMA SettleKeepsInv ==
  ASSUME QueueInv, TypeOK', MutualExclusion', NEW t \in registered,
         task[t].stage \in Working,
         NEW state, NEW error, NEW result, <<state, error, result>> \in Outcome,
         Settle(t, state, error, result), signals' \subseteq signals
  PROVE  QueueInv'
  <1> DEFINE next == [task[t] EXCEPT !.stage = "releasing", !.result = result]
             record == [transfers[t] EXCEPT !.state = state, !.error = error]
             tell == [told[t] EXCEPT !.event = state]
  <1>0. /\ state \in Terminal /\ error \in Error \cup {None} /\ result \in Error \cup {None}
        /\ state \in State
    BY DEF Outcome, Terminal, Error, State
  <1>1. /\ task[t] \in Task /\ TaskFits(t)
        /\ transfers[t] \in Transfer /\ told[t] \in [event : State, notice : Terminal \cup {None}]
    BY DEF QueueInv, QueueTypeOK, registered
  <1>2. /\ task' = [task EXCEPT ![t] = next]
        /\ transfers' = [transfers EXCEPT ![t] = record]
        /\ told' = [told EXCEPT ![t] = tell]
    BY DEF Settle, QueueInv, QueueTypeOK, registered
  <1>3. /\ next \in Task /\ next.stage = "releasing" /\ next.result = result
        /\ next.sem = task[t].sem
    BY <1>0, <1>1 DEF Task, Stage
  <1>4. /\ record \in Transfer /\ record.state = state /\ record.error = error
        /\ record.key = transfers[t].key
    BY <1>0, <1>1 DEF Transfer
  <1>5. /\ tell \in [event : State, notice : Terminal \cup {None}]
        /\ tell.event = state /\ tell.notice = told[t].notice
    BY <1>0, <1>1
  <1>6. transfers'[t] = record /\ told'[t] = tell /\ task'[t] = next
    BY <1>2 DEF QueueInv, QueueTypeOK, registered
  <1>7. told[t].notice = None
    BY <1>1 DEF TaskFits, Fresh, Working
  <1>8. tell = [event |-> state, notice |-> None]
    BY <1>5, <1>7
  <1> HIDE DEF next, record, tell
  <1>9. TaskFits(t)'
    BY <1>3, <1>4, <1>6, <1>8 DEF TaskFits, Fresh, Working
  <1>10. /\ task[t].stage \in Working \cup {"releasing"} /\ task[t].stage \notin {"waiting", "finished"}
         /\ next.stage \in Working \cup {"releasing"} /\ next.stage \notin {"waiting"}
    BY <1>3 DEF Working
  <1>11. UNCHANGED <<lockVars, tokens, semaphores>>
    BY DEF Settle
  <1> QED
    BY <1>1, <1>2, <1>3, <1>4, <1>5, <1>9, <1>10, <1>11, TaskGoesOn

\* The wrapper gives the permit back.
LEMMA FinishKeepsInv ==
  ASSUME QueueInv, TypeOK', MutualExclusion', NEW t \in registered, Finish(t)
  PROVE  QueueInv'
  <1> DEFINE next == [task[t] EXCEPT !.stage = "finished"]
             record == IF task[t].result = None THEN transfers[t]
                       ELSE [transfers[t] EXCEPT !.state = "failed", !.error = task[t].result]
  <1>1. /\ task[t] \in Task /\ task[t].stage = "returning" /\ TaskFits(t)
        /\ transfers[t] \in Transfer /\ told[t] \in [event : State, notice : Terminal \cup {None}]
    BY DEF Finish, QueueInv, QueueTypeOK, registered
  <1>2. /\ task' = [task EXCEPT ![t] = next]
        /\ transfers' = [transfers EXCEPT ![t] = record]
        /\ told' = [told EXCEPT ![t] = told[t]]
    BY DEF Finish, GoTo, QueueInv, QueueTypeOK, registered
  <1>3. /\ next \in Task /\ next.stage = "finished" /\ next.result = task[t].result
        /\ next.sem = task[t].sem
    BY <1>1 DEF Task, Stage
  <1>4. /\ record \in Transfer /\ record.key = transfers[t].key
        /\ task[t].result = None => record = transfers[t]
        /\ task[t].result # None => record.state = "failed" /\ record.error = task[t].result
    BY <1>1 DEF Transfer, Task, State, Terminal
  <1>5. transfers'[t] = record /\ told'[t] = told[t] /\ task'[t] = next
    BY <1>2 DEF Finish, QueueInv, QueueTypeOK, registered
  <1> HIDE DEF next, record
  <1>6. TaskFits(t)'
    <2>1. told[t] = LastTold(task[t].result)
      BY <1>1, LastToldIs DEF TaskFits, Outcome
    <2>2. transfers'[t].error = next.result
      BY <1>1, <1>3, <1>4, <1>5, ErrorAssumption DEF TaskFits, Outcome, Error
    <2>3. transfers'[t].state = IF next.result = None THEN "done" ELSE "failed"
      BY <1>1, <1>3, <1>4, <1>5, ErrorAssumption DEF TaskFits, Outcome, Error
    <2> QED
      BY <1>3, <1>5, <2>1, <2>2, <2>3 DEF TaskFits, Fresh, Working
  <1> QED
    BY <1>1, <1>2, <1>3, <1>4, <1>6, TaskGoesOn DEF Finish, Working

\* The lock of a task that begins is on its key, and is young.
LEMMA BeginKeepsInv ==
  ASSUME QueueInv, TypeOK', MutualExclusion', NEW t \in registered, Begin(t)
  PROVE  QueueInv'
  <1> DEFINE next == [task[t] EXCEPT !.stage = IF transfers[t].kind = "download" THEN "streaming" ELSE "sending"]
             record == [transfers[t] EXCEPT !.state = "running"]
             tell == [told[t] EXCEPT !.event = "running"]
  <1>1. /\ task[t] \in Task /\ task[t].stage = "starting" /\ TaskFits(t)
        /\ transfers[t] \in Transfer /\ told[t] \in [event : State, notice : Terminal \cup {None}]
    BY DEF Begin, QueueInv, QueueTypeOK, registered
  <1>2. /\ task' = [task EXCEPT ![t] = next]
        /\ transfers' = [transfers EXCEPT ![t] = record]
        /\ told' = [told EXCEPT ![t] = tell]
        /\ tokens' = tokens /\ signals' = signals /\ semaphores' = semaphores
    BY DEF Begin, GoTo, QueueInv, QueueTypeOK, registered
  <1>3. /\ next \in Task /\ next.stage \in Working /\ next.result = task[t].result
        /\ next.sem = task[t].sem
    BY <1>1 DEF Task, Stage, Working
  <1>4. /\ record \in Transfer /\ record.state = "running" /\ record.error = transfers[t].error
        /\ record.key = transfers[t].key
    BY <1>1 DEF Transfer, State
  <1>5. tell \in [event : State, notice : Terminal \cup {None}]
    BY <1>1 DEF State
  <1>6. tell = [event |-> "running", notice |-> None]
    BY <1>1 DEF TaskFits, Fresh
  <1>7. registered' = registered
    BY <1>2 DEF QueueInv, QueueTypeOK, registered
  <1>8. transfers'[t] = record /\ told'[t] = tell /\ task'[t] = next
    BY <1>2 DEF QueueInv, QueueTypeOK, registered
  <1>9. \A u \in registered : u # t =>
          transfers'[u] = transfers[u] /\ task'[u] = task[u] /\ told'[u] = told[u]
    BY <1>2 DEF QueueInv, QueueTypeOK, registered
  <1>10. /\ live' = live \cup {t} /\ locks'[t] = [scope |-> KeyLock(t), age |-> 0]
         /\ \A u \in live : u # t /\ locks'[u] = locks[u]
    BY DEF Begin, Acquire, With, live, QueueInv, QueueTypeOK, TypeOK
  <1> HIDE DEF next, record, tell
  <1>11. QueueTypeOK'
    BY <1>2, <1>3, <1>4, <1>5, <1>7, <1>8, <1>9 DEF QueueInv, QueueTypeOK, registered
  <1>12. \A u \in registered' : TaskFits(u)'
    <2>1. TaskFits(t)'
      BY <1>1, <1>3, <1>4, <1>6, <1>8 DEF TaskFits, Fresh, Working
    <2>2. ASSUME NEW u \in registered, u # t
          PROVE  TaskFits(u)'
      <3>1. TaskFits(u)
        BY DEF QueueInv
      <3> QED
        BY <1>9, <2>2, <3>1 DEF TaskFits, Fresh
    <2> QED
      BY <1>7, <2>1, <2>2
  <1>13. \A u \in live' : LockFits(u)'
    <2>1. LockFits(t)'
      BY <1>3, <1>4, <1>7, <1>8, <1>10 DEF LockFits, KeyLock, KeyScope
    <2>2. ASSUME NEW u \in live
          PROVE  LockFits(u)'
      <3>1. LockFits(u)
        BY DEF QueueInv
      <3> QED
        BY <1>7, <1>9, <1>10, <3>1 DEF LockFits, KeyLock, KeyScope
    <2> QED
      BY <1>10, <2>1, <2>2
  <1>14. PermitsFit'
    <2>1. \A g \in DOMAIN semaphores : Holders(g)' \subseteq Holders(g)
      BY <1>1, <1>3, <1>7, <1>8, <1>9 DEF Holders, HasPermit
    <2> QED
      BY <1>2, <2>1, SamePermits DEF QueueInv
  <1>15. LockLasts'
    <2>1. 0 <= TTL
      BY LockAssumption
    <2> QED
      BY <1>7, <1>8, <1>9, <1>10, <2>1 DEF QueueInv, LockLasts
  <1> QED
    BY <1>2, <1>7, <1>11, <1>12, <1>13, <1>14, <1>15 DEF QueueInv

\* The lock goes back, and the task says how it ended.
LEMMA ReleaseKeepsInv ==
  ASSUME QueueInv, TypeOK', MutualExclusion', NEW t \in registered, ReleaseAndNotify(t)
  PROVE  QueueInv'
  <1> DEFINE next == [task[t] EXCEPT !.stage = "returning"]
             tell == [told[t] EXCEPT !.notice = transfers[t].state]
  <1>1. /\ task[t] \in Task /\ task[t].stage = "releasing" /\ TaskFits(t)
        /\ transfers[t] \in Transfer /\ told[t] \in [event : State, notice : Terminal \cup {None}]
    BY DEF ReleaseAndNotify, QueueInv, QueueTypeOK, registered
  <1>2. /\ task' = [task EXCEPT ![t] = next]
        /\ told' = [told EXCEPT ![t] = tell]
        /\ transfers' = transfers
        /\ tokens' = tokens /\ signals' = signals /\ semaphores' = semaphores
    BY DEF ReleaseAndNotify, GoTo, QueueInv, QueueTypeOK, registered
  <1>3. /\ next \in Task /\ next.stage = "returning" /\ next.result = task[t].result
        /\ next.sem = task[t].sem
    BY <1>1 DEF Task, Stage
  <1>4. <<transfers[t].state, transfers[t].error, task[t].result>> \in Outcome
    BY <1>1 DEF TaskFits
  <1>5. transfers[t].state \in Terminal /\ told[t] = [event |-> transfers[t].state, notice |-> None]
    BY <1>1, <1>4 DEF TaskFits, Outcome, Terminal
  <1>6. tell = [event |-> transfers[t].state, notice |-> transfers[t].state]
    BY <1>5
  <1>7. registered' = registered
    BY <1>2 DEF QueueInv, QueueTypeOK, registered
  <1>8. told'[t] = tell /\ task'[t] = next
    BY <1>2 DEF QueueInv, QueueTypeOK, registered
  <1>9. \A u \in registered : u # t => task'[u] = task[u] /\ told'[u] = told[u]
    BY <1>2 DEF QueueInv, QueueTypeOK, registered
  <1>10. live' = live \ {t} /\ \A u \in live \ {t} : locks'[u] = locks[u]
    BY DEF ReleaseAndNotify, Release, Without, live, lockVars
  <1> HIDE DEF next, tell
  <1>11. QueueTypeOK'
    <2>1. tell \in [event : State, notice : Terminal \cup {None}]
      BY <1>5, <1>6 DEF State
    <2> QED
      BY <1>2, <1>3, <1>7, <1>8, <1>9, <2>1 DEF QueueInv, QueueTypeOK, registered
  <1>12. \A u \in registered' : TaskFits(u)'
    <2>1. TaskFits(t)'
      BY <1>2, <1>3, <1>4, <1>6, <1>8 DEF TaskFits, Fresh, Working
    <2>2. ASSUME NEW u \in registered, u # t
          PROVE  TaskFits(u)'
      <3>1. TaskFits(u)
        BY DEF QueueInv
      <3> QED
        BY <1>2, <1>9, <2>2, <3>1 DEF TaskFits, Fresh
    <2> QED
      BY <1>7, <2>1, <2>2
  <1>13. \A u \in live' : LockFits(u)'
    BY <1>2, <1>7, <1>9, <1>10 DEF QueueInv, LockFits, KeyLock, KeyScope
  <1>14. PermitsFit'
    <2>1. \A g \in DOMAIN semaphores : Holders(g)' \subseteq Holders(g)
      BY <1>1, <1>3, <1>7, <1>8, <1>9 DEF Holders, HasPermit
    <2> QED
      BY <1>2, <2>1, SamePermits DEF QueueInv
  <1>15. LockLasts'
    BY <1>3, <1>7, <1>8, <1>9, <1>10 DEF QueueInv, LockLasts, Working
  <1> QED
    BY <1>2, <1>7, <1>11, <1>12, <1>13, <1>14, <1>15 DEF QueueInv

\* A cancel signal changes no task.
LEMMA CancelKeepsInv ==
  ASSUME QueueInv, TypeOK', MutualExclusion', NEW t \in registered, TransferCancel(t)
  PROVE  QueueInv'
  <1>1. UNCHANGED <<transfers, task, semaphores, told, locks, issued>>
    BY DEF TransferCancel, lockVars
  <1>2. tokens' \subseteq tokens /\ signals' \subseteq signals \cup {t}
    BY DEF TransferCancel
  <1>3. QueueTypeOK'
    BY <1>1, <1>2 DEF QueueInv, QueueTypeOK, registered
  <1>4. \A u \in registered : TaskFits(u)'
    BY <1>1 DEF QueueInv, TaskFits, Fresh
  <1>5. \A u \in live' : LockFits(u)'
    BY <1>1 DEF QueueInv, LockFits, KeyLock, KeyScope, live, registered
  <1>6. PermitsFit'
    <2>1. \A g \in DOMAIN semaphores : Holders(g)' \subseteq Holders(g)
      BY <1>1 DEF Holders, HasPermit, registered
    <2> QED
      BY <1>1, <2>1, SamePermits DEF QueueInv
  <1>7. LockLasts'
    BY <1>1 DEF QueueInv, LockLasts, live, registered
  <1> QED
    BY <1>1, <1>3, <1>4, <1>5, <1>6, <1>7 DEF QueueInv, registered

\* The new semaphore has no waiters and no permits out; the old ones stay.
LEMMA RebuildKeepsInv ==
  ASSUME QueueInv, TypeOK', MutualExclusion', NEW c \in Caps, RebuildSemaphore(c)
  PROVE  QueueInv'
  <1>0. PICK n : n = Len(semaphores) + 1
    OBVIOUS
  <1>1. UNCHANGED <<transfers, tokens, signals, task, told, locks, issued>>
    BY DEF RebuildSemaphore, lockVars
  <1>2. /\ semaphores' \in Seq(Caps) /\ semaphores' # <<>>
        /\ DOMAIN semaphores' = DOMAIN semaphores \cup {n} /\ n \notin DOMAIN semaphores
        /\ semaphores'[n] = c
        /\ \A g \in DOMAIN semaphores : semaphores'[g] = semaphores[g]
    BY <1>0 DEF RebuildSemaphore, QueueInv, QueueTypeOK
  <1>3. QueueTypeOK'
    BY <1>1, <1>2 DEF QueueInv, QueueTypeOK, registered
  <1>4. \A u \in registered : TaskFits(u)'
    BY <1>1 DEF QueueInv, TaskFits, Fresh
  <1>5. \A u \in live' : LockFits(u)'
    BY <1>1 DEF QueueInv, LockFits, KeyLock, KeyScope, live, registered
  <1>6. PermitsFit'
    <2>1. ASSUME NEW g \in DOMAIN semaphores
          PROVE  Cardinality(Holders(g)') <= semaphores'[g]
      <3>1. Holders(g)' = Holders(g)
        BY <1>1 DEF Holders, HasPermit, registered
      <3> QED
        BY <1>2, <3>1 DEF QueueInv, PermitsFit
    <2>2. Holders(n)' = {}
      BY <1>1, <1>2 DEF Holders, HasPermit, registered, QueueInv, QueueTypeOK
    <2>3. Cardinality(Holders(n)') = 0 /\ c \in Nat
      BY <2>2, FS_EmptySet, TransferAssumption
    <2>4. Cardinality(Holders(n)') <= semaphores'[n]
      BY <1>2, <2>3
    <2>5. \A g \in DOMAIN semaphores \cup {n} : Cardinality(Holders(g)') <= semaphores'[g]
      BY <2>1, <2>4
    <2> QED
      BY <1>2, <2>5 DEF PermitsFit
  <1>7. LockLasts'
    BY <1>1 DEF QueueInv, LockLasts, live, registered
  <1> QED
    BY <1>1, <1>2, <1>3, <1>4, <1>5, <1>6, <1>7 DEF QueueInv, registered

\* Time makes locks older, and the loop removes old ones.
LEMMA LockTimeKeepsInv ==
  ASSUME QueueInv, TypeOK', MutualExclusion', ReapLocks \/ TimePasses
  PROVE  QueueInv'
  <1>1. UNCHANGED <<transfers, tokens, signals, task, semaphores, told>>
    BY DEF ReapLocks, TimePasses, queueVars
  <1>2. QueueTypeOK'
    BY <1>1 DEF QueueInv, QueueTypeOK, registered
  <1>3. \A u \in registered : TaskFits(u)'
    BY <1>1 DEF QueueInv, TaskFits, Fresh
  <1>4. \A l \in Lock : Older(l).scope = l.scope /\ (l.age < TTL => Older(l).age <= TTL)
    BY LockAssumption DEF Older, Lock, MaxAge
  <1>5. \A id \in live : locks[id] \in Lock
    BY DEF QueueInv, QueueTypeOK, TypeOK
  <1>6. live' \subseteq live /\ \A id \in live' : locks'[id].scope = locks[id].scope
    <2>1. CASE ReapLocks
      BY <2>1 DEF ReapLocks, ReleaseStale, Without, live
    <2>2. CASE TimePasses
      BY <1>4, <1>5, <2>2 DEF TimePasses, Tick, live
    <2> QED
      BY <2>1, <2>2
  <1>7. \A u \in live' : LockFits(u)'
    BY <1>1, <1>6 DEF QueueInv, LockFits, KeyLock, KeyScope, registered
  <1>8. PermitsFit'
    <2>1. \A g \in DOMAIN semaphores : Holders(g)' \subseteq Holders(g)
      BY <1>1 DEF Holders, HasPermit, registered
    <2> QED
      BY <1>1, <2>1, SamePermits DEF QueueInv
  <1>9. LockLasts'
    <2> SUFFICES ASSUME ~MayOutlast
                 PROVE  /\ \A id \in live' : locks'[id].age <= TTL
                        /\ \A t \in registered :
                             task[t].stage \in Working \cup {"releasing"} => t \in live'
      BY <1>1 DEF LockLasts, registered
    <2>1. \A id \in live : locks[id].age <= TTL /\ locks[id].age \in Nat
      BY <1>5, LockAssumption DEF QueueInv, LockLasts, Lock, MaxAge
    <2>2. TimePasses
      BY <2>1, LockAssumption DEF ReapLocks, ReleaseStale, Stale
    <2>3. live' = live /\ \A id \in live : locks[id].age < TTL /\ locks'[id] = Older(locks[id])
      BY <2>2 DEF TimePasses, Tick, live
    <2> QED
      BY <1>4, <1>5, <2>3 DEF QueueInv, LockLasts
  <1> QED
    BY <1>1, <1>2, <1>3, <1>7, <1>8, <1>9 DEF QueueInv, registered

LEMMA QueueInvStep == QueueInv /\ [QueueNext]_vars => QueueInv'
  <1> SUFFICES ASSUME QueueInv, [QueueNext]_vars
               PROVE  QueueInv'
    OBVIOUS
  <1>0. TypeOK' /\ MutualExclusion'
    BY RegistryPart
  <1>1. ASSUME NEW t \in TransferId, TransferStart(t)
        PROVE  QueueInv'
    BY <1>0, <1>1, EnqueueKeepsInv DEF TransferStart
  <1>2. ASSUME NEW t \in TransferId, NEW o \in TransferId, TransferRetry(t, o)
        PROVE  QueueInv'
    <2>1. transfers[o].kind \in Kind /\ transfers[o].key \in Key
      BY <1>2 DEF TransferRetry, QueueInv, QueueTypeOK, registered, Transfer
    <2> QED
      BY <1>0, <1>2, <2>1, EnqueueKeepsInv DEF TransferRetry
  <1>3. ASSUME NEW t \in registered, TransferCancel(t)
        PROVE  QueueInv'
    BY <1>0, <1>3, CancelKeepsInv
  <1>4. ASSUME NEW t \in registered, TakePermit(t)
        PROVE  QueueInv'
    BY <1>0, <1>4, TakePermitKeepsInv
  <1>5. ASSUME NEW t \in registered, TaskStep(t)
        PROVE  QueueInv'
    <2>1. CASE Fail(t)
      <3>1. <<"failed", "network", "network">> \in Outcome
        BY DEF Outcome
      <3> QED
        BY <1>0, <2>1, <3>1, SettleKeepsInv DEF Fail
    <2>2. CASE SeeCancel(t)
      <3>1. <<"canceled", None, "cancelled">> \in Outcome /\ task[t].stage \in Working
        BY <2>2 DEF Outcome, SeeCancel, Working
      <3>2. signals' \subseteq signals /\ Settle(t, "canceled", None, "cancelled")
        BY <2>2 DEF SeeCancel
      <3> QED
        BY <1>0, <3>1, <3>2, SettleKeepsInv
    <2>3. CASE Complete(t)
      <3>1. <<"done", None, None>> \in Outcome /\ task[t].stage \in Working
        BY <2>3 DEF Outcome, Complete, Working
      <3>2. signals' \subseteq signals /\ Settle(t, "done", None, None)
        BY <2>3 DEF Complete
      <3> QED
        BY <1>0, <3>1, <3>2, SettleKeepsInv
    <2> QED
      BY <1>0, <1>5, <2>1, <2>2, <2>3, LockRefusedKeepsInv, BeginKeepsInv, PassLastPollKeepsInv,
         ReleaseKeepsInv, FinishKeepsInv DEF TaskStep
  <1>6. ASSUME NEW c \in Caps, RebuildSemaphore(c)
        PROVE  QueueInv'
    BY <1>0, <1>6, RebuildKeepsInv
  <1>7. CASE ReapLocks \/ TimePasses
    BY <1>0, <1>7, LockTimeKeepsInv
  <1>8. CASE UNCHANGED vars
    <2>1. UNCHANGED <<transfers, tokens, signals, task, semaphores, told, locks, issued>>
      BY <1>8 DEF vars, queueVars, lockVars
    <2> QED
      BY <2>1 DEF QueueInv, QueueTypeOK, TypeOK, MutualExclusion, TaskFits, Fresh, LockFits,
                  KeyLock, KeyScope, PermitsFit, Holders, HasPermit, LockLasts, registered, live
  <1> QED
    BY <1>1, <1>2, <1>3, <1>4, <1>5, <1>6, <1>7, <1>8 DEF QueueNext

-----------------------------------------------------------------------------
(***************************************************************************)
(* The theorems.                                                           *)
(***************************************************************************)

\* At every moment each transfer's record, event, notice, permit and lock are
\* what the stage of its task asks for.
THEOREM QueueInvariant == QueueSpec => []QueueInv
  BY QueueInvInit, QueueInvStep, PTL DEF QueueSpec

\* The registry of transfers, the tasks, the signals and the semaphores keep
\* their types, and each task has a semaphore that was built.
THEOREM QueueTypeCorrect == QueueSpec => []QueueTypeOK
  <1>1. QueueInv => QueueTypeOK
    BY DEF QueueInv
  <1> QED
    BY <1>1, QueueInvariant, PTL

\* However often the concurrency is changed, no semaphore is overdrawn, and
\* nobody works without a permit: for any number of transfers.
THEOREM PermitsAreBounded == QueueSpec => []PermitsBoundWork
  <1>1. ASSUME QueueInv, NEW g \in DOMAIN semaphores
        PROVE  Cardinality({t \in registered :
                 task[t].sem = g /\ (t \in live \/ task[t].stage \in Working)}) <= semaphores[g]
    <2> DEFINE W == {t \in registered : task[t].sem = g /\ (t \in live \/ task[t].stage \in Working)}
    <2>1. W \subseteq Holders(g)
      BY <1>1 DEF QueueInv, LockFits, Holders, HasPermit, Working
    <2>2. IsFiniteSet(Holders(g))
      BY <1>1, FS_Subset DEF QueueInv, Holders
    <2>3. IsFiniteSet(W) /\ Cardinality(W) <= Cardinality(Holders(g))
      BY <2>1, <2>2, FS_Subset
    <2>4. Cardinality(W) \in Nat /\ Cardinality(Holders(g)) \in Nat /\ semaphores[g] \in Nat
      BY <1>1, <2>2, <2>3, FS_CardinalityType, TransferAssumption DEF QueueInv, QueueTypeOK
    <2>5. Cardinality(Holders(g)) <= semaphores[g]
      BY <1>1 DEF QueueInv, PermitsFit
    <2> QED
      BY <2>3, <2>4, <2>5
  <1>2. QueueInv => PermitsBoundWork
    BY <1>1 DEF PermitsBoundWork
  <1> QED
    BY <1>2, QueueInvariant, PTL

\* Every way out of a task gives its lock back, for any number of transfers.
THEOREM LocksComeBack == QueueSpec => []NoLeakedLock
  <1>1. QueueInv => NoLeakedLock
    BY DEF QueueInv, LockFits, NoLeakedLock
  <1> QED
    BY <1>1, QueueInvariant, PTL

\* Whichever way a task ended (transfers/download.rs, upload.rs and the wrapper
\* in transfers_cmd.rs), its record, its last event and its notice are those
\* of that end: of a lock refused and of a cancel too, where they differ.
THEOREM EndsAreAlwaysTold == QueueSpec => []EndsAreTold
  <1>1. ASSUME QueueInv, NEW t \in registered, task[t].stage = "finished"
        PROVE  /\ transfers[t].state \in Terminal
               /\ (transfers[t].state = "failed") <=> (transfers[t].error # None)
               /\ transfers[t].error = task[t].result /\ told[t] = LastTold(task[t].result)
    <2>1. TaskFits(t)
      BY <1>1 DEF QueueInv
    <2> QED
      BY <1>1, <2>1 DEF TaskFits, Terminal
  <1>2. QueueInv => EndsAreTold
    BY <1>1 DEF EndsAreTold, FinishedIsSettled, QueueInv
  <1> QED
    BY <1>2, QueueInvariant, PTL

\* Where no transfer outlasts its lock, two tasks never work on one key, for
\* any number of transfers, keys and semaphores.
THEOREM WorkIsExclusive == ~MayOutlast => (QueueSpec => []ExclusiveWork)
  <1> SUFFICES ASSUME ~MayOutlast
               PROVE  QueueSpec => []ExclusiveWork
    OBVIOUS
  <1>1. ASSUME QueueInv, NEW t \in registered, NEW u \in registered, t # u,
               task[t].stage \in Working, task[u].stage \in Working,
               transfers[t].key = transfers[u].key
        PROVE  FALSE
    <2>1. t \in live /\ u \in live
      BY <1>1 DEF QueueInv, LockLasts
    <2>2. locks[t].scope = KeyLock(t) /\ locks[u].scope = KeyLock(t)
      BY <1>1, <2>1 DEF QueueInv, LockFits, KeyLock
    <2>3. Covers(KeyLock(t)) = {}
      BY <1>1, <2>1, <2>2 DEF QueueInv, MutualExclusion
    <2>4. transfers[t].key \in Key
      BY <1>1 DEF QueueInv, QueueTypeOK, registered, Transfer
    <2>5. KeyLock(t) \in Scope
      BY <1>1, KeyLockIsScope DEF QueueInv
    <2>6. Intersects(KeyLock(t), KeyLock(t))
      BY <2>4, ScopeAssumption, TransferAssumption DEF Intersects, SameBucketMeet, KeyLock, KeyScope
    <2> QED
      BY <2>3, <2>5, <2>6, IntersectsOverlaps
  <1>2. QueueInv => ExclusiveWork
    BY <1>1 DEF ExclusiveWork
  <1> QED
    BY <1>2, QueueInvariant, PTL

\* A success is final, a terminal event is never taken back, and what failed
\* or was canceled never turns into a success.
THEOREM NothingIsTakenBack == QueueSpec => NothingTakenBack
  <1> DEFINE Kept(u) == /\ transfers[u].state = "done" => transfers'[u].state = "done"
                        /\ told[u].event \in Terminal => told'[u].event = told[u].event
                        /\ transfers[u].state \in {"failed", "canceled"} => transfers'[u].state # "done"
  <1>1. ASSUME QueueInv, NEW u \in registered, QueueNext
        PROVE  Kept(u)
    <2>1. TaskFits(u)
      BY <1>1 DEF QueueInv
    <2>2. CASE transfers'[u] = transfers[u] /\ told'[u] = told[u]
      BY <2>2
    <2>3. ASSUME NEW t \in TransferId, NEW kind, NEW key, NEW o, Enqueue(t, kind, key, o)
          PROVE  Kept(u)
      <3>1. u \in DOMAIN transfers /\ u \in DOMAIN told /\ u # t
        BY <1>1, <2>3 DEF Enqueue, QueueInv, QueueTypeOK, registered
      <3>2. \A f, v : u \in DOMAIN f => With(f, t, v)[u] = f[u]
        BY <3>1 DEF With
      <3> QED
        BY <2>2, <2>3, <3>1, <3>2 DEF Enqueue
    <2>4. ASSUME NEW t \in registered, t # u, TakePermit(t) \/ TaskStep(t)
          PROVE  Kept(u)
      <3>2. u \in DOMAIN transfers /\ u \in DOMAIN told
        BY <1>1 DEF QueueInv, QueueTypeOK, registered
      <3>3. CASE TakePermit(t) \/ LockRefused(t) \/ PassLastPoll(t)
        BY <2>2, <3>3 DEF TakePermit, LockRefused, PassLastPoll
      <3>4. ASSUME NEW state, NEW error, NEW result, Settle(t, state, error, result)
            PROVE  Kept(u)
        BY <2>2, <2>4, <3>2, <3>4 DEF Settle
      <3>5. CASE Fail(t) \/ SeeCancel(t) \/ Complete(t)
        BY <3>4, <3>5 DEF Fail, SeeCancel, Complete
      <3>6. CASE Begin(t)
        BY <2>2, <2>4, <3>2, <3>6 DEF Begin
      <3>7. CASE ReleaseAndNotify(t)
        BY <2>2, <2>4, <3>2, <3>7 DEF ReleaseAndNotify
      <3>8. CASE Finish(t)
        BY <2>2, <2>4, <3>2, <3>8 DEF Finish
      <3> HIDE DEF Kept
      <3> QED
        BY <2>4, <3>3, <3>5, <3>6, <3>7, <3>8 DEF TaskStep
    <2>5. CASE TakePermit(u) \/ LockRefused(u) \/ PassLastPoll(u)
      BY <2>2, <2>5 DEF TakePermit, LockRefused, PassLastPoll
    <2>6. CASE Begin(u)
      <3>1. Fresh(u, "queued")
        BY <2>1, <2>6 DEF Begin, TaskFits
      <3> QED
        BY <3>1 DEF Fresh, Terminal
    <2>7. ASSUME task[u].stage \in Working
          PROVE  Kept(u)
      BY <2>1, <2>7 DEF TaskFits, Fresh, Terminal
    <2>8. CASE Fail(u) \/ SeeCancel(u) \/ Complete(u)
      BY <2>7, <2>8 DEF Fail, SeeCancel, Complete, Working
    <2>9. CASE ReleaseAndNotify(u)
      <3>1. transfers' = transfers /\ told' = [told EXCEPT ![u].notice = transfers[u].state]
        BY <2>9 DEF ReleaseAndNotify
      <3>2. u \in DOMAIN told /\ told[u] \in [event : State, notice : Terminal \cup {None}]
        BY <1>1 DEF QueueInv, QueueTypeOK, registered
      <3> QED
        BY <3>1, <3>2
    <2>10. CASE Finish(u)
      <3>1. told' = told /\ task[u].stage = "returning"
        BY <2>10 DEF Finish
      <3>2. CASE task[u].result = None
        BY <2>2, <2>10, <3>1, <3>2 DEF Finish
      <3>3. CASE task[u].result # None
        <4>1. transfers'[u].state = "failed"
          <5>1. transfers' = [transfers EXCEPT ![u].state = "failed", ![u].error = task[u].result]
            BY <2>10, <3>3 DEF Finish
          <5>2. u \in DOMAIN transfers /\ transfers[u] \in Transfer
            BY <1>1 DEF QueueInv, QueueTypeOK, registered
          <5> QED
            BY <5>1, <5>2 DEF Transfer
        <4>2. transfers[u].state # "done"
          BY <2>1, <3>1, <3>3 DEF TaskFits, Outcome
        <4> QED
          BY <3>1, <4>1, <4>2
      <3> QED
        BY <3>2, <3>3
    <2>11. CASE \/ \E t \in registered : TransferCancel(t)
                \/ \E c \in Caps : RebuildSemaphore(c)
                \/ ReapLocks \/ TimePasses
      BY <2>2, <2>11 DEF TransferCancel, RebuildSemaphore, ReapLocks, TimePasses, queueVars
    <2> HIDE DEF Kept
    <2> QED
      BY <1>1, <2>3, <2>4, <2>5, <2>6, <2>8, <2>9, <2>10, <2>11
         DEF QueueNext, TransferStart, TransferRetry, TaskStep
  <1>2. QueueInv /\ QueueNext => \A u \in registered : Kept(u)
    BY <1>1
  <1>3. QueueInv /\ [QueueNext]_vars =>
          [\A t \in registered :
             /\ transfers[t].state = "done" => transfers'[t].state = "done"
             /\ told[t].event \in Terminal => told'[t].event = told[t].event
             /\ transfers[t].state \in {"failed", "canceled"} =>
                  transfers'[t].state # "done"]_vars
    BY <1>2
  <1> QED
    BY <1>3, QueueInvariant, PTL DEF QueueSpec, NothingTakenBack
(***************************************************************************)
(* Downloads and uploads use the registry as its specification allows, so  *)
(* what is proved of the registry holds of every lock a transfer takes.    *)
(***************************************************************************)
THEOREM QueueImplementsRegistry == QueueSpec => Spec
  <1>1. QueueInit => Init
    BY DEF QueueInit
  <1>2. QueueTypeOK /\ [QueueNext]_vars => [Next]_lockVars
    BY QueueStepIsRegistryStep
  <1> QED
    BY <1>1, <1>2, QueueTypeCorrect, PTL DEF QueueSpec, Spec

\* With transfers that come, go, fail, outlast their locks and are retried, an
\* object never passes from one transfer to another without having been free.
THEOREM TransfersOwnTheirObjects == QueueSpec => ImplementsOwnership
  BY QueueImplementsRegistry, RegistryImplementsOwnership, PTL
=============================================================================
