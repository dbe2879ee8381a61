---------------------------- MODULE TransferQueue ----------------------------
(***************************************************************************)
(* Downloads and uploads from the command that enqueues them to the end of *)
(* the task that runs them: src-tauri/src/transfers/ (mod.rs, download.rs, *)
(* upload.rs, notify.rs) and src-tauri/src/commands/transfers_cmd.rs,      *)
(* composed with the lock registry.                                        *)
(*                                                                         *)
(* A transfer takes at most one lock, so it names the lock it takes.  What *)
(* the bytes are, and which S3 or file-system call fails, is left open:    *)
(* between two updates of shared state a task may fail or go on.           *)
(***************************************************************************)
EXTENDS ResourceLocks

CONSTANTS
  TransferId,    \* request ids; finite for TLC, which bounds the transfers
  TheProfile,    \* all transfers of the model are in one bucket
  TheBucket,
  Caps,          \* the values transfer_concurrency is set to
  MaxRebuilds,   \* how often settings_update changes it: a bound for TLC
  MayOutlast     \* whether a transfer may take longer than its lock's TTL

ASSUME TransferAssumption ==
  /\ TransferId \subseteq LockId
  /\ TheProfile \in Profile /\ TheBucket \in Bucket
  /\ Caps \subseteq Nat \ {0}
  /\ MaxRebuilds \in Nat
  /\ MayOutlast \in BOOLEAN
  /\ None \notin TransferId

VARIABLES
  transfers,     \* TransferRegistry.transfers: id -> record
  tokens,        \* TransferRegistry.cancel_tokens: ids not yet canceled
  signals,       \* receivers that hold a cancel signal nobody has polled yet
  task,          \* the spawned task of each transfer
  semaphores,    \* widths of the semaphores built so far, newest last
  told           \* last transfer:state event and terminal notification sent

queueVars == <<transfers, tokens, signals, task, semaphores, told>>
vars == <<lockVars, queueVars>>

Kind == {"download", "upload"}
Terminal == {"done", "failed", "canceled"}
State == {"queued", "running"} \cup Terminal
Error == {"locked", "network", "cancelled"}

ASSUME ErrorAssumption == None \notin Error

Transfer == [kind : Kind, key : Key, origin : TransferId \cup {None},
             state : State, error : Error \cup {None}]

\* waiting: for a permit;  starting: to take the lock;  streaming: download
\* up to its last look at the cancel signal;  renaming: download after it;
\* sending: upload;  releasing: terminal state set, lock still held;
\* returning: back in the enqueue wrapper;  finished: permit given back.
Working == {"streaming", "renaming", "sending"}
Stage == {"waiting", "starting", "releasing", "returning", "finished"} \cup Working

Task == [stage : Stage, sem : Nat, result : Error \cup {None}]

QueueTypeOK ==
  /\ DOMAIN transfers \subseteq TransferId
  /\ transfers \in [DOMAIN transfers -> Transfer]
  /\ tokens \subseteq DOMAIN transfers
  /\ signals \subseteq DOMAIN transfers
  /\ task \in [DOMAIN transfers -> Task]
  /\ semaphores \in Seq(Caps)
  /\ \A t \in DOMAIN transfers : task[t].sem \in DOMAIN semaphores
  /\ told \in [DOMAIN transfers -> [event : State, notice : Terminal \cup {None}]]
  /\ TypeOK

QueueInit ==
  /\ Init
  /\ transfers = [t \in {} |-> {}]
  /\ tokens = {} /\ signals = {}
  /\ task = [t \in {} |-> {}]
  /\ \E c \in Caps : semaphores = <<c>>
  /\ told = [t \in {} |-> {}]

registered == DOMAIN transfers
KeyLock(t) == KeyScope(TheProfile, TheBucket, transfers[t].key)

\* Mutant: the permit is not given back at the end of the task.
HasPermitForever(t) == task[t].stage # "waiting"

HasPermit(t) == task[t].stage \notin {"waiting", "finished"}
Holders(g) == {t \in registered : task[t].sem = g /\ HasPermit(t)}

-----------------------------------------------------------------------------
(***************************************************************************)
(* Commands.                                                               *)
(***************************************************************************)

\* enqueue_download, enqueue_upload: register, remember the semaphore of this
\* moment, spawn.  The frontend shows the new transfer as queued.
Enqueue(t, kind, key, origin) ==
  /\ t \in TransferId \ registered
  /\ transfers' = With(transfers, t, [kind |-> kind, key |-> key, origin |-> origin,
                                      state |-> "queued", error |-> None])
  /\ tokens' = tokens \cup {t}
  /\ task' = With(task, t, [stage |-> "waiting", sem |-> Len(semaphores), result |-> None])
  /\ told' = With(told, t, [event |-> "queued", notice |-> None])
  /\ UNCHANGED <<lockVars, signals, semaphores>>

TransferStart(t) ==
  \E kind \in Kind, key \in Key : Enqueue(t, kind, key, None)

\* transfer_retry: a fresh transfer like the failed or canceled one.
TransferRetry(t, o) ==
  /\ o \in registered
  /\ transfers[o].state \in {"failed", "canceled"}
  /\ Enqueue(t, transfers[o].kind, transfers[o].key, o)

(***************************************************************************)
(* transfer_cancel: the token is consumed by the first call.  Only a       *)
(* download keeps the receiver, until its task ends; enqueue_upload drops  *)
(* it, and sets its own cancel flag never.                                 *)
(***************************************************************************)
TransferCancel(t) ==
  /\ t \in tokens
  /\ tokens' = tokens \ {t}
  /\ signals' = IF /\ transfers[t].kind = "download"
                   /\ task[t].stage \notin {"returning", "finished"}
                THEN signals \cup {t} ELSE signals
  /\ UNCHANGED <<lockVars, transfers, task, semaphores, told>>

\* rebuild_semaphore: tasks enqueued earlier keep the semaphore they cloned.
RebuildSemaphore(cap) ==
  /\ Len(semaphores) <= MaxRebuilds
  /\ semaphores' = Append(semaphores, cap)
  /\ UNCHANGED <<lockVars, transfers, tokens, signals, task, told>>

-----------------------------------------------------------------------------
(***************************************************************************)
(* The task of one transfer.                                               *)
(***************************************************************************)

GoTo(t, stage) == task' = [task EXCEPT ![t].stage = stage]

\* Mutant: one task too many is admitted.
TakePermitOneMore(t) ==
  /\ task[t].stage = "waiting"
  /\ Cardinality(Holders(task[t].sem)) <= semaphores[task[t].sem]
  /\ GoTo(t, "starting")
  /\ UNCHANGED <<lockVars, transfers, tokens, signals, semaphores, told>>

TakePermit(t) ==
  /\ task[t].stage = "waiting"
  /\ Cardinality(Holders(task[t].sem)) < semaphores[task[t].sem]
  /\ GoTo(t, "starting")
  /\ UNCHANGED <<lockVars, transfers, tokens, signals, semaphores, told>>

\* acquire returns Locked: back to the wrapper before any event is sent.
LockRefused(t) ==
  /\ task[t].stage = "starting"
  /\ Conflicts(KeyLock(t))
  /\ task' = [task EXCEPT ![t].stage = "returning", ![t].result = "locked"]
  /\ UNCHANGED <<lockVars, transfers, tokens, signals, semaphores, told>>

\* Mutant: a download, which writes nothing to the bucket, goes without a lock.
BeginUnlocked(t) ==
  /\ task[t].stage = "starting"
  /\ IF transfers[t].kind = "upload" THEN Acquire(t, KeyLock(t), 0)
                                     ELSE UNCHANGED lockVars
  /\ transfers' = [transfers EXCEPT ![t].state = "running"]
  /\ told' = [told EXCEPT ![t].event = "running"]
  /\ GoTo(t, IF transfers[t].kind = "download" THEN "streaming" ELSE "sending")
  /\ UNCHANGED <<tokens, signals, semaphores>>

\* The lock is taken; the record and the frontend move to running.
Begin(t) ==
  /\ task[t].stage = "starting"
  /\ Acquire(t, KeyLock(t), 0)
  /\ transfers' = [transfers EXCEPT ![t].state = "running"]
  /\ told' = [told EXCEPT ![t].event = "running"]
  /\ GoTo(t, IF transfers[t].kind = "download" THEN "streaming" ELSE "sending")
  /\ UNCHANGED <<tokens, signals, semaphores>>

\* Mutant: only a success is sent to the frontend.
SettleQuietly(t, state, error, result) ==
  /\ transfers' = [transfers EXCEPT ![t].state = state, ![t].error = error]
  /\ told' = IF state = "done" THEN [told EXCEPT ![t].event = state] ELSE told
  /\ task' = [task EXCEPT ![t].stage = "releasing", ![t].result = result]
  /\ UNCHANGED <<lockVars, tokens, semaphores>>

\* The terminal state is recorded, then sent; the lock is still held.
Settle(t, state, error, result) ==
  /\ transfers' = [transfers EXCEPT ![t].state = state, ![t].error = error]
  /\ told' = [told EXCEPT ![t].event = state]
  /\ task' = [task EXCEPT ![t].stage = "releasing", ![t].result = result]
  /\ UNCHANGED <<lockVars, tokens, semaphores>>

\* cleanup_on_error: any S3 or file error on the way.
Fail(t) ==
  /\ task[t].stage \in Working
  /\ Settle(t, "failed", "network", "network")
  /\ UNCHANGED signals

\* Mutant: the signal is looked at again after the outcome was recorded.
SeeCancelLate(t) ==
  /\ task[t].stage \in {"streaming", "releasing"}
  /\ t \in signals
  /\ signals' = signals \ {t}
  /\ Settle(t, "canceled", None, "cancelled")

\* handle_cancel: a poll between chunks, or the one before the rename, finds
\* the signal.  The reason is not recorded here.
SeeCancel(t) ==
  /\ task[t].stage = "streaming"
  /\ t \in signals
  /\ signals' = signals \ {t}
  /\ Settle(t, "canceled", None, "cancelled")

\* Mutant: the poll before the rename is missing.
PassLastPollBlind(t) ==
  /\ task[t].stage = "streaming"
  /\ GoTo(t, "renaming")
  /\ UNCHANGED <<lockVars, transfers, tokens, signals, semaphores, told>>

\* The last poll finds no signal: from here on a cancel is not noticed.
PassLastPoll(t) ==
  /\ task[t].stage = "streaming"
  /\ t \notin signals
  /\ GoTo(t, "renaming")
  /\ UNCHANGED <<lockVars, transfers, tokens, signals, semaphores, told>>

Complete(t) ==
  /\ task[t].stage \in {"renaming", "sending"}
  /\ Settle(t, "done", None, None)
  /\ UNCHANGED signals

\* Mutant: the cancel path forgets the lock.
ReleaseUnlessCanceled(t) ==
  /\ task[t].stage = "releasing"
  /\ IF t \in live /\ task[t].result # "cancelled"
       THEN Release(t) ELSE UNCHANGED lockVars
  /\ told' = [told EXCEPT ![t].notice = transfers[t].state]
  /\ GoTo(t, "returning")
  /\ UNCHANGED <<transfers, tokens, signals, semaphores>>

\* The lock is released unless someone else already did; then notify_terminal
\* reads the record again.
ReleaseAndNotify(t) ==
  /\ task[t].stage = "releasing"
  /\ IF t \in live THEN Release(t) ELSE UNCHANGED lockVars
  /\ told' = [told EXCEPT ![t].notice = transfers[t].state]
  /\ GoTo(t, "returning")
  /\ UNCHANGED <<transfers, tokens, signals, semaphores>>

(***************************************************************************)
(* The end of the spawned task: an Err result is written into the record,  *)
(* whose state becomes Failed; the permit and the receiver are dropped.    *)
(***************************************************************************)
Finish(t) ==
  /\ task[t].stage = "returning"
  /\ transfers' = IF task[t].result = None THEN transfers
                  ELSE [transfers EXCEPT ![t].state = "failed",
                                         ![t].error = task[t].result]
  /\ signals' = signals \ {t}
  /\ GoTo(t, "finished")
  /\ UNCHANGED <<lockVars, tokens, semaphores, told>>

TaskStep(t) ==
  \/ LockRefused(t) \/ Begin(t)
  \/ Fail(t) \/ SeeCancel(t) \/ PassLastPoll(t) \/ Complete(t)
  \/ ReleaseAndNotify(t) \/ Finish(t)

\* The loop that reaps stale locks.  No one heartbeats.
ReapLocks == ReleaseStale /\ UNCHANGED queueVars

TimePasses ==
  /\ live # {}
  /\ MayOutlast \/ \A id \in live : locks[id].age < TTL
  /\ Tick
  /\ UNCHANGED queueVars

QueueNext ==
  \/ \E t \in TransferId : TransferStart(t)
  \/ \E t, o \in TransferId : TransferRetry(t, o)
  \/ \E t \in registered : TransferCancel(t) \/ TakePermit(t) \/ TaskStep(t)
  \/ \E c \in Caps : RebuildSemaphore(c)
  \/ ReapLocks
  \/ TimePasses

QueueSpec == QueueInit /\ [][QueueNext]_vars

(***************************************************************************)
(* The runtime polls a ready task again and again, so each step of a task  *)
(* is weakly fair.  tokio's semaphore serves its waiters in order: a task  *)
(* for which a permit is free over and over again gets one.  Users and     *)
(* settings owe nothing.                                                   *)
(***************************************************************************)
QueueFairness ==
  \A t \in TransferId :
    /\ WF_vars(t \in registered /\ TaskStep(t))
    /\ SF_vars(t \in registered /\ TakePermit(t))

QueueFairSpec == QueueSpec /\ QueueFairness

-----------------------------------------------------------------------------
(***************************************************************************)
(* Safety.                                                                 *)
(***************************************************************************)

(***************************************************************************)
(* Two tasks never work on one key at the same time (download.rs and       *)
(* upload.rs take the lock of the key first and release it last).  The     *)
(* lock gives this only as long as it lives.                               *)
(***************************************************************************)
ExclusiveWork ==
  \A t, u \in registered :
    /\ t # u
    /\ task[t].stage \in Working /\ task[u].stage \in Working
    => transfers[t].key # transfers[u].key

(***************************************************************************)
(* Every way out of a task gives its lock back: a live lock belongs to a   *)
(* task that is still between taking and releasing it.                     *)
(***************************************************************************)
NoLeakedLock ==
  \A t \in live : task[t].stage \in Working \cup {"releasing"}

(***************************************************************************)
(* Even when the concurrency is changed while transfers wait and run, no   *)
(* semaphore admits more tasks than its width, and a task that does the    *)
(* work (holds a lock) is always one of those admitted.                    *)
(***************************************************************************)
PermitsBoundWork ==
  \A g \in DOMAIN semaphores :
    Cardinality({t \in registered :
        task[t].sem = g /\ (t \in live \/ task[t].stage \in Working)})
      <= semaphores[g]

(***************************************************************************)
(* When a task has ended, its record is terminal, and a failed one carries *)
(* the reason that the row of the transfer shows (transfers_cmd.rs: the    *)
(* wrapper persists the AppError of failures nothing was emitted for).     *)
(***************************************************************************)
FinishedIsSettled ==
  \A t \in registered : task[t].stage = "finished" =>
    /\ transfers[t].state \in Terminal
    /\ (transfers[t].state = "failed") <=> (transfers[t].error # None)

(***************************************************************************)
(* What the frontend and the notification log were last told of a task     *)
(* that has ended, by its result.  A success and a failure at work are     *)
(* told as they are recorded.  A cancel is told as one, and recorded by    *)
(* the wrapper as a failure; of a lock that was refused nothing is told.   *)
(***************************************************************************)
LastTold(result) ==
  CASE result = None        -> [event |-> "done", notice |-> "done"]
    [] result = "network"   -> [event |-> "failed", notice |-> "failed"]
    [] result = "cancelled" -> [event |-> "canceled", notice |-> "canceled"]
    [] result = "locked"    -> [event |-> "queued", notice |-> None]

(***************************************************************************)
(* The way out of a task: for each of the early returns of download_object *)
(* and upload_object, whatever ran beside it, the record, the event and    *)
(* the notice of the transfer end up as that return leaves them, the       *)
(* reason in the record, and stay so.                                      *)
(***************************************************************************)
EndsAreTold ==
  /\ QueueTypeOK /\ FinishedIsSettled
  /\ \A t \in registered : task[t].stage = "finished" =>
       /\ transfers[t].error = task[t].result
       /\ told[t] = LastTold(task[t].result)

(***************************************************************************)
(* No step withdraws a success, takes back a terminal event, or turns a    *)
(* transfer that was canceled in time into a success.                      *)
(***************************************************************************)
NothingTakenBack ==
  [][\A t \in registered :
       /\ transfers[t].state = "done" => transfers'[t].state = "done"
       /\ told[t].event \in Terminal => told'[t].event = told[t].event
       /\ transfers[t].state \in {"failed", "canceled"} =>
            transfers'[t].state # "done"]_vars

(***************************************************************************)
(* Liveness, under QueueFairSpec.                                          *)
(***************************************************************************)
Ended(t) == t \in registered /\ task[t].stage = "finished"

(***************************************************************************)
(* Every transfer that is enqueued comes to its end, whatever was changed, *)
(* canceled or refused meanwhile, and its lock with it.                    *)
(***************************************************************************)
EveryTransferEnds ==
  \A t \in TransferId :
    t \in registered ~> Ended(t) /\ t \notin live

(***************************************************************************)
(* A download canceled before its last look at the signal does not         *)
(* complete.                                                               *)
(***************************************************************************)
CanceledDownloadStops ==
  \A t \in TransferId :
    /\ t \in registered
    /\ t \in signals /\ task[t].stage \in {"waiting", "starting", "streaming"}
    ~> Ended(t) /\ transfers[t].state = "failed"

(***************************************************************************)
(* What the documentation says, and the code does not do.                  *)
(***************************************************************************)

(***************************************************************************)
(* transfers/progress.rs: "state transitions (Queued -> Running -> Done /  *)
(* Failed / Canceled) must always reach the frontend".  The last event of  *)
(* a transfer that has ended says how its record ended.                    *)
(***************************************************************************)
EveryEndIsTold ==
  \A t \in registered :
    task[t].stage = "finished" => told[t].event = transfers[t].state

(***************************************************************************)
(* transfers/mod.rs: the lifecycle is Queued -> Running -> terminal.  Here:*)
(* a terminal state is never left.                                         *)
(***************************************************************************)
TerminalIsFinal ==
  [][\A t \in registered :
       transfers[t].state \in Terminal => transfers'[t].state = transfers[t].state]_vars

=============================================================================
