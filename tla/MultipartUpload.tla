--------------------------- MODULE MultipartUpload ---------------------------
(***************************************************************************)
(* Multipart uploads and their bookkeeping: multipart_upload in            *)
(* src-tauri/src/transfers/upload.rs, the redb table and the cleanup panel *)
(* in src-tauri/src/s3/multipart.rs.                                       *)
(*                                                                         *)
(* Uploads of one profile and one bucket.  An upload task creates at most  *)
(* one S3 upload, so both have one name.  The resource lock of a key is    *)
(* what ObjectOwnership promises: one owner, which may lose it when it     *)
(* lapses.  enqueue_upload never sets the cancel flag, so the branches     *)
(* that poll it are not taken.                                             *)
(***************************************************************************)
EXTENDS Naturals, FiniteSets, TLC

CONSTANTS
  Ours,           \* uploads that brows3r starts
  Foreign,        \* uploads that other tools start in the same bucket
  Key,            \* object keys
  Parts,          \* the number of parts of a file
  InFlight,       \* PARTS_CONCURRENCY
  MayOutlast,     \* whether an upload may take longer than its lock's TTL
  MaxCrashes,     \* how often the app dies: a bound for TLC
  MaxAborts,      \* how often the panel aborts an upload: a bound for TLC
  None

ASSUME MultipartAssumption ==
  /\ Ours \cap Foreign = {}
  /\ Parts \in Nat \ {0} /\ InFlight \in Nat \ {0}
  /\ MayOutlast \in BOOLEAN
  /\ MaxCrashes \in Nat /\ MaxAborts \in Nat
  /\ None \notin Ours \cup Foreign

VARIABLES
  s3,         \* uploads at S3: id -> key, state, parts stored
  table,      \* multipart_active: key -> id of the upload recorded for it
  work,       \* upload tasks: id -> key, stage, parts collected in order
  part,       \* part tasks: id -> state of each part
  detached,   \* aborts spawned after a failed completion
  owner,      \* lock of each key
  listed,     \* panel: uploads that list_multipart_uploads has returned
  shown,      \* panel: rows [id, source] on the screen
  removing,   \* panel: keys whose record the running abort will remove
  crashes, aborts

vars == <<s3, table, work, part, detached, owner, listed, shown, removing,
          crashes, aborts>>
panelVars == <<listed, shown, removing, aborts>>

UploadId == Ours \cup Foreign
Part == 1..Parts
Upload == [key : Key, state : {"open", "completed", "aborted"}, parts : SUBSET Part]

\* creating: lock taken;  recording: id known;  reading: the file;
\* sending: spawning the part tasks;  collecting: awaiting them in order;
\* aborting, forgetting: abort_multipart;  unrecording: completed;
\* returning: lock still held;  ended;  lost: the app died.
Stage == {"creating", "recording", "reading", "sending", "collecting",
          "aborting", "forgetting", "unrecording", "returning", "ended", "lost"}
Task == [key : Key, stage : Stage, collected : 0..Parts]
PartState == {"unsent", "sending", "sent", "failed"}
Row == [id : UploadId, source : {"brows3r", "unknown"}]

MultipartTypeOK ==
  /\ DOMAIN s3 \subseteq UploadId /\ s3 \in [DOMAIN s3 -> Upload]
  /\ DOMAIN table \subseteq Key /\ table \in [DOMAIN table -> Ours]
  /\ DOMAIN work \subseteq Ours /\ work \in [DOMAIN work -> Task]
  /\ part \in [DOMAIN work -> [Part -> PartState]]
  /\ detached \subseteq Ours
  /\ owner \in [Key -> Ours \cup {None}]
  /\ listed \subseteq UploadId /\ shown \subseteq Row
  /\ removing \subseteq Key
  /\ crashes \in 0..MaxCrashes /\ aborts \in 0..MaxAborts

MultipartInit ==
  /\ s3 = [u \in {} |-> {}] /\ table = [k \in {} |-> {}]
  /\ work = [u \in {} |-> {}] /\ part = [u \in {} |-> {}]
  /\ detached = {}
  /\ owner = [k \in Key |-> None]
  /\ listed = {} /\ shown = {} /\ removing = {}
  /\ crashes = 0 /\ aborts = 0

started == DOMAIN work
Open(u) == u \in DOMAIN s3 /\ s3[u].state = "open"
AtStage(u, stage) == u \in started /\ work[u].stage = stage
GoTo(u, stage) == work' = [work EXCEPT ![u].stage = stage]

\* A map with one more entry, or another one.
Mapped(f, x, v) == [y \in DOMAIN f \cup {x} |-> IF y = x THEN v ELSE f[y]]

\* MultipartTable::record and remove: one transaction, one record per key.
Record(k, u) == table' = Mapped(table, k, u)
Remove(k) == table' = [i \in DOMAIN table \ {k} |-> table[i]]

-----------------------------------------------------------------------------
(***************************************************************************)
(* The upload task.                                                        *)
(***************************************************************************)

\* upload_object takes the lock of the key.
Begin(u, k) ==
  /\ u \in Ours \ started
  /\ owner[k] = None
  /\ owner' = [owner EXCEPT ![k] = u]
  /\ work' = Mapped(work, u, [key |-> k, stage |-> "creating", collected |-> 0])
  /\ part' = Mapped(part, u, [i \in Part |-> "unsent"])
  /\ UNCHANGED <<s3, table, detached, panelVars, crashes>>

NewUpload(u, k) == s3' = Mapped(s3, u, [key |-> k, state |-> "open", parts |-> {}])

\* create_multipart_upload answers.
Create(u) ==
  /\ AtStage(u, "creating")
  /\ NewUpload(u, work[u].key)
  /\ GoTo(u, "recording")
  /\ UNCHANGED <<table, part, detached, owner, panelVars, crashes>>

\* It fails, or S3 creates the upload and the answer is lost.
CreateFails(u) ==
  /\ AtStage(u, "creating")
  /\ UNCHANGED s3 \/ NewUpload(u, work[u].key)
  /\ GoTo(u, "returning")
  /\ UNCHANGED <<table, part, detached, owner, panelVars, crashes>>

RecordIt(u) ==
  /\ AtStage(u, "recording")
  /\ Record(work[u].key, u)
  /\ GoTo(u, "reading")
  /\ UNCHANGED <<s3, part, detached, owner, panelVars, crashes>>

\* The record cannot be written, or the file cannot be read: the task returns
\* and leaves the upload open.
EarlyReturn(u) ==
  /\ AtStage(u, "recording") \/ AtStage(u, "reading")
  /\ GoTo(u, "returning")
  /\ UNCHANGED <<s3, table, part, detached, owner, panelVars, crashes>>

ReadFile(u) ==
  /\ AtStage(u, "reading")
  /\ GoTo(u, "sending")
  /\ UNCHANGED <<s3, table, part, detached, owner, panelVars, crashes>>

\* Mutant: the permit of a failed part is not given back.
SendingOrFailed(u) == {i \in Part : part[u][i] \in {"sending", "failed"}}

Sending(u) == {i \in Part : part[u][i] = "sending"}
Unsent(u)  == {i \in Part : part[u][i] = "unsent"}

\* One iteration of the loop that spawns the part tasks, in order.
SpawnPart(u) ==
  /\ AtStage(u, "sending")
  /\ Cardinality(Sending(u)) < InFlight
  /\ \E i \in Unsent(u) :
       /\ \A j \in Unsent(u) : i <= j
       /\ part' = [part EXCEPT ![u][i] = "sending"]
       /\ IF Unsent(u) = {i} THEN GoTo(u, "collecting") ELSE UNCHANGED work
  /\ UNCHANGED <<s3, table, detached, owner, panelVars, crashes>>

\* upload_part: S3 stores the part and its answer arrives.
PartSent(u, i) ==
  /\ u \in started /\ part[u][i] = "sending"
  /\ Open(u)
  /\ s3' = [s3 EXCEPT ![u].parts = @ \cup {i}]
  /\ part' = [part EXCEPT ![u][i] = "sent"]
  /\ UNCHANGED <<table, work, detached, owner, panelVars, crashes>>

\* It fails: on the way there, on the way back, or for want of the upload.
PartFails(u, i) ==
  /\ u \in started /\ part[u][i] = "sending"
  /\ \/ UNCHANGED s3
     \/ Open(u) /\ s3' = [s3 EXCEPT ![u].parts = @ \cup {i}]
  /\ part' = [part EXCEPT ![u][i] = "failed"]
  /\ UNCHANGED <<table, work, detached, owner, panelVars, crashes>>

\* The next part task, in order, is awaited; a failed one ends the upload,
\* whatever the later ones are doing.
Collect(u) ==
  /\ AtStage(u, "collecting") /\ work[u].collected < Parts
  /\ LET i == work[u].collected + 1 IN
       \/ /\ part[u][i] = "sent"
          /\ work' = [work EXCEPT ![u].collected = i]
       \/ /\ part[u][i] = "failed"
          /\ GoTo(u, "aborting")
  /\ UNCHANGED <<s3, table, part, detached, owner, panelVars, crashes>>

Aborted(u) == [s3 EXCEPT ![u].state = "aborted", ![u].parts = {}]

\* abort_multipart: the answer of S3, if any, is ignored.
AbortOwn(u) ==
  /\ AtStage(u, "aborting")
  /\ UNCHANGED s3 \/ (Open(u) /\ s3' = Aborted(u))
  /\ GoTo(u, "forgetting")
  /\ UNCHANGED <<table, part, detached, owner, panelVars, crashes>>

Forget(u) ==
  /\ AtStage(u, "forgetting") \/ AtStage(u, "unrecording")
  /\ Remove(work[u].key)
  /\ GoTo(u, "returning")
  /\ UNCHANGED <<s3, part, detached, owner, panelVars, crashes>>

\* Mutant: the last part is not waited for.
CollectedEarly(u) == AtStage(u, "collecting") /\ work[u].collected >= Parts - 1

Collected(u) == AtStage(u, "collecting") /\ work[u].collected = Parts
Finished(u) == [s3 EXCEPT ![u].state = "completed"]

\* complete_multipart_upload: S3 joins the parts it is given.
Complete(u) ==
  /\ Collected(u) /\ Open(u)
  /\ s3' = Finished(u)
  /\ GoTo(u, "unrecording")
  /\ UNCHANGED <<table, part, detached, owner, panelVars, crashes>>

\* It fails, or its answer is lost: an abort is spawned, the record stays.
CompleteFails(u) ==
  /\ Collected(u)
  /\ UNCHANGED s3 \/ (Open(u) /\ s3' = Finished(u))
  /\ detached' = detached \cup {u}
  /\ GoTo(u, "returning")
  /\ UNCHANGED <<table, part, owner, panelVars, crashes>>

\* Mutant: the detached abort also removes the record, when the lock is gone.
DetachedAbortForgetting(u) ==
  /\ u \in detached
  /\ UNCHANGED s3 \/ (Open(u) /\ s3' = Aborted(u))
  /\ detached' = detached \ {u}
  /\ Remove(work[u].key)
  /\ UNCHANGED <<work, part, owner, panelVars, crashes>>

DetachedAbort(u) ==
  /\ u \in detached
  /\ UNCHANGED s3 \/ (Open(u) /\ s3' = Aborted(u))
  /\ detached' = detached \ {u}
  /\ UNCHANGED <<table, work, part, owner, panelVars, crashes>>

\* Back in upload_object: the lock is released, if it is still there.
Return(u) ==
  /\ AtStage(u, "returning")
  /\ owner' = [k \in Key |-> IF owner[k] = u THEN None ELSE owner[k]]
  /\ GoTo(u, "ended")
  /\ UNCHANGED <<s3, table, part, detached, panelVars, crashes>>

-----------------------------------------------------------------------------
(***************************************************************************)
(* The cleanup panel.                                                      *)
(***************************************************************************)

\* multipart_scan: first S3 is asked for the uploads in progress.  Scans that
\* no abort will follow are left out: they read only.
ScanList ==
  /\ aborts < MaxAborts
  /\ listed' = {u \in DOMAIN s3 : Open(u)}
  /\ listed' # listed
  /\ UNCHANGED <<s3, table, work, part, detached, owner, shown, removing, crashes, aborts>>

\* Mutant: the upload is looked up under its key.
InTableByKey(u) == s3[u].key \in DOMAIN table

\* find_by_upload_id: some record, of whatever key, names the upload.
InTable(u) == \E k \in DOMAIN table : table[k] = u

\* Then each of them is looked up in the table.
ScanClassify ==
  /\ shown' = {[id |-> u, source |-> IF InTable(u) THEN "brows3r" ELSE "unknown"] :
                 u \in listed}
  /\ shown' # shown
  /\ UNCHANGED <<s3, table, work, part, detached, owner, listed, removing, crashes, aborts>>

\* multipart_abort of a row: an unknown upload needs the user's confirmation.
\* After an error, of an upload that is gone or of a lost answer, the record
\* stays.
PanelAbort(row, confirmed) ==
  /\ row \in shown /\ Open(row.id)
  /\ aborts < MaxAborts
  /\ row.source = "unknown" => confirmed
  /\ s3' = Aborted(row.id)
  /\ \/ UNCHANGED removing
     \/ row.source = "brows3r" /\ removing' = removing \cup {s3[row.id].key}
  /\ aborts' = aborts + 1
  /\ UNCHANGED <<table, work, part, detached, owner, listed, shown, crashes>>

\* After the answer of S3 the record of the key goes, whichever it is.
PanelRemove(k) ==
  /\ k \in removing
  /\ Remove(k)
  /\ removing' = removing \ {k}
  /\ UNCHANGED <<s3, work, part, detached, owner, listed, shown, crashes, aborts>>

-----------------------------------------------------------------------------
(***************************************************************************)
(* The environment.                                                        *)
(***************************************************************************)

\* Another tool starts an upload.
ForeignStart(f, k) ==
  /\ f \in Foreign \ DOMAIN s3
  /\ NewUpload(f, k)
  /\ UNCHANGED <<table, work, part, detached, owner, panelVars, crashes>>

\* The lock of an upload that takes too long is reaped.
Lapse(u) ==
  /\ MayOutlast
  /\ \E k \in Key : owner[k] = u /\ owner' = [owner EXCEPT ![k] = None]
  /\ UNCHANGED <<s3, table, work, part, detached, panelVars, crashes>>

\* The app dies and is started again: table and S3 are all that is left.
Crash ==
  /\ crashes < MaxCrashes
  /\ crashes' = crashes + 1
  /\ work' = [u \in started |->
                [work[u] EXCEPT !.stage = IF @ \in {"returning", "ended"} THEN "ended" ELSE "lost"]]
  /\ part' = [u \in started |->
                [i \in Part |-> IF part[u][i] = "sending" THEN "failed" ELSE part[u][i]]]
  /\ detached' = {} /\ removing' = {} /\ listed' = {} /\ shown' = {}
  /\ owner' = [k \in Key |-> None]
  /\ UNCHANGED <<s3, table, aborts>>

UploadStep(u) ==
  \/ Create(u) \/ CreateFails(u) \/ RecordIt(u) \/ EarlyReturn(u) \/ ReadFile(u)
  \/ SpawnPart(u) \/ Collect(u) \/ AbortOwn(u) \/ Forget(u)
  \/ Complete(u) \/ CompleteFails(u) \/ Return(u)

PartStep(u) == \E i \in Part : PartSent(u, i) \/ PartFails(u, i)

\* Uploads by themselves: no lock is outlasted, the panel stays closed, and
\* nobody else uploads.
UploadNext ==
  \/ \E u \in Ours, k \in Key : Begin(u, k)
  \/ \E u \in Ours : UploadStep(u) \/ PartStep(u) \/ DetachedAbort(u)
  \/ Crash

MultipartNext ==
  \/ UploadNext
  \/ \E u \in Ours : Lapse(u)
  \/ \E f \in Foreign, k \in Key : ForeignStart(f, k)
  \/ ScanList \/ ScanClassify
  \/ \E row \in Row, confirmed \in BOOLEAN : PanelAbort(row, confirmed)
  \/ \E k \in Key : PanelRemove(k)

MultipartSpec == MultipartInit /\ [][MultipartNext]_vars

(***************************************************************************)
(* Every request is answered or times out, and the runtime polls every     *)
(* task that can go on.  The user and other tools owe nothing.             *)
(***************************************************************************)
MultipartFairness ==
  \A u \in Ours : WF_vars(UploadStep(u)) /\ WF_vars(PartStep(u))

UploadFairSpec == MultipartInit /\ [][UploadNext]_vars /\ MultipartFairness

-----------------------------------------------------------------------------
(***************************************************************************)
(* Safety.                                                                 *)
(***************************************************************************)

(***************************************************************************)
(* An object appears only with all its parts, although they are sent in    *)
(* any order and the uploads of several tasks, aborts from the panel and   *)
(* crashes come in between.                                                *)
(***************************************************************************)
WholeObject ==
  \A u \in DOMAIN s3 : s3[u].state = "completed" => s3[u].parts = Part

(***************************************************************************)
(* While a task works on an upload that S3 still has, the table names this *)
(* upload under its key (upload.rs: recorded before the first part, removed*)
(* at the end), whatever earlier uploads of the key have left to be done.  *)
(***************************************************************************)
WorkIsTracked ==
  \A u \in started :
    work[u].stage \in {"reading", "sending", "collecting", "aborting"} /\ Open(u) =>
      work[u].key \in DOMAIN table /\ table[work[u].key] = u

(***************************************************************************)
(* Parts that were paid for when the app died can be told from those of    *)
(* other tools: unless the key has been uploaded again, the table still    *)
(* names their upload.                                                     *)
(***************************************************************************)
CrashLeavesTrace ==
  \A u \in started :
    /\ AtStage(u, "lost") /\ Open(u) /\ s3[u].parts # {}
    /\ \A v \in started \ {u} : work[v].key # work[u].key
    => InTable(u)

(***************************************************************************)
(* The table multipart_active never loses sight of parts that are paid     *)
(* for, neither while their upload runs nor after a crash.                 *)
(***************************************************************************)
TracesAreKept == MultipartTypeOK /\ WorkIsTracked /\ CrashLeavesTrace

(***************************************************************************)
(* An upload of another tool is aborted only from a row that says so, for  *)
(* which the panel asks the user first (abort_multipart_upload).           *)
(***************************************************************************)
ForeignAskedFirst ==
  [][\A f \in Foreign :
       Open(f) /\ s3'[f].state = "aborted" =>
         [id |-> f, source |-> "unknown"] \in shown]_vars

(***************************************************************************)
(* Liveness, under UploadFairSpec: the loop that spawns parts and the      *)
(* one that awaits them get to their ends, with any part failing, and the  *)
(* lock comes back.                                                        *)
(***************************************************************************)
EveryUploadEnds ==
  \A u \in Ours : u \in started ~>
    /\ u \in started /\ work[u].stage \in {"ended", "lost"}
    /\ \A k \in Key : owner[k] # u

=============================================================================
