--------------------------- MODULE PersistedProofs ---------------------------
(***************************************************************************)
(* What is on disk or at S3 stays whole, for any number of uploads of      *)
(* brows3r and of other tools, any keys, parts, crashes and aborts, and    *)
(* for any callers, values, capacity and scopes of invalidation of the     *)
(* cache.                                                                  *)
(*                                                                         *)
(* Uploads: a part whose task has succeeded is at S3 for as long as the    *)
(* upload is open, so an upload that collected all of them completes with  *)
(* all.  Without the panel, and as long as locks last, a task that works   *)
(* owns its key, so nobody else writes or removes the record of it. Cache: *)
(* while a call is clean on a key it is the only one under way there, so a *)
(* get still finds on disk what it has read, and memory still has what a   *)
(* put or an invalidation left, or has lost it to the capacity.  The last  *)
(* step of the call then makes the layers agree.  A call that met another  *)
(* one only ever moves values that are possible.                           *)
(***************************************************************************)
EXTENDS MultipartUpload, CacheStore, TLAPS

-----------------------------------------------------------------------------
(* Uploads in parts.                                                       *)

TasksFit ==
  \A u \in started :
    /\ work[u].stage \in {"creating", "recording", "reading"} =>
         \A i \in Part : part[u][i] = "unsent"
    /\ work[u].stage = "creating" => u \notin DOMAIN s3
    /\ \A i \in 1 .. work[u].collected : part[u][i] = "sent"
    /\ \A i \in Part : part[u][i] = "sent" /\ Open(u) => i \in s3[u].parts

S3Fits ==
  /\ DOMAIN s3 \cap Ours \subseteq started
  /\ WholeObject

\* The types of what the tasks and S3 have, and of the rest.
CoreType ==
  /\ DOMAIN s3 \subseteq UploadId /\ s3 \in [DOMAIN s3 -> Upload]
  /\ DOMAIN work \subseteq Ours /\ work \in [DOMAIN work -> Task]
  /\ part \in [DOMAIN work -> [Part -> PartState]]

RestType ==
  /\ DOMAIN table \subseteq Key /\ table \in [DOMAIN table -> Ours]
  /\ detached \subseteq Ours
  /\ owner \in [Key -> Ours \cup {None}]
  /\ listed \subseteq UploadId /\ shown \subseteq Row
  /\ removing \subseteq Key
  /\ crashes \in 0..MaxCrashes /\ aborts \in 0..MaxAborts

CoreFits == CoreType /\ TasksFit /\ S3Fits

MultipartInv == CoreFits /\ RestType

LEMMA InvTypes == MultipartInv => MultipartTypeOK /\ WholeObject
  BY DEF MultipartInv, CoreFits, CoreType, RestType, S3Fits, MultipartTypeOK

-----------------------------------------------------------------------------
(***************************************************************************)
(* Steps of one task and of S3.                                            *)
(***************************************************************************)

LEMMA StageStep ==
  ASSUME CoreType, NEW u \in started, NEW s \in Stage, GoTo(u, s)
  PROVE  /\ started' = started /\ work' \in [started -> Task]
         /\ work'[u].stage = s /\ work'[u].key = work[u].key
         /\ work'[u].collected = work[u].collected
         /\ \A v \in started \ {u} : work'[v] = work[v]
  <1>1. work[u] \in Task /\ work \in [started -> Task]
    BY DEF CoreType, started
  <1>2. PICK r : r = [work[u] EXCEPT !.stage = s]
    OBVIOUS
  <1>3. r \in Task /\ r.stage = s /\ r.key = work[u].key /\ r.collected = work[u].collected
    BY <1>1, <1>2 DEF Task
  <1>4. work' = [work EXCEPT ![u] = r]
    BY <1>1, <1>2 DEF GoTo, Task
  <1> QED
    BY <1>1, <1>3, <1>4 DEF started

\* A task goes to another stage and touches neither S3 nor its parts.
LEMMA StageKeeps ==
  ASSUME CoreFits, NEW u \in started, NEW s \in Stage, GoTo(u, s), s3' = s3, part' = part,
         s # "creating",
         s \in {"recording", "reading"} =>
           work[u].stage \in {"creating", "recording", "reading"}
  PROVE  CoreFits'
  <1>1. /\ started' = started /\ work' \in [started -> Task]
        /\ work'[u].stage = s /\ work'[u].collected = work[u].collected
        /\ \A v \in started \ {u} : work'[v] = work[v]
    BY StageStep DEF CoreFits
  <1>2. CoreType'
    BY <1>1 DEF CoreFits, CoreType, started
  <1>3. S3Fits'
    BY <1>1 DEF CoreFits, S3Fits, WholeObject
  <1>4. TasksFit'
    BY <1>1 DEF CoreFits, TasksFit, Open
  <1> QED
    BY <1>2, <1>3, <1>4 DEF CoreFits

\* An upload comes into being.
LEMMA NewUploadFits ==
  ASSUME CoreFits, NEW u \in UploadId, u \notin DOMAIN s3, NEW k \in Key, NewUpload(u, k),
         UNCHANGED part, started' = started, work' \in [started -> Task],
         u \in Ours => u \in started /\ \A i \in Part : part[u][i] = "unsent",
         \A v \in started : work'[v].collected = work[v].collected,
         \A v \in started \ {u} : work'[v] = work[v],
         u \in started => work'[u].stage \in Stage \ {"creating"} /\ work'[u].collected = 0
  PROVE  CoreFits'
  <1>1. PICK r : r = [key |-> k, state |-> "open", parts |-> {}]
    OBVIOUS
  <1>2. /\ DOMAIN s3' = DOMAIN s3 \cup {u} /\ s3'[u] = r
        /\ \A v \in DOMAIN s3 : s3'[v] = s3[v]
        /\ s3' = [v \in DOMAIN s3' |-> s3'[v]]
    BY <1>1 DEF NewUpload, Mapped
  <1>3. r \in Upload /\ r.state = "open"
    BY <1>1 DEF Upload
  <1>4. CoreType'
    <2>1. \A v \in DOMAIN s3' : s3'[v] \in Upload
      BY <1>2, <1>3 DEF CoreFits, CoreType
    <2>2. DOMAIN s3' \subseteq UploadId /\ s3' \in [DOMAIN s3' -> Upload]
      BY <1>2, <2>1 DEF CoreFits, CoreType
    <2> QED
      BY <2>2 DEF CoreFits, CoreType, started
  <1>5. S3Fits'
    BY <1>2, <1>3 DEF CoreFits, S3Fits, WholeObject, UploadId
  <1>6. ASSUME NEW v \in started
        PROVE  /\ work'[v].stage \in {"creating", "recording", "reading"} =>
                     \A i \in Part : part'[v][i] = "unsent"
               /\ work'[v].stage = "creating" => v \notin DOMAIN s3'
               /\ \A i \in 1 .. work'[v].collected : part'[v][i] = "sent"
               /\ \A i \in Part : part'[v][i] = "sent" /\ Open(v)' => i \in s3'[v].parts
    <2>1. CASE v = u
      <3>1. u \in Ours
        BY <2>1 DEF CoreFits, CoreType, started
      <3>2. 1 .. work'[v].collected = {}
        BY <2>1
      <3> QED
        BY <2>1, <3>1, <3>2
    <2>2. CASE v # u
      BY <1>2, <2>2 DEF CoreFits, TasksFit, Open
    <2> QED
      BY <2>1, <2>2
  <1> QED
    BY <1>4, <1>5, <1>6 DEF CoreFits, TasksFit

\* Tasks have gone on, if at all, to a stage in which parts are under way.
GoneOn ==
  /\ started' = started /\ work' \in [started -> Task]
  /\ \A v \in started :
       \/ work'[v] = work[v]
       \/ /\ work'[v].collected = work[v].collected
          /\ work'[v].stage \notin {"creating", "recording", "reading"}

LEMMA StageGoneOn ==
  ASSUME CoreType, NEW u \in started, NEW s \in Stage, GoTo(u, s),
         s \notin {"creating", "recording", "reading"}
  PROVE  GoneOn
  <1>1. /\ started' = started /\ work' \in [started -> Task]
        /\ work'[u].stage = s /\ work'[u].collected = work[u].collected
        /\ \A v \in started \ {u} : work'[v] = work[v]
    BY StageStep
  <1> QED
    BY <1>1 DEF GoneOn

LEMMA WorkGoneOn == CoreType /\ work' = work => GoneOn
  BY DEF CoreType, GoneOn, started

\* S3 closes an open upload: completed with all parts, or aborted.
LEMMA CloseFits ==
  ASSUME CoreFits, NEW u \in DOMAIN s3, NEW r \in Upload, s3' = [s3 EXCEPT ![u] = r],
         r.state # "open", r.state = "completed" => r.parts = Part, GoneOn, part' = part
  PROVE  CoreFits'
  <1>1. /\ DOMAIN s3' = DOMAIN s3 /\ started' = started /\ s3'[u] = r
        /\ \A v \in DOMAIN s3 \ {u} : s3'[v] = s3[v]
    BY DEF CoreFits, CoreType, GoneOn
  <1>2. S3Fits'
    BY <1>1 DEF CoreFits, S3Fits, WholeObject
  <1>3. TasksFit'
    BY <1>1 DEF CoreFits, TasksFit, Open, GoneOn
  <1>4. CoreType'
    BY <1>1 DEF CoreFits, CoreType, GoneOn, started
  <1> QED
    BY <1>2, <1>3, <1>4 DEF CoreFits

LEMMA OnlyGoneOnFits ==
  ASSUME CoreFits, GoneOn, UNCHANGED <<s3, part>>
  PROVE  CoreFits'
  <1>1. S3Fits'
    BY DEF CoreFits, S3Fits, WholeObject, GoneOn
  <1>2. TasksFit'
    BY DEF CoreFits, TasksFit, Open, GoneOn
  <1>3. CoreType'
    BY DEF CoreFits, CoreType, GoneOn, started
  <1> QED
    BY <1>1, <1>2, <1>3 DEF CoreFits

\* S3 aborts an upload, or does not.
LEMMA AbortedFits ==
  ASSUME CoreFits, NEW u, UNCHANGED s3 \/ (Open(u) /\ s3' = Aborted(u)), GoneOn, part' = part
  PROVE  CoreFits'
  <1>1. CASE UNCHANGED s3
    BY <1>1, OnlyGoneOnFits
  <1>2. CASE Open(u) /\ s3' = Aborted(u)
    <2>1. PICK r : r = [s3[u] EXCEPT !.state = "aborted", !.parts = {}]
      OBVIOUS
    <2>2. u \in DOMAIN s3 /\ s3[u] \in Upload
      BY <1>2 DEF CoreFits, CoreType, Open
    <2>3. r \in Upload /\ r.state = "aborted" /\ s3' = [s3 EXCEPT ![u] = r]
      BY <1>2, <2>1, <2>2 DEF Upload, Aborted
    <2> QED
      BY <2>2, <2>3, CloseFits
  <1> QED
    BY <1>1, <1>2

\* What S3 joins has all its parts.
LEMMA CollectedIsWhole ==
  ASSUME CoreFits, NEW u, Collected(u), Open(u)
  PROVE  s3[u].parts = Part
  <1>1. u \in started /\ work[u].collected = Parts /\ s3[u] \in Upload
    BY DEF Collected, AtStage, CoreFits, CoreType, Open
  <1>2. \A i \in Part : part[u][i] = "sent"
    BY <1>1 DEF CoreFits, TasksFit, Part
  <1>3. \A i \in Part : i \in s3[u].parts
    BY <1>1, <1>2 DEF CoreFits, TasksFit
  <1> QED
    BY <1>1, <1>3 DEF Upload

\* S3 completes an upload, or does not.
LEMMA FinishedFits ==
  ASSUME CoreFits, NEW u, Collected(u), UNCHANGED s3 \/ (Open(u) /\ s3' = Finished(u)),
         GoneOn, part' = part
  PROVE  CoreFits'
  <1>1. CASE UNCHANGED s3
    BY <1>1, OnlyGoneOnFits
  <1>2. CASE Open(u) /\ s3' = Finished(u)
    <2>1. PICK r : r = [s3[u] EXCEPT !.state = "completed"]
      OBVIOUS
    <2>2. u \in DOMAIN s3 /\ s3[u] \in Upload /\ s3[u].parts = Part
      BY <1>2, CollectedIsWhole DEF CoreFits, CoreType, Open
    <2>3. r \in Upload /\ r.state = "completed" /\ r.parts = Part /\ s3' = [s3 EXCEPT ![u] = r]
      BY <1>2, <2>1, <2>2 DEF Upload, Finished
    <2> QED
      BY <2>2, <2>3, CloseFits
  <1> QED
    BY <1>1, <1>2

\* The state of one part changes; S3 may have stored it.
LEMMA PartFits ==
  ASSUME CoreFits, NEW u \in started, NEW i \in Part, NEW to \in PartState,
         part' = [part EXCEPT ![u][i] = to],
         part[u][i] # "sent", work[u].stage \notin {"creating", "recording", "reading"},
         \/ UNCHANGED s3 /\ to # "sent"
         \/ Open(u) /\ s3' = [s3 EXCEPT ![u].parts = @ \cup {i}],
         GoneOn
  PROVE  CoreFits'
  <1>1. PICK q : q = [part[u] EXCEPT ![i] = to]
    OBVIOUS
  <1>2. /\ part \in [started -> [Part -> PartState]] /\ q \in [Part -> PartState]
        /\ part' = [part EXCEPT ![u] = q] /\ q[i] = to
        /\ \A n \in Part \ {i} : q[n] = part[u][n]
    BY <1>1 DEF CoreFits, CoreType, started
  <1>3. /\ part' \in [started -> [Part -> PartState]] /\ part'[u] = q
        /\ \A v \in started \ {u} : part'[v] = part[v]
    BY <1>2
  <1>4. /\ DOMAIN s3' = DOMAIN s3 /\ s3' \in [DOMAIN s3 -> Upload]
        /\ \A v \in DOMAIN s3 : /\ s3'[v].state = s3[v].state
                                /\ s3[v].parts \subseteq s3'[v].parts
                                /\ s3[v].state # "open" => s3'[v].parts = s3[v].parts
        /\ to = "sent" => Open(u) /\ i \in s3'[u].parts
    <2>1. CASE UNCHANGED s3 /\ to # "sent"
      BY <2>1 DEF CoreFits, CoreType
    <2>2. CASE Open(u) /\ s3' = [s3 EXCEPT ![u].parts = @ \cup {i}]
      <3>1. u \in DOMAIN s3 /\ s3[u] \in Upload /\ s3[u].state = "open"
        BY <2>2 DEF CoreFits, CoreType, Open
      <3>2. PICK r : r = [s3[u] EXCEPT !.parts = s3[u].parts \cup {i}]
        OBVIOUS
      <3>3. /\ r \in Upload /\ r.state = "open" /\ r.parts = s3[u].parts \cup {i}
            /\ s3' = [s3 EXCEPT ![u] = r]
        BY <2>2, <3>1, <3>2 DEF Upload
      <3> QED
        BY <2>2, <3>1, <3>3 DEF CoreFits, CoreType
    <2> QED
      BY <2>1, <2>2
  <1>5. CoreType'
    BY <1>3, <1>4 DEF CoreFits, CoreType, GoneOn, started
  <1>6. S3Fits'
    BY <1>4 DEF CoreFits, S3Fits, WholeObject, GoneOn
  <1>7. ASSUME NEW v \in started
        PROVE  /\ work'[v].stage \in {"creating", "recording", "reading"} =>
                     \A n \in Part : part'[v][n] = "unsent"
               /\ work'[v].stage = "creating" => v \notin DOMAIN s3'
               /\ \A n \in 1 .. work'[v].collected : part'[v][n] = "sent"
               /\ \A n \in Part : part'[v][n] = "sent" /\ Open(v)' => n \in s3'[v].parts
    <2>1. /\ work'[v].collected = work[v].collected /\ work[v].collected \in 0 .. Parts
          /\ work'[v].stage \in {"creating", "recording", "reading"} => work'[v] = work[v]
      BY DEF GoneOn, CoreFits, CoreType, started, Task
    <2>2. /\ work[v].stage \in {"creating", "recording", "reading"} =>
                     \A n \in Part : part[v][n] = "unsent"
          /\ work[v].stage = "creating" => v \notin DOMAIN s3
          /\ \A n \in 1 .. work[v].collected : part[v][n] = "sent"
          /\ \A n \in Part : part[v][n] = "sent" /\ Open(v) => n \in s3[v].parts
      BY DEF CoreFits, TasksFit
    <2>3. Open(v)' => Open(v) /\ s3[v].parts \subseteq s3'[v].parts
      BY <1>4 DEF Open
    <2>4. CASE v = u
      <3>1. \A n \in 1 .. work[v].collected : n \in Part /\ n # i
        BY <2>1, <2>2, <2>4, MultipartAssumption DEF Part
      <3> QED
        BY <1>2, <1>3, <1>4, <2>1, <2>2, <2>3, <2>4, <3>1
    <2>5. CASE v # u
      BY <1>3, <1>4, <2>1, <2>2, <2>3, <2>5
    <2> QED
      BY <2>4, <2>5
  <1> QED
    BY <1>5, <1>6, <1>7 DEF CoreFits, TasksFit, GoneOn

LEMMA BeginFits ==
  ASSUME CoreFits, NEW u \in Ours, NEW k \in Key, Begin(u, k)
  PROVE  CoreFits'
  <1>1. PICK t, q : /\ t = [key |-> k, stage |-> "creating", collected |-> 0]
                    /\ q = [i \in Part |-> "unsent"]
    OBVIOUS
  <1>2. u \notin started /\ work' = Mapped(work, u, t) /\ part' = Mapped(part, u, q) /\ s3' = s3
    BY <1>1 DEF Begin
  <1>3. t \in Task /\ t.stage = "creating" /\ t.collected = 0 /\ q \in [Part -> PartState]
        /\ \A i \in Part : q[i] = "unsent"
    BY <1>1, MultipartAssumption DEF Task, Stage, PartState
  <1>4. /\ started' = started \cup {u} /\ DOMAIN part = started
        /\ work'[u] = t /\ part'[u] = q
        /\ \A v \in started : work'[v] = work[v] /\ part'[v] = part[v]
        /\ work' = [v \in started' |-> work'[v]] /\ part' = [v \in started' |-> part'[v]]
    BY <1>2 DEF Mapped, started, CoreFits, CoreType
  <1>5. /\ \A v \in started' : work'[v] \in Task /\ part'[v] \in [Part -> PartState]
        /\ started' \subseteq Ours
    BY <1>3, <1>4 DEF CoreFits, CoreType, started
  <1>6. CoreType'
    <2>1. work' \in [started' -> Task] /\ part' \in [started' -> [Part -> PartState]]
      BY <1>4, <1>5
    <2> QED
      BY <1>2, <1>5, <2>1 DEF CoreFits, CoreType, started
  <1>7. S3Fits'
    BY <1>2, <1>4 DEF CoreFits, S3Fits, WholeObject
  <1>8. u \notin DOMAIN s3
    BY <1>2 DEF CoreFits, S3Fits
  <1>9. 1 .. t.collected = {}
    BY <1>3
  <1>10. TasksFit'
    <2> SUFFICES ASSUME NEW v \in started'
                 PROVE  /\ work'[v].stage \in {"creating", "recording", "reading"} =>
                             \A i \in Part : part'[v][i] = "unsent"
                        /\ work'[v].stage = "creating" => v \notin DOMAIN s3'
                        /\ \A i \in 1 .. work'[v].collected : part'[v][i] = "sent"
                        /\ \A i \in Part : part'[v][i] = "sent" /\ Open(v)' => i \in s3'[v].parts
      BY DEF TasksFit
    <2>1. CASE v = u
      BY <1>2, <1>3, <1>4, <1>8, <1>9, <2>1
    <2>2. CASE v # u
      BY <1>2, <1>4, <2>2 DEF CoreFits, TasksFit, Open
    <2> QED
      BY <2>1, <2>2
  <1> QED
    BY <1>6, <1>7, <1>10 DEF CoreFits

LEMMA SpawnPartFits ==
  ASSUME CoreFits, NEW u \in Ours, SpawnPart(u)
  PROVE  CoreFits'
  <1>1. u \in started /\ work[u].stage = "sending" /\ s3' = s3
    BY DEF SpawnPart, AtStage
  <1>2. PICK i \in Part : /\ part[u][i] = "unsent" /\ part' = [part EXCEPT ![u][i] = "sending"]
                          /\ GoTo(u, "collecting") \/ UNCHANGED work
    BY DEF SpawnPart, Unsent
  <1>3. GoneOn
    <2>1. CASE GoTo(u, "collecting")
      BY <1>1, <2>1, StageGoneOn DEF CoreFits, Stage
    <2>2. CASE UNCHANGED work
      BY <2>2, WorkGoneOn DEF CoreFits
    <2> QED
      BY <1>2, <2>1, <2>2
  <1> QED
    BY <1>1, <1>2, <1>3, PartFits DEF PartState

LEMMA PartStepFits ==
  ASSUME CoreFits, NEW u \in Ours, PartStep(u)
  PROVE  CoreFits'
  <1>1. PICK i \in Part : PartSent(u, i) \/ PartFails(u, i)
    BY DEF PartStep
  <1>2. u \in started /\ part[u][i] = "sending" /\ work' = work
    BY <1>1 DEF PartSent, PartFails
  <1>3. work[u].stage \notin {"creating", "recording", "reading"}
    BY <1>2 DEF CoreFits, TasksFit
  <1>4. PICK to \in {"sent", "failed"} :
          /\ part' = [part EXCEPT ![u][i] = to]
          /\ \/ UNCHANGED s3 /\ to # "sent"
             \/ Open(u) /\ s3' = [s3 EXCEPT ![u].parts = @ \cup {i}]
    BY <1>1 DEF PartSent, PartFails
  <1>5. GoneOn
    BY <1>2, WorkGoneOn DEF CoreFits
  <1> QED
    BY <1>2, <1>3, <1>4, <1>5, PartFits DEF PartState

LEMMA CollectFits ==
  ASSUME CoreFits, NEW u \in Ours, Collect(u)
  PROVE  CoreFits'
  <1>1. /\ u \in started /\ work[u].stage = "collecting" /\ work[u].collected < Parts
        /\ s3' = s3 /\ part' = part
    BY DEF Collect, AtStage
  <1>2. CASE GoTo(u, "aborting")
    BY <1>1, <1>2, StageGoneOn, OnlyGoneOnFits DEF CoreFits, Stage
  <1>3. ASSUME NEW i, i = work[u].collected + 1, part[u][i] = "sent",
               work' = [work EXCEPT ![u].collected = i]
        PROVE  CoreFits'
    <2>1. work[u] \in Task /\ work \in [started -> Task] /\ work[u].collected \in 0 .. Parts
      BY <1>1 DEF CoreFits, CoreType, started, Task
    <2>2. i \in 1 .. Parts
      BY <1>1, <1>3, <2>1, MultipartAssumption
    <2>3. PICK r : r = [work[u] EXCEPT !.collected = i]
      OBVIOUS
    <2>4. /\ r \in Task /\ r.collected = i /\ r.stage = "collecting"
          /\ work' = [work EXCEPT ![u] = r]
      BY <1>1, <1>3, <2>1, <2>2, <2>3 DEF Task
    <2>5. started' = started /\ work' \in [started -> Task] /\ work'[u] = r
          /\ \A v \in started \ {u} : work'[v] = work[v]
      BY <1>1, <2>1, <2>4 DEF started
    <2>6. CoreType' /\ S3Fits'
      BY <1>1, <2>5 DEF CoreFits, CoreType, S3Fits, WholeObject, started
    <2>7. \A n \in 1 .. i : part[u][n] = "sent"
      <3>1. \A n \in 1 .. i : n = i \/ n \in 1 .. work[u].collected
        BY <1>3, <2>1
      <3> QED
        BY <1>1, <1>3, <3>1 DEF CoreFits, TasksFit
    <2>8. TasksFit'
      BY <1>1, <2>4, <2>5, <2>7 DEF CoreFits, TasksFit, Open
    <2> QED
      BY <2>6, <2>8 DEF CoreFits
  <1> QED
    BY <1>2, <1>3 DEF Collect

LEMMA CrashFits ==
  ASSUME CoreFits, Crash
  PROVE  CoreFits'
  <1>1. s3' = s3
    BY DEF Crash
  <1>2. /\ started' = started /\ work' \in [started -> Task]
        /\ \A v \in started : /\ work'[v].stage \in {"ended", "lost"}
                              /\ work'[v].collected = work[v].collected
    <2> DEFINE W(v) == [work[v] EXCEPT !.stage = IF @ \in {"returning", "ended"} THEN "ended" ELSE "lost"]
    <2>1. work' = [v \in started |-> W(v)]
      BY DEF Crash
    <2>2. ASSUME NEW v \in started
          PROVE  W(v) \in Task /\ W(v).stage \in {"ended", "lost"}
                 /\ W(v).collected = work[v].collected
      <3>1. work[v] \in Task
        BY DEF CoreFits, CoreType, started
      <3> QED
        BY <3>1 DEF Task, Stage
    <2> HIDE DEF W
    <2> QED
      BY <2>1, <2>2 DEF started
  <1>3. /\ part' \in [started -> [Part -> PartState]]
        /\ \A v \in started : \A i \in Part : part'[v][i] = "sent" <=> part[v][i] = "sent"
    <2> DEFINE Q(v) == [i \in Part |-> IF part[v][i] = "sending" THEN "failed" ELSE part[v][i]]
    <2>1. part' = [v \in started |-> Q(v)]
      BY DEF Crash
    <2>2. ASSUME NEW v \in started
          PROVE  /\ Q(v) \in [Part -> PartState]
                 /\ \A i \in Part : Q(v)[i] = "sent" <=> part[v][i] = "sent"
      <3>1. part[v] \in [Part -> PartState]
        BY DEF CoreFits, CoreType, started
      <3> QED
        BY <3>1 DEF PartState
    <2> HIDE DEF Q
    <2> QED
      BY <2>1, <2>2
  <1>4. CoreType' /\ S3Fits'
    BY <1>1, <1>2, <1>3 DEF CoreFits, CoreType, S3Fits, WholeObject, started
  <1>5. \A v \in started : 1 .. work[v].collected \subseteq Part
    <2> SUFFICES ASSUME NEW v \in started PROVE 1 .. work[v].collected \subseteq Part
      OBVIOUS
    <2>1. work[v].collected \in 0 .. Parts
      BY DEF CoreFits, CoreType, started, Task
    <2> QED
      BY <2>1, MultipartAssumption DEF Part
  <1>6. TasksFit'
    BY <1>1, <1>2, <1>3, <1>5 DEF CoreFits, TasksFit, Open
  <1> QED
    BY <1>4, <1>6 DEF CoreFits

-----------------------------------------------------------------------------
(***************************************************************************)
(* Every step.                                                             *)
(***************************************************************************)

LEMMA CreateFitsCore ==
  ASSUME CoreFits, NEW u \in Ours, Create(u) \/ CreateFails(u)
  PROVE  CoreFits'
  <1>1. u \in started /\ work[u].stage = "creating" /\ part' = part
    BY DEF Create, CreateFails, AtStage
  <1>2. PICK s \in {"recording", "returning"} : GoTo(u, s)
    BY DEF Create, CreateFails
  <1>3. UNCHANGED s3 \/ NewUpload(u, work[u].key)
    BY DEF Create, CreateFails
  <1>4. /\ work[u] \in Task /\ work[u].key \in Key /\ work[u].collected \in 0 .. Parts
        /\ u \notin DOMAIN s3 /\ \A i \in Part : part[u][i] = "unsent"
        /\ \A i \in 1 .. work[u].collected : part[u][i] = "sent"
    BY <1>1 DEF CoreFits, CoreType, TasksFit, started, Task
  <1>5. work[u].collected = 0
    <2> SUFFICES ASSUME work[u].collected # 0 PROVE FALSE
      OBVIOUS
    <2>1. 1 \in 1 .. work[u].collected /\ 1 \in Part
      BY <1>4, MultipartAssumption DEF Part
    <2> QED
      BY <1>4, <2>1
  <1>6. /\ started' = started /\ work' \in [started -> Task] /\ work'[u].stage = s
        /\ work'[u].collected = work[u].collected
        /\ \A v \in started \ {u} : work'[v] = work[v]
    BY <1>1, <1>2, StageStep DEF CoreFits, Stage
  <1>7. CASE UNCHANGED s3
    BY <1>1, <1>2, <1>7, StageKeeps DEF Stage
  <1>8. CASE NewUpload(u, work[u].key)
    <2>1. u \in UploadId /\ s \in Stage \ {"creating"}
      BY <1>2 DEF UploadId, Stage
    <2>2. \A v \in started : work'[v].collected = work[v].collected
      BY <1>6
    <2> QED
      BY <1>1, <1>4, <1>5, <1>6, <1>8, <2>1, <2>2, NewUploadFits
  <1> QED
    BY <1>3, <1>7, <1>8

LEMMA UploadStepFits ==
  ASSUME CoreFits, NEW u \in Ours, UploadStep(u)
  PROVE  CoreFits'
  <1>1. CASE Create(u) \/ CreateFails(u)
    BY <1>1, CreateFitsCore
  <1>2. CASE RecordIt(u)
    BY <1>2, StageKeeps DEF RecordIt, AtStage, Stage
  <1>3. CASE EarlyReturn(u)
    BY <1>3, StageKeeps DEF EarlyReturn, AtStage, Stage
  <1>4. CASE ReadFile(u)
    BY <1>4, StageKeeps DEF ReadFile, AtStage, Stage
  <1>5. CASE SpawnPart(u)
    BY <1>5, SpawnPartFits
  <1>6. CASE Collect(u)
    BY <1>6, CollectFits
  <1>7. CASE AbortOwn(u)
    <2>1. GoneOn
      BY <1>7, StageGoneOn DEF AbortOwn, AtStage, Stage, CoreFits
    <2> QED
      BY <1>7, <2>1, AbortedFits DEF AbortOwn
  <1>8. CASE Forget(u)
    BY <1>8, StageKeeps DEF Forget, AtStage, Stage
  <1>9. CASE Complete(u)
    <2>1. GoneOn
      BY <1>9, StageGoneOn DEF Complete, Collected, AtStage, Stage, CoreFits
    <2> QED
      BY <1>9, <2>1, FinishedFits DEF Complete
  <1>10. CASE CompleteFails(u)
    <2>1. GoneOn
      BY <1>10, StageGoneOn DEF CompleteFails, Collected, AtStage, Stage, CoreFits
    <2> QED
      BY <1>10, <2>1, FinishedFits DEF CompleteFails
  <1>11. CASE Return(u)
    BY <1>11, StageKeeps DEF Return, AtStage, Stage
  <1> QED
    BY <1>1, <1>2, <1>3, <1>4, <1>5, <1>6, <1>7, <1>8, <1>9, <1>10, <1>11 DEF UploadStep

LEMMA CoreStep ==
  ASSUME CoreFits, [MultipartNext]_vars
  PROVE  CoreFits'
  <1>1. ASSUME NEW u \in Ours, NEW k \in Key, Begin(u, k) PROVE CoreFits'
    BY <1>1, BeginFits
  <1>2. ASSUME NEW u \in Ours, UploadStep(u) \/ PartStep(u) PROVE CoreFits'
    BY <1>2, UploadStepFits, PartStepFits
  <1>3. ASSUME NEW u \in Ours, DetachedAbort(u) PROVE CoreFits'
    BY <1>3, WorkGoneOn, AbortedFits DEF DetachedAbort, CoreFits
  <1>4. CASE Crash
    BY <1>4, CrashFits
  <1>5. ASSUME NEW f \in Foreign, NEW k \in Key, ForeignStart(f, k) PROVE CoreFits'
    <2>1. f \in UploadId /\ f \notin Ours /\ f \notin started
      BY MultipartAssumption DEF UploadId, CoreFits, CoreType, started
    <2>2. f \notin DOMAIN s3 /\ NewUpload(f, k) /\ work' = work /\ part' = part
      BY <1>5 DEF ForeignStart
    <2>3. started' = started /\ work' \in [started -> Task]
      BY <2>2 DEF started, CoreFits, CoreType
    <2> QED
      BY <2>1, <2>2, <2>3, NewUploadFits
  <1>6. ASSUME NEW row \in Row, NEW confirmed \in BOOLEAN, PanelAbort(row, confirmed)
        PROVE  CoreFits'
    BY <1>6, WorkGoneOn, AbortedFits DEF PanelAbort, CoreFits
  <1>7. CASE UNCHANGED <<s3, work, part>>
    BY <1>7, WorkGoneOn, OnlyGoneOnFits DEF CoreFits
  <1> QED
    BY <1>1, <1>2, <1>3, <1>4, <1>5, <1>6, <1>7
       DEF MultipartNext, UploadNext, Lapse, ScanList, ScanClassify, PanelRemove, vars

LEMMA CoreInit == MultipartInit => CoreFits
  <1> SUFFICES ASSUME MultipartInit PROVE CoreFits
    OBVIOUS
  <1>1. s3 = [u \in {} |-> {}] /\ work = [u \in {} |-> {}] /\ part = [u \in {} |-> {}]
    BY DEF MultipartInit
  <1>2. DOMAIN s3 = {} /\ DOMAIN work = {} /\ DOMAIN part = {}
    BY <1>1
  <1> QED
    BY <1>1, <1>2 DEF CoreFits, CoreType, TasksFit, S3Fits, WholeObject, started

LEMMA RestStep ==
  ASSUME MultipartInv, [MultipartNext]_vars
  PROVE  RestType'
  <1>0. CoreType /\ RestType
    BY DEF MultipartInv, CoreFits
  <1>1. \A u \in started : u \in Ours /\ work[u].key \in Key
    BY <1>0 DEF CoreType, started, Task
  <1>2. \A u \in DOMAIN s3 : u \in UploadId /\ s3[u].key \in Key
    BY <1>0 DEF CoreType, Upload
  <1>3. table' \in [DOMAIN table' -> Ours] /\ DOMAIN table' \subseteq Key
    <2>1. ASSUME NEW k \in Key, NEW u \in Ours, Record(k, u)
          PROVE  table' \in [DOMAIN table' -> Ours] /\ DOMAIN table' \subseteq Key
      BY <1>0, <2>1 DEF Record, Mapped, RestType
    <2>2. ASSUME NEW k, Remove(k)
          PROVE  table' \in [DOMAIN table' -> Ours] /\ DOMAIN table' \subseteq Key
      BY <1>0, <2>2 DEF Remove, RestType
    <2>3. CASE table' = table
      BY <1>0, <2>3 DEF RestType
    <2>4. CASE \E u \in Ours : RecordIt(u)
      BY <1>1, <2>1, <2>4 DEF RecordIt, AtStage
    <2>5. CASE \E u \in Ours : Forget(u)
      BY <2>2, <2>5 DEF Forget
    <2>6. CASE \E k \in Key : PanelRemove(k)
      BY <2>2, <2>6 DEF PanelRemove
    <2> QED
      BY <2>3, <2>4, <2>5, <2>6
         DEF MultipartNext, UploadNext, UploadStep, PartStep, Begin, Create, CreateFails, EarlyReturn,
             ReadFile, SpawnPart, PartSent, PartFails, Collect, AbortOwn, Complete, CompleteFails,
             DetachedAbort, Return, Crash, Lapse, ForeignStart, ScanList, ScanClassify, PanelAbort, vars
  <1>4. owner' \in [Key -> Ours \cup {None}]
    <2>1. CASE owner' = owner
      BY <1>0, <2>1 DEF RestType
    <2>2. CASE \E u \in Ours, k \in Key : Begin(u, k)
      BY <1>0, <2>2 DEF Begin, RestType
    <2>3. CASE \E u \in Ours : Return(u)
      BY <1>0, <2>3 DEF Return, RestType
    <2>4. CASE \E u \in Ours : Lapse(u)
      BY <1>0, <2>4 DEF Lapse, RestType
    <2>5. CASE Crash
      BY <2>5 DEF Crash
    <2> QED
      BY <2>1, <2>2, <2>3, <2>4, <2>5
         DEF MultipartNext, UploadNext, UploadStep, PartStep, Create, CreateFails, RecordIt, EarlyReturn,
             ReadFile, SpawnPart, PartSent, PartFails, Collect, AbortOwn, Forget, Complete,
             CompleteFails, DetachedAbort, ForeignStart, ScanList, ScanClassify, PanelAbort,
             PanelRemove, vars
  <1>5. detached' \subseteq Ours
    BY <1>0 DEF RestType, MultipartNext, UploadNext, UploadStep, PartStep, Begin, Create, CreateFails,
       RecordIt, EarlyReturn, ReadFile, SpawnPart, PartSent, PartFails, Collect, AbortOwn, Forget,
       Complete, CompleteFails, DetachedAbort, Return, Crash, Lapse, ForeignStart, ScanList,
       ScanClassify, PanelAbort, PanelRemove, vars
  <1>6. /\ listed' \subseteq UploadId /\ shown' \subseteq Row /\ removing' \subseteq Key
        /\ crashes' \in 0 .. MaxCrashes /\ aborts' \in 0 .. MaxAborts
    <2>1. CASE ScanList
      BY <1>0, <1>2, <2>1 DEF ScanList, RestType
    <2>2. CASE ScanClassify
      BY <1>0, <2>2 DEF ScanClassify, RestType, Row
    <2>3. CASE \E row \in Row, confirmed \in BOOLEAN : PanelAbort(row, confirmed)
      BY <1>0, <1>2, <2>3, MultipartAssumption DEF PanelAbort, RestType, Open
    <2>4. CASE \E k \in Key : PanelRemove(k)
      BY <1>0, <2>4 DEF PanelRemove, RestType
    <2>5. CASE Crash
      BY <1>0, <2>5, MultipartAssumption DEF Crash, RestType
    <2>6. CASE UNCHANGED <<listed, shown, removing, crashes, aborts>>
      BY <1>0, <2>6 DEF RestType
    <2> QED
      BY <2>1, <2>2, <2>3, <2>4, <2>5, <2>6
         DEF MultipartNext, UploadNext, UploadStep, PartStep, Begin, Create, CreateFails, RecordIt,
             EarlyReturn, ReadFile, SpawnPart, PartSent, PartFails, Collect, AbortOwn, Forget, Complete,
             CompleteFails, DetachedAbort, Return, Lapse, ForeignStart, vars, panelVars
  <1> QED
    BY <1>3, <1>4, <1>5, <1>6 DEF RestType

LEMMA MultipartInvInit == MultipartInit => MultipartInv
  <1> SUFFICES ASSUME MultipartInit PROVE MultipartInv
    OBVIOUS
  <1>1. RestType
    BY MultipartAssumption DEF MultipartInit, RestType
  <1> QED
    BY <1>1, CoreInit DEF MultipartInv

LEMMA MultipartInvStep == MultipartInv /\ [MultipartNext]_vars => MultipartInv'
  BY CoreStep, RestStep DEF MultipartInv

(***************************************************************************)
(* Objects are whole, with the panel open, locks that lapse, other tools,  *)
(* and the app dying at any moment.                                        *)
(***************************************************************************)
THEOREM ObjectsAreWhole == MultipartSpec => [](MultipartTypeOK /\ WholeObject)
  <1> QED
    BY MultipartInvInit, MultipartInvStep, InvTypes, PTL DEF MultipartSpec

-----------------------------------------------------------------------------
(***************************************************************************)
(* The panel.                                                              *)
(***************************************************************************)

\* The panel takes no upload of another tool for one of brows3r.
RowsAreRight == \A row \in shown : row.source = "brows3r" => row.id \in Ours

LEMMA RowsStep == MultipartInv /\ RowsAreRight /\ [MultipartNext]_vars => RowsAreRight'
  <1> SUFFICES ASSUME MultipartInv, RowsAreRight, [MultipartNext]_vars
               PROVE  RowsAreRight'
    OBVIOUS
  <1>1. \A u : InTable(u) => u \in Ours
    BY DEF MultipartInv, RestType, InTable
  <1>2. CASE ScanClassify
    BY <1>1, <1>2 DEF ScanClassify, RowsAreRight
  <1>3. CASE shown' = shown \/ shown' = {}
    BY <1>3 DEF RowsAreRight
  <1> QED
    BY <1>2, <1>3
       DEF MultipartNext, UploadNext, UploadStep, PartStep, Begin, Create, CreateFails, RecordIt,
           EarlyReturn, ReadFile, SpawnPart, PartSent, PartFails, Collect, AbortOwn, Forget, Complete,
           CompleteFails, DetachedAbort, Return, Crash, Lapse, ForeignStart, ScanList, PanelAbort,
           PanelRemove, vars, panelVars

\* What a step may abort of another tool's uploads.
LEMMA ForeignAsked ==
  ASSUME MultipartInv, RowsAreRight, [MultipartNext]_vars,
         NEW f \in Foreign, Open(f), s3'[f].state = "aborted"
  PROVE  [id |-> f, source |-> "unknown"] \in shown
  <1>1. f \in DOMAIN s3 /\ s3[f].state = "open" /\ f \notin Ours /\ f \notin started
    BY MultipartAssumption DEF Open, MultipartInv, CoreFits, CoreType, started
  <1>2. ASSUME NEW u, Open(u), s3' = Aborted(u)
        PROVE  u = f
    BY <1>1, <1>2 DEF Aborted, Open
  <1>3. ASSUME NEW u \in UploadId \ DOMAIN s3, NEW k, NewUpload(u, k)
        PROVE  FALSE
    BY <1>1, <1>3 DEF NewUpload, Mapped
  <1>4. ASSUME NEW u, Open(u), s3' = Finished(u)
        PROVE  FALSE
    BY <1>1, <1>4 DEF Finished, Open, MultipartInv, CoreFits, CoreType, Upload
  <1>5. ASSUME NEW u, NEW i, Open(u), s3' = [s3 EXCEPT ![u].parts = @ \cup {i}]
        PROVE  FALSE
    BY <1>1, <1>5 DEF Open, MultipartInv, CoreFits, CoreType, Upload
  <1>6. CASE s3' = s3
    BY <1>1, <1>6
  <1>7. ASSUME NEW u \in Ours, UploadStep(u) \/ PartStep(u) \/ DetachedAbort(u)
        PROVE  FALSE
    <2>1. u # f
      BY <1>1
    <2>2. CASE Create(u) \/ CreateFails(u)
      <3>1. u \in UploadId \ DOMAIN s3
        BY <2>2 DEF Create, CreateFails, AtStage, MultipartInv, CoreFits, TasksFit, UploadId
      <3> QED
        BY <1>3, <1>6, <2>2, <3>1, <1>1 DEF Create, CreateFails
    <2>3. CASE PartStep(u)
      BY <1>1, <1>5, <2>3 DEF PartStep, PartSent, PartFails
    <2>4. CASE AbortOwn(u) \/ DetachedAbort(u)
      BY <1>1, <1>2, <2>1, <2>4 DEF AbortOwn, DetachedAbort
    <2>5. CASE Complete(u) \/ CompleteFails(u)
      BY <1>1, <1>4, <2>5 DEF Complete, CompleteFails
    <2> QED
      BY <1>1, <1>7, <2>2, <2>3, <2>4, <2>5
         DEF UploadStep, RecordIt, EarlyReturn, ReadFile, SpawnPart, Collect, Forget, Return
  <1>8. ASSUME NEW k \in Key, ForeignStart(f, k) \/ \E g \in Foreign : ForeignStart(g, k)
        PROVE  FALSE
    BY <1>1, <1>3, <1>8 DEF ForeignStart, UploadId
  <1>9. ASSUME NEW row \in Row, NEW confirmed \in BOOLEAN, PanelAbort(row, confirmed)
        PROVE  [id |-> f, source |-> "unknown"] \in shown
    <2>1. row.id = f /\ row \in shown
      BY <1>2, <1>9 DEF PanelAbort
    <2>2. row.source = "unknown"
      BY <1>1, <2>1 DEF RowsAreRight, Row
    <2>3. row = [id |-> f, source |-> "unknown"]
      BY <2>1, <2>2 DEF Row
    <2> QED
      BY <2>1, <2>3
  <1> QED
    BY <1>6, <1>7, <1>8, <1>9
       DEF MultipartNext, UploadNext, Begin, Crash, Lapse, ScanList, ScanClassify, PanelRemove, vars

(***************************************************************************)
(* No upload of another tool is aborted unless the panel shows it as such  *)
(* and has asked.                                                          *)
(***************************************************************************)
THEOREM ForeignAreAskedFirst == MultipartSpec => ForeignAskedFirst
  <1>1. MultipartInit => RowsAreRight
    BY DEF MultipartInit, RowsAreRight
  <1>2. MultipartInv /\ RowsAreRight /\ [MultipartNext]_vars =>
          [\A f \in Foreign :
             Open(f) /\ s3'[f].state = "aborted" =>
               [id |-> f, source |-> "unknown"] \in shown]_vars
    BY ForeignAsked
  <1> QED
    BY MultipartInvInit, MultipartInvStep, RowsStep, <1>1, <1>2, PTL
       DEF MultipartSpec, ForeignAskedFirst

-----------------------------------------------------------------------------
(***************************************************************************)
(* The record of an upload, while locks last and the panel is closed.      *)
(***************************************************************************)

AtWork == Stage \ {"ended", "lost"}

Recorded(u) == work[u].key \in DOMAIN table /\ table[work[u].key] = u

Alone(u) == \A v \in started \ {u} : work[v].key # work[u].key

Traced(u) ==
  /\ work[u].stage \in AtWork => owner[work[u].key] = u
  /\ work[u].stage \in {"reading", "sending", "collecting", "aborting", "forgetting"} => Recorded(u)
  /\ work[u].stage = "lost" => \A i \in Part : part[u][i] # "sending"
  /\ work[u].stage = "lost" /\ Open(u) /\ s3[u].parts # {} /\ Alone(u) => Recorded(u)
  /\ work[u].stage = "recording" /\ Open(u) => s3[u].parts = {}
  /\ work[u].stage = "unrecording" => ~Open(u)

TraceInv == MultipartInv /\ \A u \in started : Traced(u)

LEMMA TraceInvKeeps == TraceInv => TracesAreKept
  BY InvTypes DEF TraceInv, Traced, Recorded, Alone, TracesAreKept, WorkIsTracked, CrashLeavesTrace,
                  InTable, AtStage

\* What a step of u leaves alone.
AwayFrom(u) ==
  /\ started' = started /\ work'[u].key = work[u].key
  /\ \A v \in started \ {u} : /\ work'[v] = work[v] /\ part'[v] = part[v]
                              /\ (v \in DOMAIN s3' <=> v \in DOMAIN s3)
                              /\ (v \in DOMAIN s3 => s3'[v] = s3[v])
  /\ \A k \in Key \ {work[u].key} : /\ (k \in DOMAIN table' <=> k \in DOMAIN table)
                                    /\ (k \in DOMAIN table => table'[k] = table[k])
  /\ \A k \in Key : owner[k] # u => owner'[k] = owner[k]

\* A step of u that leaves the table alone, or is one of a task that works.
LEMMA OthersTraced ==
  ASSUME TraceInv, NEW u \in started, AwayFrom(u),
         table' = table \/ work[u].stage \in AtWork, NEW v \in started \ {u}
  PROVE  Traced(v)'
  <1>1. Traced(v) /\ Traced(u) /\ v # u
    BY DEF TraceInv
  <1>2. /\ work'[v] = work[v] /\ part'[v] = part[v] /\ (Open(v)' <=> Open(v))
        /\ Open(v) => s3'[v] = s3[v]
    BY DEF AwayFrom, Open
  <1>3. work[v].key \in Key
    BY DEF TraceInv, MultipartInv, CoreFits, CoreType, started, Task
  <1>4. work[v].stage \in AtWork => owner'[work[v].key] = v
    BY <1>1, <1>3 DEF Traced, AwayFrom
  <1>5. table' = table \/ work[v].key # work[u].key => (Recorded(v) => Recorded(v)')
    BY <1>2, <1>3 DEF Recorded, AwayFrom
  <1>6. work[v].stage \in {"reading", "sending", "collecting", "aborting", "forgetting"}
          => Recorded(v)'
    <2> SUFFICES ASSUME work[v].stage \in {"reading", "sending", "collecting", "aborting", "forgetting"}
                 PROVE  Recorded(v)'
      OBVIOUS
    <2>1. Recorded(v) /\ owner[work[v].key] = v
      BY <1>1 DEF Traced, AtWork, Stage
    <2>2. table' = table \/ owner[work[u].key] = u
      BY <1>1 DEF Traced
    <2> QED
      BY <1>1, <1>5, <2>1, <2>2
  <1>7. Alone(v)' => Alone(v) /\ work[v].key # work[u].key
    BY <1>1, <1>2 DEF Alone, AwayFrom
  <1>8. work[v].stage = "lost" /\ Open(v)' /\ s3'[v].parts # {} /\ Alone(v)' => Recorded(v)'
    <2> SUFFICES ASSUME work[v].stage = "lost", Open(v)', s3'[v].parts # {}, Alone(v)'
                 PROVE  Recorded(v)'
      OBVIOUS
    <2>1. Open(v) /\ s3[v].parts # {} /\ Alone(v)
      BY <1>2, <1>7
    <2>2. Recorded(v)
      BY <1>1, <2>1 DEF Traced
    <2> QED
      BY <1>5, <1>7, <2>2
  <1>9. work[v].stage = "lost" => \A i \in Part : part'[v][i] # "sending"
    BY <1>1, <1>2 DEF Traced
  <1>10. /\ work[v].stage = "recording" /\ Open(v)' => s3'[v].parts = {}
         /\ work[v].stage = "unrecording" => ~Open(v)'
    BY <1>1, <1>2 DEF Traced
  <1> QED
    BY <1>2, <1>4, <1>6, <1>8, <1>9, <1>10 DEF Traced

LEMMA StageAway ==
  ASSUME MultipartInv, NEW u \in started, NEW s \in Stage, GoTo(u, s),
         \A v \in started \ {u} : /\ part'[v] = part[v]
                                  /\ (v \in DOMAIN s3' <=> v \in DOMAIN s3)
                                  /\ (v \in DOMAIN s3 => s3'[v] = s3[v]),
         \A k \in Key \ {work[u].key} : /\ (k \in DOMAIN table' <=> k \in DOMAIN table)
                                        /\ (k \in DOMAIN table => table'[k] = table[k]),
         \A k \in Key : owner[k] # u => owner'[k] = owner[k]
  PROVE  AwayFrom(u) /\ work'[u].stage = s /\ started' = started /\ work'[u].key = work[u].key
  BY StageStep DEF AwayFrom, MultipartInv, CoreFits

\* S3 and the others' uploads.
LEMMA OthersUploads ==
  ASSUME MultipartInv, NEW u \in Ours,
         \/ UNCHANGED s3 \/ (Open(u) /\ s3' = Aborted(u)) \/ (Open(u) /\ s3' = Finished(u))
         \/ \E k : NewUpload(u, k)
         \/ \E i : Open(u) /\ s3' = [s3 EXCEPT ![u].parts = @ \cup {i}],
         NEW v, v # u
  PROVE  (v \in DOMAIN s3' <=> v \in DOMAIN s3) /\ (v \in DOMAIN s3 => s3'[v] = s3[v])
  BY DEF Aborted, Finished, NewUpload, Mapped, MultipartInv, CoreFits, CoreType, Open

\* The step of one task, put together.
LEMMA TaskTraced ==
  ASSUME TraceInv, NEW u \in started, NEW s \in Stage, GoTo(u, s),
         work[u].stage \in AtWork, part' = part,
         \/ UNCHANGED s3 \/ (Open(u) /\ s3' = Aborted(u)) \/ (Open(u) /\ s3' = Finished(u))
         \/ \E k : NewUpload(u, k),
         \/ table' = table \/ Record(work[u].key, u) \/ Remove(work[u].key),
         \A k \in Key : owner[k] # u => owner'[k] = owner[k],
         s \in AtWork => owner' = owner,
         s \in {"reading", "sending", "collecting", "aborting", "forgetting"} => Recorded(u)',
         s # "lost", s = "recording" /\ Open(u)' => s3'[u].parts = {},
         s = "unrecording" => ~Open(u)'
  PROVE  \A v \in started' : Traced(v)'
  <1>1. MultipartInv /\ Traced(u) /\ u \in Ours /\ work[u].key \in Key
    BY DEF TraceInv, MultipartInv, CoreFits, CoreType, started, Task
  <1>2. \A k \in Key \ {work[u].key} : /\ (k \in DOMAIN table' <=> k \in DOMAIN table)
                                        /\ (k \in DOMAIN table => table'[k] = table[k])
    <2>1. CASE table' = table
      BY <2>1
    <2>2. CASE Record(work[u].key, u)
      BY <2>2 DEF Record, Mapped
    <2>3. CASE Remove(work[u].key)
      BY <2>3 DEF Remove
    <2> QED
      BY <2>1, <2>2, <2>3
  <1>3. \A v \in started \ {u} : /\ part'[v] = part[v]
                                 /\ (v \in DOMAIN s3' <=> v \in DOMAIN s3)
                                 /\ (v \in DOMAIN s3 => s3'[v] = s3[v])
    BY <1>1, OthersUploads
  <1>4. AwayFrom(u) /\ work'[u].stage = s /\ started' = started /\ work'[u].key = work[u].key
    BY <1>1, <1>2, <1>3, StageAway
  <1>5. \A v \in started \ {u} : Traced(v)'
    BY <1>4, OthersTraced
  <1>6. Traced(u)'
    BY <1>1, <1>4 DEF Traced
  <1> QED
    BY <1>4, <1>5, <1>6

\* The step of a part, of the loop over them, or of S3.
LEMMA PartTraced ==
  ASSUME TraceInv, NEW u \in started,
         started' = started, work'[u].key = work[u].key,
         \A v \in started \ {u} : work'[v] = work[v] /\ part'[v] = part[v],
         \/ UNCHANGED s3 \/ (Open(u) /\ s3' = Aborted(u))
         \/ \E i : Open(u) /\ s3' = [s3 EXCEPT ![u].parts = @ \cup {i}],
         UNCHANGED <<table, owner>>,
         \/ work'[u].stage = work[u].stage
         \/ work'[u].stage = "collecting" /\ work[u].stage = "sending",
         work[u].stage = "lost" =>
            /\ \A i \in Part : part'[u][i] # "sending"
            /\ Open(u)' => s3' = s3,
         work[u].stage = "recording" => (Open(u)' => s3' = s3)
  PROVE  \A v \in started' : Traced(v)'
  <1>1. MultipartInv /\ Traced(u) /\ u \in Ours
    BY DEF TraceInv, MultipartInv, CoreFits, CoreType, started
  <1>2. \A v \in started \ {u} : /\ (v \in DOMAIN s3' <=> v \in DOMAIN s3)
                                 /\ (v \in DOMAIN s3 => s3'[v] = s3[v])
    BY <1>1, OthersUploads
  <1>3. AwayFrom(u)
    BY <1>2 DEF AwayFrom
  <1>4. \A v \in started \ {u} : Traced(v)'
    BY <1>3, OthersTraced
  <1>5. Open(u)' => Open(u)
    BY <1>1 DEF Open, Aborted, MultipartInv, CoreFits, CoreType
  <1>6. Recorded(u)' <=> Recorded(u)
    BY DEF Recorded
  <1>7. /\ work'[u].stage \in AtWork => owner'[work'[u].key] = u
        /\ work'[u].stage \in {"reading", "sending", "collecting", "aborting", "forgetting"}
             => Recorded(u)'
        /\ work'[u].stage = "unrecording" => ~Open(u)'
    BY <1>1, <1>5, <1>6 DEF Traced, AtWork, Stage
  <1>8. work'[u].stage = "lost" \/ work'[u].stage = "recording" => work'[u].stage = work[u].stage
    OBVIOUS
  <1>9. ASSUME work'[u].stage = "lost", Open(u)', s3'[u].parts # {}, Alone(u)'
        PROVE  Recorded(u)'
    <2>1. s3' = s3 /\ work[u].stage = "lost" /\ Open(u)
      BY <1>5, <1>8, <1>9
    <2>2. Alone(u)
      BY <1>9 DEF Alone
    <2> QED
      BY <1>1, <1>6, <1>9, <2>1, <2>2 DEF Traced
  <1>10. ASSUME work'[u].stage = "recording", Open(u)'
         PROVE  s3'[u].parts = {}
    BY <1>1, <1>5, <1>8, <1>10 DEF Traced
  <1>11. Traced(u)'
    BY <1>7, <1>8, <1>9, <1>10 DEF Traced
  <1> QED
    BY <1>4, <1>11

LEMMA UploadStepTraced ==
  ASSUME TraceInv, NEW u \in Ours, UploadStep(u)
  PROVE  \A v \in started' : Traced(v)'
  <1>1. u \in started /\ Traced(u) /\ CoreFits
    BY DEF UploadStep, Create, CreateFails, RecordIt, EarlyReturn, ReadFile, SpawnPart, Collect,
           AbortOwn, Forget, Complete, CompleteFails, Collected, Return, AtStage, TraceInv, MultipartInv
  <1>2. CASE Create(u) \/ CreateFails(u)
    <2>1. /\ part' = part /\ work[u].stage = "creating" /\ table' = table /\ owner' = owner
          /\ UNCHANGED s3 \/ NewUpload(u, work[u].key)
      BY <1>2 DEF Create, CreateFails, AtStage
    <2>2. PICK s \in {"recording", "returning"} :
            GoTo(u, s) /\ (s = "recording" => NewUpload(u, work[u].key))
      BY <1>2 DEF Create, CreateFails
    <2>3. s = "recording" => s3'[u].parts = {}
      BY <2>2 DEF NewUpload, Mapped
    <2> QED
      BY <1>1, <2>1, <2>2, <2>3, TaskTraced DEF Stage, AtWork
  <1>3. CASE RecordIt(u)
    <2>1. /\ work[u].stage = "recording" /\ GoTo(u, "reading") /\ Record(work[u].key, u)
          /\ UNCHANGED <<s3, part, owner>>
      BY <1>3 DEF RecordIt, AtStage
    <2>2. work'[u].key = work[u].key
      BY <1>1, <2>1, StageStep DEF CoreFits, Stage
    <2>3. Recorded(u)'
      BY <2>1, <2>2 DEF Recorded, Record, Mapped
    <2> QED
      BY <1>1, <2>1, <2>3, TaskTraced DEF Stage, AtWork
  <1>4. CASE EarlyReturn(u)
    BY <1>1, <1>4, TaskTraced DEF EarlyReturn, AtStage, Stage, AtWork
  <1>5. CASE ReadFile(u)
    <2>1. /\ work[u].stage = "reading" /\ GoTo(u, "sending")
          /\ UNCHANGED <<s3, table, part, owner>>
      BY <1>5 DEF ReadFile, AtStage
    <2>2. work'[u].key = work[u].key
      BY <1>1, <2>1, StageStep DEF CoreFits, Stage
    <2>3. Recorded(u)'
      BY <1>1, <2>1, <2>2 DEF Recorded, Traced
    <2> QED
      BY <1>1, <2>1, <2>3, TaskTraced DEF Stage, AtWork
  <1>6. CASE SpawnPart(u)
    <2>1. /\ work[u].stage = "sending" /\ UNCHANGED <<s3, table, owner>>
          /\ GoTo(u, "collecting") \/ UNCHANGED work
      BY <1>6 DEF SpawnPart, AtStage
    <2>2. PICK i \in Part : part' = [part EXCEPT ![u][i] = "sending"]
      BY <1>6 DEF SpawnPart, Unsent
    <2>3. \A v \in started \ {u} : part'[v] = part[v]
      BY <2>2 DEF CoreFits, CoreType, started
    <2>4. /\ started' = started /\ work'[u].key = work[u].key
          /\ work'[u].stage \in {"sending", "collecting"}
          /\ \A v \in started \ {u} : work'[v] = work[v]
      BY <1>1, <2>1, StageStep DEF CoreFits, Stage, started
    <2> QED
      BY <1>1, <2>1, <2>3, <2>4, PartTraced
  <1>7. CASE Collect(u)
    <2>1. /\ work[u].stage = "collecting" /\ UNCHANGED <<s3, table, part, owner>>
      BY <1>7 DEF Collect, AtStage
    <2>2. CASE GoTo(u, "aborting")
      <3>1. work'[u].key = work[u].key
        BY <1>1, <2>2, StageStep DEF CoreFits, Stage
      <3>2. Recorded(u)'
        BY <1>1, <2>1, <3>1 DEF Recorded, Traced
      <3> QED
        BY <1>1, <2>1, <2>2, <3>2, TaskTraced DEF Stage, AtWork
    <2>3. ASSUME NEW i, work' = [work EXCEPT ![u].collected = i]
          PROVE  \A v \in started' : Traced(v)'
      <3>1. work[u] \in Task /\ work \in [started -> Task]
        BY <1>1 DEF CoreFits, CoreType, started
      <3>2. /\ started' = started /\ work'[u].key = work[u].key /\ work'[u].stage = work[u].stage
            /\ \A v \in started \ {u} : work'[v] = work[v]
        BY <1>1, <2>3, <3>1 DEF Task, started
      <3> QED
        BY <1>1, <2>1, <3>2, PartTraced
    <2> QED
      BY <1>7, <2>2, <2>3 DEF Collect
  <1>8. CASE AbortOwn(u)
    <2>1. /\ work[u].stage = "aborting" /\ GoTo(u, "forgetting")
          /\ UNCHANGED s3 \/ (Open(u) /\ s3' = Aborted(u))
          /\ UNCHANGED <<table, part, owner>>
      BY <1>8 DEF AbortOwn, AtStage
    <2>2. work'[u].key = work[u].key
      BY <1>1, <2>1, StageStep DEF CoreFits, Stage
    <2>3. Recorded(u)'
      BY <1>1, <2>1, <2>2 DEF Recorded, Traced
    <2> QED
      BY <1>1, <2>1, <2>3, TaskTraced DEF Stage, AtWork
  <1>9. CASE Forget(u)
    BY <1>1, <1>9, TaskTraced DEF Forget, AtStage, Stage, AtWork
  <1>10. CASE Complete(u)
    <2>1. /\ work[u].stage = "collecting" /\ GoTo(u, "unrecording") /\ Open(u) /\ s3' = Finished(u)
          /\ UNCHANGED <<table, part, owner>>
      BY <1>10 DEF Complete, Collected, AtStage
    <2>2. ~Open(u)'
      BY <1>1, <2>1 DEF Open, Finished, CoreFits, CoreType, Upload
    <2> QED
      BY <1>1, <2>1, <2>2, TaskTraced DEF Stage, AtWork
  <1>11. CASE CompleteFails(u)
    BY <1>1, <1>11, TaskTraced DEF CompleteFails, Collected, AtStage, Stage, AtWork
  <1>12. CASE Return(u)
    <2>1. /\ work[u].stage = "returning" /\ GoTo(u, "ended") /\ UNCHANGED <<s3, table, part>>
          /\ \A k \in Key : owner[k] # u => owner'[k] = owner[k]
      BY <1>12 DEF Return, AtStage
    <2> QED
      BY <1>1, <2>1, TaskTraced DEF Stage, AtWork
  <1> QED
    BY <1>2, <1>3, <1>4, <1>5, <1>6, <1>7, <1>8, <1>9, <1>10, <1>11, <1>12 DEF UploadStep

LEMMA PartStepTraced ==
  ASSUME TraceInv, NEW u \in Ours, PartStep(u)
  PROVE  \A v \in started' : Traced(v)'
  <1>1. PICK i \in Part : PartSent(u, i) \/ PartFails(u, i)
    BY DEF PartStep
  <1>2. u \in started /\ part[u][i] = "sending" /\ UNCHANGED <<work, table, owner>>
    BY <1>1 DEF PartSent, PartFails
  <1>3. Traced(u) /\ CoreFits
    BY <1>2 DEF TraceInv, MultipartInv
  <1>4. work[u].stage # "lost" /\ work[u].stage # "recording"
    BY <1>2, <1>3 DEF Traced, CoreFits, TasksFit
  <1>5. \A v \in started \ {u} : part'[v] = part[v]
    BY <1>1, <1>3 DEF PartSent, PartFails, CoreFits, CoreType, started
  <1>6. \/ UNCHANGED s3 \/ (Open(u) /\ s3' = Aborted(u))
        \/ \E n : Open(u) /\ s3' = [s3 EXCEPT ![u].parts = @ \cup {n}]
    BY <1>1 DEF PartSent, PartFails
  <1> QED
    BY <1>2, <1>4, <1>5, <1>6, PartTraced DEF started

LEMMA DetachedTraced ==
  ASSUME TraceInv, NEW u \in Ours, DetachedAbort(u)
  PROVE  \A v \in started' : Traced(v)'
  <1>1. UNCHANGED <<table, work, part, owner>>
    BY DEF DetachedAbort
  <1>2. CASE UNCHANGED s3
    BY <1>1, <1>2 DEF TraceInv, Traced, Recorded, Alone, Open, started
  <1>3. CASE Open(u) /\ s3' = Aborted(u)
    <2>1. u \in started /\ CoreFits
      BY <1>3 DEF TraceInv, MultipartInv, CoreFits, S3Fits, Open
    <2>2. ~Open(u)'
      BY <1>3, <2>1 DEF Open, Aborted, CoreFits, CoreType, Upload
    <2>3. work[u].stage = "lost" => \A i \in Part : part'[u][i] # "sending"
      BY <1>1, <2>1 DEF TraceInv, Traced
    <2> QED
      BY <1>1, <1>3, <2>1, <2>2, <2>3, PartTraced DEF started
  <1> QED
    BY <1>2, <1>3 DEF DetachedAbort

LEMMA BeginTraced ==
  ASSUME TraceInv, NEW u \in Ours, NEW k \in Key, Begin(u, k)
  PROVE  \A v \in started' : Traced(v)'
  <1>1. PICK t : t = [key |-> k, stage |-> "creating", collected |-> 0]
    OBVIOUS
  <1>2. /\ u \notin started /\ owner[k] = None /\ owner' = [owner EXCEPT ![k] = u]
        /\ work' = Mapped(work, u, t) /\ UNCHANGED <<s3, table>>
    BY <1>1 DEF Begin
  <1>3. /\ started' = started \cup {u} /\ work'[u] = t
        /\ \A v \in started : work'[v] = work[v]
    BY <1>2 DEF Mapped, started
  <1>4. \A v \in started : part'[v] = part[v]
    BY <1>2 DEF Begin, Mapped, TraceInv, MultipartInv, CoreFits, CoreType, started
  <1>5. Traced(u)'
    <2>1. owner'[k] = u
      BY <1>2 DEF TraceInv, MultipartInv, RestType
    <2> QED
      BY <1>1, <1>3, <2>1 DEF Traced
  <1>6. ASSUME NEW v \in started PROVE Traced(v)'
    <2>1. Traced(v) /\ v # u /\ work[v].key \in Key /\ v # None
      BY <1>2, MultipartAssumption DEF TraceInv, MultipartInv, CoreFits, CoreType, started, Task
    <2>2. /\ work'[v] = work[v] /\ part'[v] = part[v] /\ (Open(v)' <=> Open(v)) /\ s3' = s3
          /\ (Recorded(v)' <=> Recorded(v)) /\ (Alone(v)' => Alone(v))
      BY <1>2, <1>3, <1>4 DEF Open, Recorded, Alone
    <2>3. work[v].stage \in AtWork => owner'[work[v].key] = v
      BY <1>2, <2>1 DEF Traced, TraceInv, MultipartInv, RestType
    <2> QED
      BY <2>1, <2>2, <2>3 DEF Traced
  <1> QED
    BY <1>3, <1>5, <1>6

LEMMA CrashTraced ==
  ASSUME TraceInv, Crash
  PROVE  \A v \in started' : Traced(v)'
  <1>1. /\ UNCHANGED <<s3, table>> /\ started' = started
        /\ \A v \in started : /\ work'[v].key = work[v].key
                              /\ work'[v].stage = IF work[v].stage \in {"returning", "ended"}
                                                  THEN "ended" ELSE "lost"
        /\ \A v \in started : \A i \in Part : part'[v][i] # "sending"
    BY DEF Crash, started, TraceInv, MultipartInv, CoreFits, CoreType, Task
  <1>2. ASSUME NEW v \in started PROVE Traced(v)'
    <2>1. /\ Traced(v) /\ work[v].stage \in Stage
          /\ work[v].stage = "creating" => ~Open(v)
      BY DEF TraceInv, MultipartInv, CoreFits, CoreType, TasksFit, started, Task, Open
    <2>2. (Open(v)' <=> Open(v)) /\ (Recorded(v)' <=> Recorded(v)) /\ (Alone(v)' <=> Alone(v))
      BY <1>1 DEF Open, Recorded, Alone
    <2>3. ASSUME work[v].stage \notin {"returning", "ended"}, Open(v), s3[v].parts # {}, Alone(v)
          PROVE  Recorded(v)
      BY <2>1, <2>3 DEF Traced, Stage
    <2> QED
      BY <1>1, <2>2, <2>3 DEF Traced, AtWork
  <1> QED
    BY <1>1, <1>2

LEMMA TraceInvInit == MultipartInit => TraceInv
  <1> SUFFICES ASSUME MultipartInit PROVE TraceInv
    OBVIOUS
  <1>1. started = {}
    BY DEF MultipartInit, started
  <1> QED
    BY <1>1, MultipartInvInit DEF TraceInv

LEMMA TraceInvStep == TraceInv /\ [UploadNext]_vars => TraceInv'
  <1> SUFFICES ASSUME TraceInv, [UploadNext]_vars PROVE TraceInv'
    OBVIOUS
  <1>1. MultipartInv'
    BY MultipartInvStep DEF TraceInv, MultipartNext
  <1>2. \A v \in started' : Traced(v)'
    <2>1. ASSUME NEW u \in Ours, NEW k \in Key, Begin(u, k) PROVE \A v \in started' : Traced(v)'
      BY <2>1, BeginTraced
    <2>2. ASSUME NEW u \in Ours, UploadStep(u) \/ PartStep(u) \/ DetachedAbort(u)
          PROVE  \A v \in started' : Traced(v)'
      BY <2>2, UploadStepTraced, PartStepTraced, DetachedTraced
    <2>3. CASE Crash
      BY <2>3, CrashTraced
    <2>4. CASE UNCHANGED vars
      BY <2>4 DEF vars, TraceInv, Traced, Recorded, Alone, Open, started
    <2> QED
      BY <2>1, <2>2, <2>3, <2>4 DEF UploadNext
  <1> QED
    BY <1>1, <1>2 DEF TraceInv

(***************************************************************************)
(* The table names every upload that a task works on, and, unless its key  *)
(* was uploaded again, every upload with parts that a crash has left, for  *)
(* any uploads, crashes and failures, as long as locks last and the panel  *)
(* is closed.                                                              *)
(***************************************************************************)
THEOREM TracesKept == UploadFairSpec => []TracesAreKept
  <1> QED
    BY TraceInvInit, TraceInvStep, TraceInvKeeps, PTL DEF UploadFairSpec

-----------------------------------------------------------------------------
(* The layers of the cache.                                                *)

\* A call under way moves a possible value.
MovesPossible ==
  \A c \in Caller : Under(c) => \A k \in call[c].keys : call[c].value \in possible[k]

\* A clean call is alone on its key.
CleanIsAlone ==
  \A c \in Caller : \A k \in call[c].clean :
    /\ Under(c) /\ k \in call[c].keys
    /\ \A i \in Caller : Under(i) /\ k \in call[i].keys => i = c

\* The layer that a clean call has left behind.
CleanIsKept ==
  \A c \in Caller : \A k \in call[c].clean :
    /\ call[c].stage = "filling" => disk[k] = call[c].value
    /\ call[c].stage = "writing" => mem[k] \in {call[c].value, Gone}

CacheInv == CacheTypeOK /\ NoOldEntry /\ MovesPossible /\ CleanIsAlone /\ CleanIsKept

-----------------------------------------------------------------------------
(***************************************************************************)
(* Lemmas about the history.                                               *)
(***************************************************************************)

LEMMA IdleTyped == Idle \in Call
  BY DEF Idle, Call, CallStage, Entry

\* What holds after a call has begun to move a value.
Entered(c, stage, K, v) ==
  /\ call' \in [Caller -> Call] /\ possible' \in [CacheKey -> SUBSET Entry]
  /\ \A k \in CacheKey : possible[k] \subseteq possible'[k]
  /\ \A k \in K : v \in possible'[k]
  /\ call'[c].stage = stage /\ call'[c].keys = K /\ call'[c].value = v
  /\ \A i \in Caller \ {c} :
       /\ call'[i].stage = call[i].stage /\ call'[i].keys = call[i].keys
       /\ call'[i].value = call[i].value /\ call'[i].clean = call[i].clean \ K
  /\ MovesPossible' /\ CleanIsAlone'

LEMMA EnterFacts ==
  ASSUME CacheInv, NEW c \in Caller, ~Under(c),
         NEW stage \in {"filling", "writing"}, NEW K \in SUBSET CacheKey, NEW v \in Entry,
         Enter(c, stage, K, v)
  PROVE  Entered(c, stage, K, v)
  <1>1. call' \in [Caller -> Call]
    BY DEF CacheInv, CacheTypeOK, Enter, Call, CallStage
  <1>2. /\ possible' \in [CacheKey -> SUBSET Entry]
        /\ \A k \in CacheKey : possible[k] \subseteq possible'[k]
        /\ \A k \in K : v \in possible'[k]
    BY DEF CacheInv, CacheTypeOK, Enter
  <1>3. /\ call'[c].stage = stage /\ call'[c].keys = K /\ call'[c].value = v
        /\ call'[c].clean = {k \in K : Pending(k) = {}}
    BY DEF CacheInv, CacheTypeOK, Enter
  <1>4. \A i \in Caller \ {c} :
           /\ call'[i].stage = call[i].stage /\ call'[i].keys = call[i].keys
           /\ call'[i].value = call[i].value /\ call'[i].clean = call[i].clean \ K
    BY DEF CacheInv, CacheTypeOK, Enter, Call
  <1>5. \A i \in Caller : call[i].keys \subseteq CacheKey
    BY DEF CacheInv, CacheTypeOK, Call
  <1>6. MovesPossible'
    BY <1>2, <1>3, <1>4, <1>5 DEF CacheInv, MovesPossible, Under
  <1>7. CleanIsAlone'
    <2> SUFFICES ASSUME NEW i \in Caller, NEW k \in call'[i].clean
                 PROVE  /\ Under(i)' /\ k \in call'[i].keys
                        /\ \A j \in Caller : Under(j)' /\ k \in call'[j].keys => j = i
      BY DEF CleanIsAlone
    <2>1. CASE i = c
      <3>1. k \in K /\ Pending(k) = {}
        BY <1>3, <2>1
      <3>2. \A j \in Caller : ~(Under(j) /\ k \in call[j].keys)
        BY <3>1 DEF Pending
      <3> QED
        BY <1>3, <1>4, <2>1, <3>1, <3>2 DEF Under
    <2>2. CASE i # c
      <3>1. k \in call[i].clean /\ k \notin K
        BY <1>4, <2>2
      <3>2. /\ Under(i) /\ k \in call[i].keys
            /\ \A j \in Caller : Under(j) /\ k \in call[j].keys => j = i
        BY <3>1 DEF CacheInv, CleanIsAlone
      <3> QED
        BY <1>3, <1>4, <2>2, <3>1, <3>2 DEF Under
    <2> QED BY <2>1, <2>2
  <1> QED
    BY <1>1, <1>2, <1>3, <1>4, <1>6, <1>7 DEF Entered

\* What holds after a call has returned, whether or not its value is settled.
LEMMA ReturnFacts ==
  ASSUME CacheInv, NEW c \in Caller, ReturnFrom(c), Settle(c) \/ possible' = possible
  PROVE  /\ call' \in [Caller -> Call] /\ possible' \in [CacheKey -> SUBSET Entry]
         /\ call'[c] = Idle /\ \A i \in Caller \ {c} : call'[i] = call[i]
         /\ \A k \in CacheKey : k \notin call[c].clean => possible'[k] = possible[k]
         /\ MovesPossible' /\ CleanIsAlone'
  <1>1. /\ call' \in [Caller -> Call] /\ call'[c] = Idle
        /\ \A i \in Caller \ {c} : call'[i] = call[i]
    BY IdleTyped DEF CacheInv, CacheTypeOK, ReturnFrom
  <1>2. /\ possible' \in [CacheKey -> SUBSET Entry]
        /\ \A k \in CacheKey : k \notin call[c].clean => possible'[k] = possible[k]
    BY DEF CacheInv, CacheTypeOK, Settle, Call
  <1>3. ~Under(c)' /\ call'[c].clean = {}
    BY <1>1 DEF Under, Idle
  <1>4. \A i \in Caller : call[i].keys \subseteq CacheKey
    BY DEF CacheInv, CacheTypeOK, Call
  <1>5. MovesPossible'
    <2> SUFFICES ASSUME NEW i \in Caller, Under(i)', NEW k \in call'[i].keys
                 PROVE  call'[i].value \in possible'[k]
      BY DEF MovesPossible
    <2>1. i # c /\ call'[i] = call[i] /\ Under(i) /\ k \in CacheKey
      BY <1>1, <1>3, <1>4 DEF Under
    <2>2. k \notin call[c].clean
      BY <2>1 DEF CacheInv, CleanIsAlone
    <2> QED
      BY <1>2, <2>1, <2>2 DEF CacheInv, MovesPossible
  <1>6. CleanIsAlone'
    BY <1>1, <1>3 DEF CacheInv, CleanIsAlone, Under
  <1> QED
    BY <1>1, <1>2, <1>5, <1>6

-----------------------------------------------------------------------------
(***************************************************************************)
(* The invariant.                                                          *)
(***************************************************************************)

LEMMA CacheInvInit == CacheInit => CacheInv
  <1> SUFFICES ASSUME CacheInit PROVE CacheInv
    OBVIOUS
  <1>1. CacheTypeOK
    BY IdleTyped DEF CacheInit, CacheTypeOK, Entry
  <1>2. NoOldEntry
    BY DEF CacheInit, NoOldEntry
  <1>3. \A c \in Caller : ~Under(c) /\ call[c].clean = {}
    BY DEF CacheInit, Under, Idle
  <1> QED
    BY <1>1, <1>2, <1>3 DEF CacheInv, MovesPossible, CleanIsAlone, CleanIsKept

LEMMA CacheInvStep == CacheInv /\ [CacheNext]_cacheVars => CacheInv'
  <1> SUFFICES ASSUME CacheInv, [CacheNext]_cacheVars PROVE CacheInv'
    OBVIOUS
  <1>0. CacheTypeOK /\ NoOldEntry /\ MovesPossible /\ CleanIsAlone /\ CleanIsKept
    BY DEF CacheInv
  <1> USE <1>0
  <1>1. ASSUME NEW c \in Caller, NEW k \in CacheKey, Miss(c, k) PROVE CacheInv'
    <2> DEFINE reading == [Idle EXCEPT !.stage = "reading", !.keys = {k}]
    <2>a. reading \in Call /\ reading.stage = "reading" /\ reading.clean = {}
      BY DEF Idle, Call, CallStage, Entry
    <2>b. call' = [call EXCEPT ![c] = reading]
      BY <1>1 DEF Miss
    <2> HIDE DEF reading
    <2>1. /\ ~Under(c)' /\ call'[c].clean = {}
          /\ call' \in [Caller -> Call]
          /\ \A i \in Caller \ {c} : call'[i] = call[i]
      BY <2>a, <2>b DEF Under, CacheTypeOK
    <2>2. UNCHANGED <<mem, disk, possible>>
      BY <1>1 DEF Miss
    <2> QED
      BY <2>1, <2>2 DEF CacheInv, CacheTypeOK, NoOldEntry, MovesPossible, CleanIsAlone,
                        CleanIsKept, Under
  <1>2. ASSUME NEW c \in Caller, NotFound(c) \/ WriteFails(c) PROVE CacheInv'
    <2>1. ReturnFrom(c) /\ UNCHANGED <<mem, disk, possible>>
      BY <1>2 DEF NotFound, WriteFails
    <2>2. /\ call' \in [Caller -> Call] /\ call'[c] = Idle
          /\ \A i \in Caller \ {c} : call'[i] = call[i]
          /\ MovesPossible' /\ CleanIsAlone'
      BY <2>1, ReturnFacts
    <2>3. CleanIsKept'
      BY <2>1, <2>2 DEF CleanIsKept, Idle
    <2> QED
      BY <2>1, <2>2, <2>3 DEF CacheInv, CacheTypeOK, NoOldEntry
  <1>3. ASSUME NEW c \in Caller, NEW k \in CacheKey, Found(c, k) PROVE CacheInv'
    <2>1. /\ ~Under(c) /\ disk[k] \in Entry /\ Enter(c, "filling", {k}, disk[k])
          /\ UNCHANGED <<mem, disk>> /\ {k} \in SUBSET CacheKey
      BY <1>3 DEF Found, Under, CacheTypeOK
    <2>2. Entered(c, "filling", {k}, disk[k])
      BY <2>1, EnterFacts
    <2>3. \A j \in call'[c].clean : j = k
      BY <2>2 DEF Entered, CleanIsAlone
    <2>4. CleanIsKept'
      BY <2>1, <2>2, <2>3 DEF CleanIsKept, Entered
    <2> QED
      BY <2>1, <2>2, <2>4 DEF CacheInv, CacheTypeOK, NoOldEntry, Entered
  <1>4. ASSUME NEW c \in Caller, Fill(c) PROVE CacheInv'
    <2>1. /\ call[c].stage = "filling" /\ Under(c) /\ UNCHANGED disk
          /\ mem' = With(mem, call[c].keys, call[c].value) /\ Settle(c) /\ ReturnFrom(c)
      BY <1>4 DEF Fill, Under
    <2>2. /\ call' \in [Caller -> Call] /\ possible' \in [CacheKey -> SUBSET Entry]
          /\ call'[c] = Idle /\ \A i \in Caller \ {c} : call'[i] = call[i]
          /\ MovesPossible' /\ CleanIsAlone'
      BY <2>1, ReturnFacts
    <2>3. mem' \in [CacheKey -> Entry]
      BY <2>1 DEF With, CacheTypeOK, Call
    <2>4. NoOldEntry'
      <3> SUFFICES ASSUME NEW k \in CacheKey
                   PROVE  disk[k] \in possible'[k] /\ mem'[k] \in possible'[k] \cup {Gone}
        BY <2>1 DEF NoOldEntry
      <3>1. CASE k \in call[c].clean
        BY <2>1, <3>1 DEF Settle, With, CleanIsAlone, CleanIsKept
      <3>2. CASE k \notin call[c].clean
        BY <2>1, <3>2 DEF Settle, With, MovesPossible, NoOldEntry
      <3> QED BY <3>1, <3>2
    <2>5. CleanIsKept'
      <3> SUFFICES ASSUME NEW i \in Caller, NEW k \in call'[i].clean
                   PROVE  /\ call'[i].stage = "filling" => disk[k] = call'[i].value
                          /\ call'[i].stage = "writing" => mem'[k] \in {call'[i].value, Gone}
        BY <2>1 DEF CleanIsKept
      <3>1. i # c /\ call'[i] = call[i] /\ k \in CacheKey
        BY <2>2 DEF Idle, Call
      <3>2. k \notin call[c].keys
        BY <2>1, <3>1 DEF CleanIsAlone
      <3> QED
        BY <2>1, <3>1, <3>2 DEF CleanIsKept, With
    <2> QED
      BY <2>1, <2>2, <2>3, <2>4, <2>5 DEF CacheInv, CacheTypeOK
  <1>5. ASSUME NEW c \in Caller, NEW K \in SUBSET CacheKey, NEW v \in Entry, call[c] = Idle,
               Enter(c, "writing", K, v), UNCHANGED disk, mem' \in [CacheKey -> Entry],
               \A k \in K : mem'[k] = v,
               \A k \in CacheKey \ K : mem'[k] \in {mem[k], Gone}
        PROVE  CacheInv'
    <2>1. ~Under(c)
      BY <1>5 DEF Under, Idle
    <2>2. Entered(c, "writing", K, v)
      BY <1>5, <2>1, EnterFacts
    <2>3. NoOldEntry'
      BY <1>5, <2>2 DEF NoOldEntry, CacheTypeOK, Entered
    <2>4. CleanIsKept'
      <3> SUFFICES ASSUME NEW i \in Caller, NEW k \in call'[i].clean
                   PROVE  /\ call'[i].stage = "filling" => disk[k] = call'[i].value
                          /\ call'[i].stage = "writing" => mem'[k] \in {call'[i].value, Gone}
        BY <1>5 DEF CleanIsKept
      <3>1. CASE i = c
        BY <1>5, <2>2, <3>1 DEF CleanIsAlone, Entered
      <3>2. CASE i # c
        <4>1. k \in call[i].clean /\ k \in CacheKey \ K
          BY <2>2, <3>2 DEF CacheTypeOK, Call, Entered
        <4> QED
          BY <1>5, <2>2, <3>2, <4>1 DEF CleanIsKept, Entered
      <3> QED BY <3>1, <3>2
    <2>5. CacheTypeOK'
      BY <1>5, <2>2 DEF CacheTypeOK, Entered
    <2> QED
      BY <2>2, <2>3, <2>4, <2>5 DEF CacheInv, Entered
  <1>6. ASSUME NEW c \in Caller, NEW k \in CacheKey, NEW v \in Value, Put(c, k, v)
        PROVE  CacheInv'
    <2>1. /\ call[c] = Idle /\ Enter(c, "writing", {k}, v) /\ UNCHANGED disk
          /\ {k} \in SUBSET CacheKey /\ v \in Entry
      BY <1>6 DEF Put, Entry
    <2>2. \/ \E e \in Cached : k \notin Cached /\ mem' = [mem EXCEPT ![e] = Gone, ![k] = v]
          \/ mem' = [mem EXCEPT ![k] = v]
      BY <1>6 DEF Put
    <2>3. mem' \in [CacheKey -> Entry] /\ mem'[k] = v
      BY <2>1, <2>2 DEF CacheTypeOK, Entry, Cached
    <2>4. \A j \in CacheKey \ {k} : mem'[j] \in {mem[j], Gone}
      BY <2>2 DEF CacheTypeOK, Cached
    <2> QED
      BY <1>5, <2>1, <2>3, <2>4
  <1>7. ASSUME NEW c \in Caller, NEW K \in Scope, Invalidate(c, K) PROVE CacheInv'
    <2>1. /\ call[c] = Idle /\ Enter(c, "writing", K, Gone) /\ UNCHANGED disk
          /\ K \in SUBSET CacheKey /\ Gone \in Entry /\ mem' = With(mem, K, Gone)
      BY <1>7, CacheAssumption DEF Invalidate, Entry
    <2>2. /\ mem' \in [CacheKey -> Entry] /\ \A k \in K : mem'[k] = Gone
          /\ \A k \in CacheKey \ K : mem'[k] \in {mem[k], Gone}
      BY <2>1 DEF With, CacheTypeOK
    <2> QED
      BY <1>5, <2>1, <2>2
  <1>8. ASSUME NEW c \in Caller, WriteDisk(c) PROVE CacheInv'
    <2>1. /\ call[c].stage = "writing" /\ Under(c) /\ UNCHANGED mem
          /\ disk' = With(disk, call[c].keys, call[c].value) /\ Settle(c) /\ ReturnFrom(c)
      BY <1>8 DEF WriteDisk, Under
    <2>2. /\ call' \in [Caller -> Call] /\ possible' \in [CacheKey -> SUBSET Entry]
          /\ call'[c] = Idle /\ \A i \in Caller \ {c} : call'[i] = call[i]
          /\ MovesPossible' /\ CleanIsAlone'
      BY <2>1, ReturnFacts
    <2>3. disk' \in [CacheKey -> Entry]
      BY <2>1 DEF With, CacheTypeOK, Call
    <2>4. NoOldEntry'
      <3> SUFFICES ASSUME NEW k \in CacheKey
                   PROVE  disk'[k] \in possible'[k] /\ mem[k] \in possible'[k] \cup {Gone}
        BY <2>1 DEF NoOldEntry
      <3>1. CASE k \in call[c].clean
        BY <2>1, <3>1 DEF Settle, With, CleanIsAlone, CleanIsKept
      <3>2. CASE k \notin call[c].clean
        BY <2>1, <3>2 DEF Settle, With, MovesPossible, NoOldEntry
      <3> QED BY <3>1, <3>2
    <2>5. CleanIsKept'
      <3> SUFFICES ASSUME NEW i \in Caller, NEW k \in call'[i].clean
                   PROVE  /\ call'[i].stage = "filling" => disk'[k] = call'[i].value
                          /\ call'[i].stage = "writing" => mem[k] \in {call'[i].value, Gone}
        BY <2>1 DEF CleanIsKept
      <3>1. i # c /\ call'[i] = call[i] /\ k \in CacheKey
        BY <2>2 DEF Idle, Call
      <3>2. k \notin call[c].keys
        BY <2>1, <3>1 DEF CleanIsAlone
      <3> QED
        BY <2>1, <3>1, <3>2 DEF CleanIsKept, With
    <2> QED
      BY <2>1, <2>2, <2>3, <2>4, <2>5 DEF CacheInv, CacheTypeOK
  <1>9. CASE Restart
    <2>1. /\ call' \in [Caller -> Call] /\ mem' \in [CacheKey -> Entry]
          /\ \A c \in Caller : ~Under(c)' /\ call'[c].clean = {}
          /\ \A k \in CacheKey : mem'[k] = Gone
          /\ UNCHANGED <<disk, possible>>
      BY <1>9, IdleTyped DEF Restart, Entry, Under, Idle
    <2> QED
      BY <2>1 DEF CacheInv, CacheTypeOK, NoOldEntry, MovesPossible, CleanIsAlone,
                  CleanIsKept
  <1>10. CASE UNCHANGED cacheVars
    BY <1>10 DEF CacheInv, cacheVars, CacheTypeOK, NoOldEntry, MovesPossible, CleanIsAlone,
                 CleanIsKept, Under
  <1> QED
    BY <1>1, <1>2, <1>3, <1>4, <1>6, <1>7, <1>8, <1>9, <1>10 DEF CacheNext, CallStep

(***************************************************************************)
(* The variables of the cache keep their types, whatever calls overlap.    *)
(***************************************************************************)
THEOREM CacheTypeCorrect == CacheSpec => []CacheTypeOK
  <1>1. CacheInv => CacheTypeOK
    BY DEF CacheInv
  <1> QED
    BY CacheInvInit, CacheInvStep, <1>1, PTL DEF CacheSpec

(***************************************************************************)
(* Neither layer has an entry older than the last call on its key that     *)
(* ended well and met no other.                                            *)
(***************************************************************************)
THEOREM CacheServesNothingOld == CacheSpec => []NoOldEntry
  <1>1. CacheInv => NoOldEntry
    BY DEF CacheInv
  <1> QED
    BY CacheInvInit, CacheInvStep, <1>1, PTL DEF CacheSpec

==============================================================================
