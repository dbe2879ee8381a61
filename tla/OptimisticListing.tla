-------------------------- MODULE OptimisticListing --------------------------
(***************************************************************************)
(* A listing in the query cache (useObjects in useValidatedProfile.ts) and *)
(* the file commands that change it before the backend answers             *)
(* (commands/definitions/file.ts, query/optimistic.ts), reconciled by the  *)
(* objects:updated events the bridge turns into invalidations              *)
(* (query/client.ts).                                                      *)
(*                                                                         *)
(* useObjects keeps an infinite query: what it fetches is a list of pages. *)
(* The helpers read and write one flat page.  Of the query library (not    *)
(* under src/) the model has what these files rely on: cancelQueries,      *)
(* setQueryData, invalidateQueries with an observer mounted, and that data *)
(* set by hand or fetched counts as fresh.                                 *)
(***************************************************************************)
EXTENDS Naturals, FiniteSets

CONSTANTS
  Op,           \* the commands the user runs
  Name,         \* the entries a listing may have
  FolderName,   \* those of them that are folders
  CommandKind,  \* which commands: a subset of AllKinds
  ApiFails      \* whether the backend may refuse

AllKinds == {"create", "delete", "rename", "batch"}

ASSUME ListingAssumption ==
  /\ FolderName \subseteq Name /\ CommandKind \subseteq AllKinds
  /\ ApiFails \in BOOLEAN

VARIABLES
  server,       \* the entries of the prefix in the bucket
  cache,        \* what the cache holds: [shape, entries]
  stale,        \* whether it is marked invalid
  fetch,        \* the query's request: its phase, and what it read
  ops,          \* the commands: [Op -> record]
  objectEvents, \* the objects:updated events not delivered yet
  overtaken     \* history: an event reached the first load after it had read
                \* the bucket

listingVars == <<server, cache, stale, fetch, ops, objectEvents, overtaken>>

Nothing == [shape |-> "none", entries |-> {}]
Pages(s) == [shape |-> "pages", entries |-> s]
Flat(s) == [shape |-> "flat", entries |-> s]
Cached == {Nothing} \cup {Pages(s) : s \in SUBSET Name} \cup {Flat(s) : s \in SUBSET Name}

Idle == [phase |-> "idle", entries |-> {}]
NotRun == [kind |-> "none", from |-> {}, to |-> {}, phase |-> "idle", snapshot |-> Nothing, sent |-> FALSE]

ListingTypeOK ==
  /\ server \subseteq Name
  /\ cache \in Cached /\ stale \in BOOLEAN
  /\ fetch \in [phase : {"idle", "asked", "read"}, entries : SUBSET Name]
  /\ ops \in [Op -> [kind : CommandKind \cup {"none"}, from : SUBSET Name, to : SUBSET Name,
                     phase : {"idle", "sent", "ok", "failed", "done", "refused"},
                     snapshot : Cached, sent : BOOLEAN]]
  /\ objectEvents \subseteq Op /\ overtaken \in BOOLEAN

ListingInit ==
  /\ server \in SUBSET Name
  /\ cache = Nothing /\ stale = FALSE /\ fetch = Idle
  /\ ops = [o \in Op |-> NotRun]
  /\ objectEvents = {} /\ overtaken = FALSE

-----------------------------------------------------------------------------
(* The query.                                                              *)

\* The listing is shown: the query starts unless it has fresh data.
Mount ==
  /\ fetch = Idle /\ (cache = Nothing \/ stale)
  /\ fetch' = [phase |-> "asked", entries |-> {}] /\ overtaken' = FALSE
  /\ UNCHANGED <<server, cache, stale, ops, objectEvents>>

\* objects_list reads the bucket.
ListingRead ==
  /\ fetch.phase = "asked"
  /\ fetch' = [phase |-> "read", entries |-> server]
  /\ UNCHANGED <<server, cache, stale, ops, objectEvents, overtaken>>

ListingArrives ==
  /\ fetch.phase = "read"
  /\ cache' = Pages(fetch.entries) /\ stale' = FALSE
  /\ fetch' = Idle
  /\ UNCHANGED <<server, ops, objectEvents, overtaken>>

\* Mutant: a request under way is left to answer.
ObjectsUpdatedLazily(o) ==
  /\ o \in objectEvents
  /\ objectEvents' = objectEvents \ {o}
  /\ stale' = TRUE
  /\ fetch' = IF fetch # Idle THEN fetch ELSE [phase |-> "asked", entries |-> {}]
  /\ overtaken' = (cache = Nothing /\ fetch.phase = "read")
  /\ UNCHANGED <<server, cache, ops>>

\* objects:updated: the listing is marked invalid and asked for again.  A
\* request under way is dropped for the new one, unless it is the first.
ObjectsUpdated(o) ==
  /\ o \in objectEvents
  /\ objectEvents' = objectEvents \ {o}
  /\ stale' = TRUE
  /\ IF fetch # Idle /\ cache = Nothing
     THEN fetch' = fetch /\ overtaken' = (overtaken \/ fetch.phase = "read")
     ELSE fetch' = [phase |-> "asked", entries |-> {}] /\ overtaken' = FALSE
  /\ UNCHANGED <<server, cache, ops>>

-----------------------------------------------------------------------------
(* The helpers: what each writes over "old", and whether it can.           *)

\* old.entries of a list of pages is undefined: some, filter and map throw.
Throws(old) == old.shape = "pages"

OptimisticCreateFolder(old, key) ==
  IF old = Nothing THEN Flat({key}) ELSE Flat(old.entries \cup {key})

OptimisticDeleteSingle(old, key) ==
  IF old = Nothing THEN old ELSE Flat(old.entries \ {key})

OptimisticRenameSingle(old, source, dest) ==
  IF old = Nothing THEN old
  ELSE Flat({IF e = source THEN dest ELSE e : e \in old.entries})

Optimistic(o, old) ==
  LET key == CHOOSE k \in o.from \cup o.to : o.from = {} \/ k \in o.from IN
  CASE o.kind = "create" -> OptimisticCreateFolder(old, key)
    [] o.kind = "delete" -> OptimisticDeleteSingle(old, key)
    [] o.kind = "rename" -> OptimisticRenameSingle(old, key, CHOOSE d \in o.to : TRUE)
    [] o.kind = "batch"  -> old

-----------------------------------------------------------------------------
(* The commands.                                                           *)

\* What the user can ask of the entries that are shown.
Asked(kind, from, to) ==
  CASE kind = "create" -> from = {} /\ to \subseteq FolderName /\ Cardinality(to) = 1
    [] kind = "delete" -> Cardinality(from) = 1 /\ to = {}
    [] kind = "rename" -> Cardinality(from) = 1 /\ Cardinality(to) = 1 /\ from # to
    [] kind = "batch"  -> Cardinality(from) > 1 /\ to = {}

\* file.create_folder, file.delete and file.rename.  With one key the helper
\* cancels the query's request, takes a snapshot and writes; when it throws
\* the command reports the error and never calls the backend.
Run(o, kind, from, to) ==
  /\ ops[o].phase = "idle" /\ Asked(kind, from, to)
  /\ LET new    == [kind |-> kind, from |-> from, to |-> to, phase |-> "sent",
                    snapshot |-> cache, sent |-> TRUE]
         throws == kind # "batch" /\ Throws(cache)
         next   == Optimistic(new, cache) IN
     /\ ops' = [ops EXCEPT ![o] =
                  IF throws THEN [new EXCEPT !.phase = "done", !.sent = FALSE] ELSE new]
     /\ fetch' = IF kind = "batch" THEN fetch ELSE Idle
     /\ cache' = IF throws THEN cache ELSE next
     /\ stale' = (stale /\ (throws \/ next = Nothing \/ kind = "batch"))
  /\ UNCHANGED <<server, objectEvents, overtaken>>

\* The backend performs the command and announces it, or refuses.
ApiLands(o) ==
  /\ ops[o].phase = "sent"
  /\ \E ok \in {TRUE, ~ApiFails} :
       IF ok
       THEN /\ server' = (server \ ops[o].from) \cup
                           (IF ops[o].from = {} \/ ops[o].from \cap server # {} THEN ops[o].to ELSE {})
            /\ objectEvents' = objectEvents \cup {o}
            /\ ops' = [ops EXCEPT ![o].phase = "ok"]
       ELSE /\ ops' = [ops EXCEPT ![o].phase = "failed"]
            /\ UNCHANGED <<server, objectEvents>>
  /\ UNCHANGED <<cache, stale, fetch, overtaken>>

\* The answer.  A failure restores the snapshot: setting undefined changes
\* nothing.
ApiAnswers(o) ==
  /\ ops[o].phase \in {"ok", "failed"}
  /\ ops' = [ops EXCEPT ![o].phase = IF ops[o].phase = "ok" THEN "done" ELSE "refused"]
  /\ LET undo == ops[o].phase = "failed" /\ ops[o].kind # "batch" /\ ops[o].snapshot # Nothing IN
     IF undo THEN cache' = ops[o].snapshot /\ stale' = FALSE ELSE UNCHANGED <<cache, stale>>
  /\ UNCHANGED <<server, fetch, objectEvents, overtaken>>

ListingNext ==
  \/ Mount \/ ListingRead \/ ListingArrives
  \/ \E o \in Op :
       \/ ObjectsUpdated(o) \/ ApiLands(o) \/ ApiAnswers(o)
       \/ \E kind \in CommandKind, from, to \in SUBSET Name : Run(o, kind, from, to)

ListingSpec == ListingInit /\ [][ListingNext]_listingVars

-----------------------------------------------------------------------------
(* Properties.                                                             *)

\* "Rust state wins on reconciliation" (query/optimistic.ts:22), and where it
\* does not.  Once every command has been answered, every event delivered and
\* nothing is being fetched, a listing that counts as fresh has the entries
\* the bucket has, whatever was written, rolled back, read and dropped before;
\* but for what a refused command leaves of a listing never loaded, and for a
\* first load that had read the bucket when an event reached it.
QuietListingIsTrue ==
  (/\ \A o \in Op : ops[o].phase \in {"idle", "done", "refused"}
   /\ objectEvents = {} /\ fetch = Idle /\ ~stale /\ cache # Nothing)
     => \/ cache.entries = server
        \/ cache.shape = "flat" /\ \E o \in Op : ops[o].phase = "refused" /\ ops[o].kind # "batch"
        \/ cache.shape = "pages" /\ overtaken

\* The optimistic write comes on top of the command, never instead of it:
\* what the user asked for is sent to the backend.
CommandsAreSent == \A o \in Op : ops[o].phase = "done" => ops[o].sent
=============================================================================
