----------------------------- MODULE MCPersisted -----------------------------
(***************************************************************************)
(* What the backend keeps in redb: the table of multipart uploads with the *)
(* panel that cleans them up, and the listing cache.  The two share no     *)
(* state, so an instance follows one of them and leaves the other as it    *)
(* began.                                                                  *)
(*                                                                         *)
(* Uploads: two tasks that upload one key in one part, an upload of        *)
(* another tool, one abort by the panel.  Cache: three calls, two keys, of *)
(* which one call may remove both, and room for one of them in memory.     *)
(***************************************************************************)
EXTENDS MultipartUpload, CacheStore

VARIABLE followed

persistedVars == <<vars, cacheVars, followed>>

MCScope == {{k} : k \in CacheKey} \cup {CacheKey}

PersistedSymmetry ==
  Permutations(Ours) \cup Permutations(Caller)

PersistedInit ==
  /\ followed \in {"uploads", "cache"}
  /\ MultipartInit
  /\ CacheInit
  /\ followed = "uploads" => disk = [k \in CacheKey |-> Gone]

PersistedNext ==
  /\ UNCHANGED followed
  /\ \/ followed = "uploads" /\ MultipartNext /\ UNCHANGED cacheVars
     \/ followed = "cache" /\ CacheNext /\ UNCHANGED vars

PersistedSpec == PersistedInit /\ [][PersistedNext]_persistedVars

=============================================================================
