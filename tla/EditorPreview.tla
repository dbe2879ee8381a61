---------------------------- MODULE EditorPreview ----------------------------
(***************************************************************************)
(* The text editor of the preview pane (EditorPreview.tsx): it loads an    *)
(* object and its ETag, and saves what was typed on condition that the     *)
(* object still has that ETag; a refused save shows a banner that offers   *)
(* to load again or to save without the condition.  Loads and saves answer *)
(* late, while the user types on, saves again or selects another object.   *)
(*                                                                         *)
(* A text is seen as [of, rev, whole]: whose it is, which revision, and    *)
(* whether it is all of it.  The object store is the part of S3 that       *)
(* object_get_text and object_put_text use; others write to it too.        *)
(***************************************************************************)
EXTENDS Naturals, FiniteSets

CONSTANTS
  EditedKey,
  Absent,
  Long,       \* the objects longer than the 1 MB object_get_text returns
  HeadKept,   \* whether the HEAD of the next object may be in the query cache
  Hasty,      \* whether the user types or saves while a save, or its
              \* conflict, is still open
  MaxRev,     \* bound: revisions of texts
  MaxReqs     \* bound: requests under way at once

ASSUME EditorAssumption ==
  /\ Long \subseteq EditedKey
  /\ HeadKept \in BOOLEAN /\ Hasty \in BOOLEAN
  /\ MaxRev \in Nat /\ MaxReqs \in Nat

VARIABLES
  obj,      \* the store: [EditedKey -> [etag, text]]
  ed,       \* the mounted editor, or Absent
  reqs,     \* the requests under way
  rev       \* the last revision given out

editorVars == <<obj, ed, reqs, rev>>

\* The ETag of what the n-th write left in an object.
Etag == EditedKey \X (0 .. MaxRev)

Text == [of : EditedKey, rev : 0 .. MaxRev, whole : BOOLEAN]

\* The component's state.  "kept" is not in the code: the text it last
\* loaded or had stored.
Editor ==
  [key : EditedKey, loading : BOOLEAN, failed : BOOLEAN, text : Text \cup {Absent},
   etag : Etag \cup {Absent}, dirty : BOOLEAN, saving : BOOLEAN,
   conflict : Text \cup {Absent}, kept : Text \cup {Absent}]

ASSUME AbsentAssumption == Absent \notin Text \cup Etag \cup Editor

\* "own" marks a load without the flag a clean-up sets (Refresh); "mounted",
\* that the component that sent the save is still there.  Not in the code:
\* "saw", the text the editor had loaded or stored when it sent a save, and
\* "warned", whether it was showing a conflict.
Request ==
  [n : 1 .. MaxReqs, what : {"load", "put"}, key : EditedKey, own : BOOLEAN,
   mounted : BOOLEAN, text : Text \cup {Absent}, match : Etag \cup {Absent},
   saw : Text \cup {Absent}, warned : BOOLEAN,
   state : {"sent", "stored", "refused", "failed"}, etag : Etag \cup {Absent}]

EditorTypeOK ==
  /\ obj \in [EditedKey -> [etag : Etag, text : Text]]
  /\ ed \in Editor \cup {Absent}
  /\ \A r \in reqs : r \in Request
  /\ rev \in 0 .. MaxRev

EditorInit ==
  /\ obj = [k \in EditedKey |-> [etag |-> <<k, 0>>, text |-> [of |-> k, rev |-> 0, whole |-> TRUE]]]
  /\ ed = Absent
  /\ reqs = {}
  /\ rev = 0

-----------------------------------------------------------------------------
Ready == ed # Absent /\ ~ed.loading /\ ~ed.failed

Send(among, r) ==
  LET n == CHOOSE i \in 1 .. MaxReqs : \A q \in among : q.n # i
  IN  among \cup {[r EXCEPT !.n = n]}

LoadOf(k, own) ==
  [n |-> 1, what |-> "load", key |-> k, own |-> own, mounted |-> TRUE,
   text |-> Absent, match |-> Absent, saw |-> Absent, warned |-> FALSE,
   state |-> "sent", etag |-> Absent]

PutOf(text, match) ==
  [LoadOf(ed.key, TRUE) EXCEPT !.what = "put", !.text = text, !.match = match,
                               !.saw = ed.kept, !.warned = ed.conflict # Absent]

\* The state of a component that was just mounted.
FreshEditor(k) ==
  [key |-> k, loading |-> TRUE, failed |-> FALSE, text |-> Absent, etag |-> Absent,
   dirty |-> FALSE, saving |-> FALSE, conflict |-> Absent, kept |-> Absent]

\* What loadContent sets before it asks.
Reloading(k) ==
  [ed EXCEPT !.key = k, !.loading = TRUE, !.failed = FALSE, !.dirty = FALSE, !.conflict = Absent]

\* The requests whose answer will matter once the effect of the editor is
\* cleaned up; same says whether the component stays mounted.  A load is
\* forgotten with its component, or when the clean-up has set its flag.
StillHeard(same) ==
  {[r EXCEPT !.mounted = r.mounted /\ same] :
     r \in {q \in reqs : q.what = "put" \/ (q.own /\ same)}}

\* Another object is selected, or the first one.  While its HEAD loads the
\* pane shows no viewer, so the editor is a new one; with the HEAD in the
\* cache the same component is given the new key and runs its effect again.
Open(k) ==
  /\ ed # Absent => ed.key # k
  /\ \E same \in IF HeadKept /\ ed # Absent THEN BOOLEAN ELSE {FALSE} :
       /\ Cardinality(StillHeard(same)) < MaxReqs
       /\ ed' = IF same THEN Reloading(k) ELSE FreshEditor(k)
       /\ reqs' = Send(StillHeard(same), LoadOf(k, FALSE))
  /\ UNCHANGED <<obj, rev>>

\* "Done": edit mode is left, or nothing is selected any more.
ExitEdit ==
  /\ ed # Absent
  /\ ed' = Absent
  /\ reqs' = StillHeard(FALSE)
  /\ UNCHANGED <<obj, rev>>

\* The body and the ETag arrive, or the load fails.  object_get_text
\* returns the first megabyte; nothing looks at "truncated".
LoadAnswers(r) ==
  /\ r.what = "load"
  /\ reqs' = reqs \ {r}
  /\ \E ok \in BOOLEAN :
       LET o    == obj[r.key]
           text == [o.text EXCEPT !.whole = o.text.whole /\ r.key \notin Long] IN
       ed' = IF ok
             THEN [ed EXCEPT !.loading = FALSE, !.text = text, !.kept = text, !.etag = o.etag]
             ELSE [ed EXCEPT !.loading = FALSE, !.failed = TRUE]
  /\ UNCHANGED <<obj, rev>>

\* onChange of the Monaco editor.
Type ==
  /\ Ready
  /\ Hasty \/ (~ed.saving /\ ed.conflict = Absent)
  /\ rev < MaxRev
  /\ rev' = rev + 1
  /\ ed' = [ed EXCEPT !.text.rev = rev + 1, !.dirty = TRUE]
  /\ UNCHANGED <<obj, reqs>>

\* Mutant: the ETag is not sent along.
DoSaveUnconditional(text, match) ==
  /\ Cardinality(reqs) < MaxReqs
  /\ ed' = [ed EXCEPT !.saving = TRUE]
  /\ reqs' = Send(reqs, PutOf(text, Absent))
  /\ UNCHANGED <<obj, rev>>

\* doSave: sent with the ETag, or without for "Save anyway".
DoSave(text, match) ==
  /\ Cardinality(reqs) < MaxReqs
  /\ ed' = [ed EXCEPT !.saving = TRUE]
  /\ reqs' = Send(reqs, PutOf(text, match))
  /\ UNCHANGED <<obj, rev>>

\* The Save button, which asks for unsaved edits and no save under way, and
\* Ctrl+S, which asks for nothing.
Save ==
  /\ Ready
  /\ Hasty \/ (ed.dirty /\ ~ed.saving)
  /\ DoSave(ed.text, ed.etag)

SaveAnyway ==
  /\ Ready /\ ed.conflict # Absent
  /\ Hasty \/ ~ed.saving
  /\ DoSave(ed.conflict, Absent)

Refresh ==
  /\ Ready /\ ed.conflict # Absent
  /\ Hasty \/ ~ed.saving
  /\ Cardinality(reqs) < MaxReqs
  /\ ed' = Reloading(ed.key)
  /\ reqs' = Send(reqs, LoadOf(ed.key, TRUE))
  /\ UNCHANGED <<obj, rev>>

\* object_put_text reaches the store: it is stored, refused because of the
\* condition, or fails, before or after it took effect.
PutLands(r) ==
  /\ r.what = "put" /\ r.state = "sent"
  /\ LET o     == obj[r.key]
         holds == r.match \in {Absent, o.etag} IN
     \E effect \in {holds, FALSE}, answers \in BOOLEAN :
       /\ ~effect /\ holds => ~answers
       /\ effect => rev < MaxRev
       /\ obj' = IF effect
                 THEN [obj EXCEPT ![r.key] = [etag |-> <<r.key, rev + 1>>, text |-> r.text]]
                 ELSE obj
       /\ rev' = IF effect THEN rev + 1 ELSE rev
       /\ reqs' = (reqs \ {r}) \cup
                    {[r EXCEPT !.state = IF ~answers THEN "failed"
                                         ELSE IF effect THEN "stored" ELSE "refused",
                               !.etag  = IF effect THEN <<r.key, rev + 1>> ELSE Absent]}
  /\ UNCHANGED ed

\* The answer of a save, taken by the component that sent it if it is still
\* mounted, whatever object it has come to show.
PutAnswers(r) ==
  /\ r.what = "put" /\ r.state # "sent"
  /\ reqs' = reqs \ {r}
  /\ ed' = IF ~r.mounted THEN ed
           ELSE CASE r.state = "stored" ->
                       [ed EXCEPT !.saving = FALSE, !.dirty = FALSE, !.conflict = Absent,
                                  !.etag = r.etag, !.kept = r.text]
                  [] r.state = "refused" -> [ed EXCEPT !.saving = FALSE, !.conflict = r.text]
                  [] r.state = "failed"  -> [ed EXCEPT !.saving = FALSE]
  /\ UNCHANGED <<obj, rev>>

\* Somebody else writes the object.
OthersWrite(k) ==
  /\ rev < MaxRev
  /\ rev' = rev + 1
  /\ obj' = [obj EXCEPT ![k] = [etag |-> <<k, rev + 1>>,
                                 text |-> [of |-> k, rev |-> rev + 1, whole |-> TRUE]]]
  /\ UNCHANGED <<ed, reqs>>

EditorNext ==
  \/ \E k \in EditedKey : Open(k) \/ OthersWrite(k)
  \/ ExitEdit \/ Type \/ Save \/ SaveAnyway \/ Refresh
  \/ \E r \in reqs : LoadAnswers(r) \/ PutLands(r) \/ PutAnswers(r)

EditorSpec == EditorInit /\ [][EditorNext]_editorVars

-----------------------------------------------------------------------------
(* Properties.                                                             *)

\* What the pane calls text "we can safely round-trip": whoever edits,
\* every object holds a whole text of its own, never a part of one, nor the
\* text of another object.
ObjectsRoundTrip ==
  \A k \in EditedKey : obj[k].text.of = k /\ obj[k].text.whole

\* However loads, saves and selections overtake one another: a save that
\* takes effect replaces the text its editor had loaded or stored, unless
\* the user was shown a conflict and chose to save anyway.  What others
\* write in between is never overwritten unseen.
SameText(s, t) == s.of = t.of /\ s.rev = t.rev

NoBlindOverwrite ==
  [][\A r \in reqs :
       (obj' # obj /\ PutLands(r)) => \/ r.match = Absent /\ r.warned
                                      \/ SameText(obj[r.key].text, r.saw)]_editorVars

\* An editor that shows no unsaved changes holds what it loaded or had
\* stored, so that leaving it loses nothing.
\* The code does not have this: what is typed during a save counts as saved.
CleanMeansStored ==
  Ready /\ ~ed.dirty => ed.text = ed.kept
=============================================================================
