----------------------------- MODULE PreviewPane -----------------------------
(***************************************************************************)
(* The preview pane: it follows the first selected key of the active pane, *)
(* waits for that object's HEAD, asks before it loads a large one and      *)
(* mounts the viewer PreviewRouting picks (PreviewPane.tsx,                *)
(* useObjectHead.ts).  Every viewer loads asynchronously while the user    *)
(* goes on selecting; an effect that is cleaned up marks its load canceled *)
(* and gives its media token back (the *Preview.tsx files).                *)
(*                                                                         *)
(* The editor, which also saves, is EditorPreview; here it is a viewer     *)
(* that reads a body.                                                      *)
(***************************************************************************)
EXTENDS FiniteSets, PreviewRouting

CONSTANTS
  Key,          \* the objects of the listing
  None,
  Shape,        \* [Key -> Object]: what each of them is
  Large,        \* the keys over previewSizeLimitMb
  Token,        \* the media tokens that can be outstanding (a bound)
  MaxLoads,     \* bound: loads under way at once
  MediaFails    \* whether a playing element may fail, e.g. after its token expired

ASSUME PreviewAssumption ==
  /\ Shape \in [Key -> Object]
  /\ Large \subseteq Key
  /\ None \notin Key \cup Token
  /\ MaxLoads \in Nat

VARIABLES
  sel,       \* the first selected key, or None
  head,      \* what the query cache has of each object's HEAD
  gated,     \* whether the profile is not validated
  anyway,    \* previewAnyway
  edit,      \* editMode
  viewer,    \* the mounted viewer: its kind, key, what it shows and its token
  loads,     \* the requests of viewers under way
  tokens     \* what the media server has registered: [Token -> Key \cup {None}]

previewVars == <<sel, head, gated, anyway, edit, viewer, loads, tokens>>

Kind == {"none", "editor"} \cup DOMAIN Viewer

NoViewer == [kind |-> "none", key |-> None, shown |-> None, failed |-> FALSE, token |-> None]

Style(kind) == IF kind = "editor" THEN TextPreview ELSE Viewer[kind]

\* One component renders both kinds of media.
Component(kind) == IF kind \in {"video", "audio"} THEN "media" ELSE kind

\* A load: the request of one run of a viewer's effect.  "live" is the
\* negation of the flag its clean-up sets, "mounted" whether the component
\* that made the request is still there to take the answer.  A request a
\* media viewer repeats has a flag of its own ("own") that nobody sets.
Load == [n : 1 .. MaxLoads, kind : Kind \ {"none"}, key : Key, phase : {"fetch", "parse"},
         own : BOOLEAN, live : BOOLEAN, mounted : BOOLEAN]

PreviewTypeOK ==
  /\ sel \in Key \cup {None}
  /\ head \in [Key -> {"none", "loading", "ok", "failed"}]
  /\ gated \in BOOLEAN /\ anyway \in BOOLEAN /\ edit \in BOOLEAN
  /\ viewer \in [kind : Kind, key : Key \cup {None}, shown : Key \cup {None},
                 failed : BOOLEAN, token : Token \cup {None}]
  /\ loads \subseteq Load
  /\ tokens \in [Token -> Key \cup {None}]

PreviewInit ==
  /\ sel = None
  /\ head = [k \in Key |-> "none"]
  /\ gated = FALSE /\ anyway = FALSE /\ edit = FALSE
  /\ viewer = NoViewer
  /\ loads = {}
  /\ tokens = [t \in Token |-> None]

-----------------------------------------------------------------------------
(* What the pane renders.                                                  *)

\* Without a HEAD (the request failed) there is neither a size nor a type.
Known(k) == IF head[k] = "ok" THEN Shape[k] ELSE [mime |-> "none", ext |-> Shape[k].ext]

Oversize(k) == head[k] = "ok" /\ k \in Large

\* The viewer PreviewPane returns for the current state: none while nothing
\* is selected, the profile is gated, the HEAD is loading or the size is to
\* be confirmed; the editor, or what the router picks.
Wanted ==
  IF sel = None \/ gated THEN [kind |-> "none", key |-> None]
  ELSE IF head[sel] \in {"none", "loading"} \/ (Oversize(sel) /\ ~anyway)
  THEN [kind |-> "none", key |-> None]
  ELSE [kind |-> IF edit /\ IsEditable(Known(sel)) THEN "editor" ELSE RenderContent(Known(sel)),
        key  |-> sel]

NewLoad(among, kind, key, own) ==
  [n |-> CHOOSE n \in 1 .. MaxLoads : \A l \in among : l.n # n,
   kind |-> kind, key |-> key, phase |-> "fetch", own |-> own, live |-> TRUE, mounted |-> TRUE]

\* Mutant: the clean-up does not set the flag of the request.
CleanUpNothing(next) ==
  {[l EXCEPT !.mounted = l.mounted /\ Component(next) = Component(viewer.kind)] :
     l \in {m \in loads : m.phase = "fetch"}}

\* The clean-up of the mounted viewer's effect: its load is canceled and its
\* worker terminated.  A viewer of another kind replaces the component; one
\* of the same kind keeps it and runs the effect again.
CleanUp(next) ==
  {[l EXCEPT !.live = l.own,
             !.mounted = l.mounted /\ Component(next) = Component(viewer.kind)] :
     l \in {m \in loads : m.phase = "fetch"}}

\* Mutant: the token stays with the media server.
NothingRevoked == tokens

Revoked == [t \in Token |-> IF t = viewer.token THEN None ELSE tokens[t]]

\* Every change of what is wanted runs the clean-up and then the new effect.
Render ==
  LET w    == Wanted'
      rest == CleanUp(w.kind) IN
  IF w = [kind |-> viewer.kind, key |-> viewer.key]
  THEN UNCHANGED <<viewer, loads, tokens>>
  ELSE /\ viewer' = [NoViewer EXCEPT !.kind = w.kind, !.key = w.key]
       /\ tokens' = Revoked
       /\ IF w.kind = "none" THEN loads' = rest
          ELSE /\ Cardinality(rest) < MaxLoads
               /\ loads' = rest \cup {NewLoad(rest, w.kind, w.key, FALSE)}

-----------------------------------------------------------------------------
(* The user, the gate and the HEAD.                                        *)

\* useObjectHead: enabled for a selected key of a validated profile; an
\* earlier answer is kept, an earlier failure asked again.
HeadAsked(k, off) ==
  IF k = None \/ off \/ head[k] \in {"ok", "loading"} THEN head
  ELSE [head EXCEPT ![k] = "loading"]

Select(k) ==
  /\ k # sel
  /\ sel' = k
  /\ head' = HeadAsked(k, gated)
  /\ UNCHANGED <<gated, anyway, edit>>
  /\ Render

Gate ==
  /\ gated' = ~gated
  /\ head' = HeadAsked(sel, ~gated)
  /\ UNCHANGED <<sel, anyway, edit>>
  /\ Render

HeadAnswers(k) ==
  /\ head[k] = "loading"
  /\ \E answer \in {"ok", "failed"} : head' = [head EXCEPT ![k] = answer]
  /\ UNCHANGED <<sel, gated, anyway, edit>>
  /\ Render

PreviewAnyway ==
  /\ sel # None /\ ~gated /\ Oversize(sel) /\ ~anyway
  /\ anyway' = TRUE
  /\ UNCHANGED <<sel, head, gated, edit>>
  /\ Render

ToggleEdit ==
  /\ viewer.kind # "none" /\ IsEditable(Known(sel))
  /\ edit' = ~edit
  /\ UNCHANGED <<sel, head, gated, anyway>>
  /\ Render

-----------------------------------------------------------------------------
(* Answers.                                                                *)

\* The answer to a canceled request: dropped; a token it brings is given
\* back at once.
AnswerDropped(l) ==
  /\ ~l.live
  /\ loads' = loads \ {l}
  /\ UNCHANGED <<sel, head, gated, anyway, edit, viewer, tokens>>

BodyAnswers(l) ==
  /\ l.live /\ l.phase = "fetch" /\ Style(l.kind).asks = "body"
  /\ IF Style(l.kind).worker
     THEN /\ loads' = (loads \ {l}) \cup {[l EXCEPT !.phase = "parse"]}
          /\ UNCHANGED viewer
     ELSE /\ loads' = loads \ {l}
          /\ viewer' = [viewer EXCEPT !.shown = l.key]
  /\ UNCHANGED <<sel, head, gated, anyway, edit, tokens>>

\* The worker posts its table, and is terminated.
TableParsed(l) ==
  /\ l.live /\ l.phase = "parse"
  /\ loads' = loads \ {l}
  /\ viewer' = [viewer EXCEPT !.shown = l.key]
  /\ UNCHANGED <<sel, head, gated, anyway, edit, tokens>>

\* The request, or the worker, fails.  An answer that finds its component
\* gone changes nothing.
LoadFails(l) ==
  /\ l.live
  /\ loads' = loads \ {l}
  /\ viewer' = IF l.mounted THEN [viewer EXCEPT !.failed = TRUE] ELSE viewer
  /\ UNCHANGED <<sel, head, gated, anyway, edit, tokens>>

\* media_register answers with a token.  The viewer keeps it to give it back
\* when it is cleaned up; a component that is gone keeps it for nobody.
TokenAnswers(l, t) ==
  /\ l.live /\ Style(l.kind).asks = "token"
  /\ tokens[t] = None
  /\ loads' = loads \ {l}
  /\ tokens' = [tokens EXCEPT ![t] = l.key]
  /\ viewer' = IF l.mounted
               THEN [viewer EXCEPT !.shown = l.key, !.token = t, !.failed = FALSE]
               ELSE viewer
  /\ UNCHANGED <<sel, head, gated, anyway, edit>>

\* The element cannot play what it was given.  Images and PDFs say so; video
\* and audio give the token back and ask for another one.
ElementFails ==
  /\ viewer.shown # None /\ Style(viewer.kind).asks = "token" /\ ~viewer.failed
  /\ IF Style(viewer.kind).again
     THEN /\ MediaFails
          /\ Cardinality(loads) < MaxLoads
          /\ tokens' = Revoked
          /\ viewer' = [viewer EXCEPT !.shown = None, !.token = None]
          /\ loads' = loads \cup {NewLoad(loads, viewer.kind, viewer.key, TRUE)}
     ELSE /\ viewer' = [viewer EXCEPT !.failed = TRUE]
          /\ UNCHANGED <<loads, tokens>>
  /\ UNCHANGED <<sel, head, gated, anyway, edit>>

PreviewNext ==
  \/ \E k \in Key \cup {None} : Select(k)
  \/ Gate
  \/ \E k \in Key : HeadAnswers(k)
  \/ PreviewAnyway
  \/ ToggleEdit
  \/ \E l \in loads : \/ AnswerDropped(l) \/ BodyAnswers(l) \/ TableParsed(l) \/ LoadFails(l)
                      \/ \E t \in Token : TokenAnswers(l, t)
  \/ ElementFails

PreviewSpec == PreviewInit /\ [][PreviewNext]_previewVars

-----------------------------------------------------------------------------
(* Properties.                                                             *)

\* However fast the user moves on and however late the answers come, a
\* viewer shows the object it was opened for, and that is the selected one.
ShownIsSelected ==
  viewer.shown # None => viewer.shown = viewer.key /\ viewer.key = sel

\* "Register on mount; revoke on unmount": every token the media server
\* holds is in the hands of the mounted viewer, which will give it back.
TokensReturned ==
  \A t \in Token : tokens[t] # None => viewer.token = t
=============================================================================
