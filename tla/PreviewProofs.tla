--------------------------- MODULE PreviewProofs ---------------------------
(***************************************************************************)
(* The preview pane and the editor in it, for any objects, tokens and      *)
(* loads: what the pane shows is what is selected, every media token is in *)
(* the hands of the mounted viewer, and no save of the editor overwrites   *)
(* unseen what others wrote.                                               *)
(***************************************************************************)
EXTENDS PreviewPane, EditorPreview, FiniteSetTheorems,
        FunctionTheorems, WellFoundedInduction, TLAPS

-----------------------------------------------------------------------------
(***************************************************************************)
(* The pane, as long as playing elements do not fail (a request that is    *)
(* repeated has a flag that no clean-up sets).                             *)
(*                                                                         *)
(* The argument: of all loads under way at most one is live, and it is the *)
(* mounted viewer's, which has nothing to show and no token yet            *)
(* (LoadsFit).  Every change of what is wanted cancels it, so whatever     *)
(* comes late is dropped.                                                  *)
(***************************************************************************)

IsLoad(l) ==
  l = [n |-> l.n, kind |-> l.kind, key |-> l.key, phase |-> l.phase,
       own |-> l.own, live |-> l.live, mounted |-> l.mounted]

LoadsFit ==
  /\ \A l \in loads :
       /\ IsLoad(l) /\ l.own = FALSE
       /\ l.live =>
            /\ l.mounted /\ l.key = viewer.key
            /\ viewer.shown = None /\ viewer.token = None
  /\ \A l, m \in loads : l.live /\ m.live => l = m

ViewerFits ==
  /\ viewer = [kind |-> viewer.kind, key |-> viewer.key, shown |-> viewer.shown,
               failed |-> viewer.failed, token |-> viewer.token]
  /\ viewer.key \in {None, sel} /\ viewer.shown \in {None, viewer.key}
  /\ tokens = [t \in Token |-> tokens[t]]
  /\ \A t \in Token : tokens[t] # None => viewer.token = t

PaneFits == LoadsFit /\ ViewerFits

LEMMA PaneFitsInit == PreviewInit => PaneFits
  BY DEF PreviewInit, PaneFits, LoadsFit, ViewerFits, NoViewer

\* A clean-up cancels every load it leaves.
LEMMA CleanUpCancels ==
  ASSUME LoadsFit, NEW kind, NEW l \in CleanUp(kind)
  PROVE  IsLoad(l) /\ l.own = FALSE /\ ~l.live
  <1>1. PICK m \in loads :
          l = [m EXCEPT !.live = m.own,
                        !.mounted = m.mounted /\ Component(kind) = Component(viewer.kind)]
    BY DEF CleanUp
  <1>2. IsLoad(m) /\ m.own = FALSE
    BY DEF LoadsFit
  <1> QED
    BY <1>1, <1>2 DEF IsLoad

\* Another viewer, or none: nothing is shown, no token is held, and the one
\* live load is the new viewer's.
LEMMA RenderFits ==
  ASSUME PaneFits, Render
  PROVE  PaneFits'
  <1> DEFINE w == Wanted'
             rest == CleanUp(w.kind)
             new == NewLoad(rest, w.kind, w.key, FALSE)
  <1>1. w.key \in {None, sel'} /\ w = [kind |-> w.kind, key |-> w.key]
    BY DEF Wanted
  <1>2. \/ w = [kind |-> viewer.kind, key |-> viewer.key] /\ UNCHANGED <<viewer, loads, tokens>>
        \/ /\ viewer' = [NoViewer EXCEPT !.kind = w.kind, !.key = w.key]
           /\ tokens' = Revoked
           /\ loads' = rest \/ loads' = rest \cup {new}
    BY DEF Render
  <1>3. \A l \in rest : IsLoad(l) /\ l.own = FALSE /\ ~l.live
    BY CleanUpCancels DEF PaneFits
  <1>4. IsLoad(new) /\ new.own = FALSE /\ new.mounted /\ new.key = w.key
    BY DEF NewLoad, IsLoad
  <1> HIDE DEF w, rest, new
  <1>5. CASE w = [kind |-> viewer.kind, key |-> viewer.key] /\ UNCHANGED <<viewer, loads, tokens>>
    <2>1. viewer.key = w.key
      BY <1>5
    <2> QED
      BY <1>1, <1>5, <2>1 DEF PaneFits, LoadsFit, ViewerFits
  <1>6. CASE /\ viewer' = [NoViewer EXCEPT !.kind = w.kind, !.key = w.key]
             /\ tokens' = Revoked
             /\ loads' = rest \/ loads' = rest \cup {new}
    <2>1. /\ viewer'.key = w.key /\ viewer'.shown = None /\ viewer'.token = None
          /\ viewer' = [kind |-> viewer'.kind, key |-> viewer'.key, shown |-> viewer'.shown,
                        failed |-> viewer'.failed, token |-> viewer'.token]
      BY <1>6 DEF NoViewer
    <2>2. tokens' = [t \in Token |-> tokens'[t]] /\ \A t \in Token : tokens'[t] = None
      BY <1>6 DEF PaneFits, ViewerFits, Revoked
    <2>3. ViewerFits'
      BY <1>1, <2>1, <2>2 DEF ViewerFits
    <2>4. LoadsFit'
      BY <1>3, <1>4, <1>6, <2>1 DEF LoadsFit
    <2> QED
      BY <2>3, <2>4 DEF PaneFits
  <1> QED
    BY <1>2, <1>5, <1>6

\* An answer that is taken: the live load is gone or is parsed now, and the
\* viewer shows its object, or has failed.
LEMMA AnswerFits ==
  ASSUME PaneFits, NEW l \in loads, sel' = sel,
         loads' \subseteq loads \ {l}, l.live,
         viewer' = [kind |-> viewer.kind, key |-> viewer.key, shown |-> viewer'.shown,
                    failed |-> viewer'.failed, token |-> viewer'.token],
         viewer'.shown \in {None, l.key},
         tokens' = [t \in Token |-> tokens'[t]],
         \A t \in Token : tokens'[t] # None => viewer'.token = t
  PROVE  PaneFits'
  <1>1. viewer'.key = viewer.key /\ viewer'.kind = viewer.kind /\ l.key = viewer.key
    BY DEF PaneFits, LoadsFit
  <1>2. \A m \in loads' : m \in loads /\ ~m.live
    BY DEF PaneFits, LoadsFit
  <1>3. LoadsFit'
    BY <1>2 DEF PaneFits, LoadsFit
  <1>4. ViewerFits'
    BY <1>1 DEF PaneFits, ViewerFits
  <1> QED
    BY <1>3, <1>4 DEF PaneFits

LEMMA PaneFitsStep ==
  ASSUME ~MediaFails, PaneFits, [PreviewNext]_previewVars
  PROVE  PaneFits'
  <1>1. CASE \E k \in Key \cup {None} : Select(k)
    BY <1>1, RenderFits DEF Select
  <1>2. CASE Gate
    BY <1>2, RenderFits DEF Gate
  <1>3. CASE \E k \in Key : HeadAnswers(k)
    BY <1>3, RenderFits DEF HeadAnswers
  <1>4. CASE PreviewAnyway
    BY <1>4, RenderFits DEF PreviewAnyway
  <1>5. CASE ToggleEdit
    BY <1>5, RenderFits DEF ToggleEdit
  <1>6. ASSUME NEW l \in loads, AnswerDropped(l)
        PROVE  PaneFits'
    BY <1>6 DEF AnswerDropped, PaneFits, LoadsFit, ViewerFits
  <1>7. ASSUME NEW l \in loads, BodyAnswers(l)
        PROVE  PaneFits'
    <2>1. l.live /\ sel' = sel /\ tokens' = tokens
      BY <1>7 DEF BodyAnswers
    <2>2. CASE /\ loads' = (loads \ {l}) \cup {[l EXCEPT !.phase = "parse"]}
               /\ viewer' = viewer
      <3> DEFINE p == [l EXCEPT !.phase = "parse"]
      <3>1. IsLoad(p) /\ p.own = FALSE /\ p.mounted /\ p.key = viewer.key /\ p.live
        BY <2>1 DEF PaneFits, LoadsFit, IsLoad
      <3>2. viewer.shown = None /\ viewer.token = None
        BY <2>1 DEF PaneFits, LoadsFit
      <3> HIDE DEF p
      <3>3. loads' = (loads \ {l}) \cup {p}
        BY <2>2 DEF p
      <3>4. \A m \in loads \ {l} : ~m.live
        BY <2>1 DEF PaneFits, LoadsFit
      <3>5. LoadsFit'
        BY <2>2, <3>1, <3>2, <3>3, <3>4 DEF PaneFits, LoadsFit
      <3>6. ViewerFits'
        BY <2>1, <2>2 DEF PaneFits, ViewerFits
      <3> QED
        BY <3>5, <3>6 DEF PaneFits
    <2>3. CASE loads' = loads \ {l} /\ viewer' = [viewer EXCEPT !.shown = l.key]
      <3>1. /\ viewer' = [kind |-> viewer.kind, key |-> viewer.key, shown |-> viewer'.shown,
                          failed |-> viewer'.failed, token |-> viewer'.token]
            /\ viewer'.shown = l.key /\ viewer'.token = viewer.token
        BY <2>3 DEF PaneFits, ViewerFits
      <3> QED
        BY <2>1, <2>3, <3>1, AnswerFits DEF PaneFits, ViewerFits
    <2> QED
      BY <1>7, <2>2, <2>3 DEF BodyAnswers
  <1>8. ASSUME NEW l \in loads, TableParsed(l)
        PROVE  PaneFits'
    <2>1. /\ l.live /\ sel' = sel /\ tokens' = tokens /\ loads' = loads \ {l}
          /\ viewer' = [viewer EXCEPT !.shown = l.key]
      BY <1>8 DEF TableParsed
    <2>2. /\ viewer' = [kind |-> viewer.kind, key |-> viewer.key, shown |-> viewer'.shown,
                        failed |-> viewer'.failed, token |-> viewer'.token]
          /\ viewer'.shown = l.key /\ viewer'.token = viewer.token
      BY <2>1 DEF PaneFits, ViewerFits
    <2> QED
      BY <2>1, <2>2, AnswerFits DEF PaneFits, ViewerFits
  <1>9. ASSUME NEW l \in loads, LoadFails(l)
        PROVE  PaneFits'
    <2>1. /\ l.live /\ sel' = sel /\ tokens' = tokens /\ loads' = loads \ {l}
          /\ viewer' = [viewer EXCEPT !.failed = TRUE]
      BY <1>9 DEF LoadFails, PaneFits, LoadsFit
    <2>2. /\ viewer' = [kind |-> viewer.kind, key |-> viewer.key, shown |-> viewer'.shown,
                        failed |-> viewer'.failed, token |-> viewer'.token]
          /\ viewer'.shown = None /\ viewer'.token = viewer.token
      BY <2>1 DEF PaneFits, ViewerFits, LoadsFit
    <2> QED
      BY <2>1, <2>2, AnswerFits DEF PaneFits, ViewerFits
  <1>10. ASSUME NEW l \in loads, NEW t \in Token, TokenAnswers(l, t)
         PROVE  PaneFits'
    <2>1. /\ l.live /\ sel' = sel /\ loads' = loads \ {l}
          /\ tokens' = [tokens EXCEPT ![t] = l.key]
          /\ viewer' = [viewer EXCEPT !.shown = l.key, !.token = t, !.failed = FALSE]
      BY <1>10 DEF TokenAnswers, PaneFits, LoadsFit
    <2>2. viewer.token = None /\ \A u \in Token : tokens[u] # None => u = None
      BY <2>1 DEF PaneFits, LoadsFit, ViewerFits
    <2>3. None \notin Token
      BY PreviewAssumption
    <2>4. /\ viewer' = [kind |-> viewer.kind, key |-> viewer.key, shown |-> viewer'.shown,
                        failed |-> viewer'.failed, token |-> viewer'.token]
          /\ viewer'.shown = l.key /\ viewer'.token = t
      BY <2>1 DEF PaneFits, ViewerFits
    <2>5. tokens' = [u \in Token |-> tokens'[u]] /\ \A u \in Token \ {t} : tokens'[u] = None
      BY <2>1, <2>2, <2>3 DEF PaneFits, ViewerFits
    <2> QED
      BY <2>1, <2>4, <2>5, AnswerFits
  <1>11. CASE ElementFails
    <2>1. /\ viewer' = [viewer EXCEPT !.failed = TRUE] /\ UNCHANGED <<loads, tokens, sel>>
      BY <1>11 DEF ElementFails
    <2>2. /\ viewer' = [kind |-> viewer.kind, key |-> viewer.key, shown |-> viewer.shown,
                        failed |-> viewer'.failed, token |-> viewer.token]
      BY <2>1 DEF PaneFits, ViewerFits
    <2>3. /\ viewer'.key = viewer.key /\ viewer'.shown = viewer.shown
          /\ viewer'.token = viewer.token /\ viewer'.kind = viewer.kind
      BY <2>2
    <2> QED
      BY <2>1, <2>2, <2>3 DEF PaneFits, LoadsFit, ViewerFits
  <1>12. CASE UNCHANGED previewVars
    BY <1>12 DEF previewVars, PaneFits, LoadsFit, ViewerFits
  <1> QED
    BY <1>1, <1>2, <1>3, <1>4, <1>5, <1>6, <1>7, <1>8, <1>9, <1>10, <1>11, <1>12
       DEF PreviewNext

LEMMA PaneFitsAlways ==
  ASSUME ~MediaFails
  PROVE  PreviewSpec => []PaneFits
  <1>1. PaneFits /\ [PreviewNext]_previewVars => PaneFits'
    BY PaneFitsStep
  <1> QED
    BY <1>1, PaneFitsInit, PTL DEF PreviewSpec

(***************************************************************************)
(* However fast the user moves on and however late the answers come, a     *)
(* viewer shows the selected object or nothing.                            *)
(***************************************************************************)
THEOREM PaneShowsSelected ==
  ASSUME ~MediaFails
  PROVE  PreviewSpec => []ShownIsSelected
  <1>1. PaneFits => ShownIsSelected
    BY DEF PaneFits, ViewerFits, ShownIsSelected
  <1> QED
    BY <1>1, PaneFitsAlways, PTL

(***************************************************************************)
(* Every token the media server holds is the mounted viewer's, which gives *)
(* it back when it is cleaned up.                                          *)
(***************************************************************************)
THEOREM TokensComeBack ==
  ASSUME ~MediaFails
  PROVE  PreviewSpec => []TokensReturned
  <1>1. PaneFits => TokensReturned
    BY DEF PaneFits, ViewerFits, TokensReturned
  <1> QED
    BY <1>1, PaneFitsAlways, PTL

-----------------------------------------------------------------------------
(***************************************************************************)
(* The types of the pane, whether or not playing elements fail.            *)
(***************************************************************************)

LEMMA LeastOfNaturals ==
  ASSUME NEW T, T \subseteq Nat, T # {}
  PROVE  \E n \in T : \A m \in T : n <= m
  <1> DEFINE Less == OpToRel(<, Nat)
  <1>1. IsWellFoundedOn(Less, Nat)
    BY NatLessThanWellFounded, Zenon
  <1>2. Less = {mn \in Nat \X Nat : mn[1] < mn[2]}
    BY DEF OpToRel
  <1> HIDE DEF Less
  <1>3. \E n \in T : \A m \in T : <<m, n>> \notin Less
    BY <1>1, WFMin
  <1>4. \A m, n \in Nat : <<m, n>> \notin Less => n <= m
    BY <1>2
  <1> QED
    BY <1>3, <1>4

\* The last detector takes what the others leave, so there is a first one.
LEMMA ContentHasAViewer ==
  ASSUME NEW o
  PROVE  RenderContent(o) \in DOMAIN Viewer
  <1> DEFINE Branch == << <<IsImage(o), "image">>, <<IsVideo(o), "video">>, <<IsAudio(o), "audio">>,
                   <<IsPdf(o), "pdf">>, <<IsHtml(o), "html">>, <<IsMarkdown(o), "markdown">>,
                   <<IsArchive(o), "archive">>, <<IsTabular(o) \/ o.mime = "json", "table">>,
                   <<IsText(o), "text">>, <<IsHex(o), "hex">>, <<TRUE, "text">> >>
             Answers == {i \in DOMAIN Branch : Branch[i][1]}
             IsFirst(i) == Branch[i][1] /\ \A j \in 1 .. i - 1 : ~Branch[j][1]
             first == CHOOSE i \in DOMAIN Branch : IsFirst(i)
  <1>1. DOMAIN Branch = 1 .. 11
    OBVIOUS
  <1>2. \A i \in 1 .. 11 : Branch[i][2] \in DOMAIN Viewer
    BY DEF Viewer
  <1>3. Branch[11][1]
    OBVIOUS
  <1>4. RenderContent(o) = Branch[first][2]
    BY Zenon DEF RenderContent
  <1> HIDE DEF Branch
  <1>5. PICK i \in Answers : \A j \in Answers : i <= j
    <2>1. 11 \in Answers /\ Answers \subseteq Nat
      BY <1>1, <1>3
    <2> QED
      BY <2>1, LeastOfNaturals
  <1>6. IsFirst(i)
    BY <1>1, <1>5
  <1>7. first \in DOMAIN Branch
    <2> HIDE DEF IsFirst
    <2> QED
      BY <1>5, <1>6
  <1> HIDE DEF first
  <1> QED
    BY <1>1, <1>2, <1>4, <1>7

LEMMA ImageIsSmaller ==
  ASSUME NEW S, IsFiniteSet(S), NEW f, f = [x \in S |-> f[x]]
  PROVE  LET T == {f[x] : x \in S} IN IsFiniteSet(T) /\ Cardinality(T) <= Cardinality(S)
  <1> DEFINE T == {f[x] : x \in S}
  <1>1. f \in Surjection(S, T)
    BY DEF Surjection
  <1> HIDE DEF T
  <1>2. IsFiniteSet(T) /\ Cardinality(T) <= Cardinality(S)
    BY <1>1, FS_Surjection
  <1> QED
    BY <1>2 DEF T

\* While there are fewer loads than there may be, there is a number left.
LEMMA NewLoadTyped ==
  ASSUME NEW among, IsFiniteSet(among), among \subseteq Load, Cardinality(among) < MaxLoads,
         NEW kind \in Kind \ {"none"}, NEW key \in Key, NEW own \in BOOLEAN
  PROVE  NewLoad(among, kind, key, own) \in Load
  <1> DEFINE num == [l \in among |-> l.n]
             T == {num[l] : l \in among}
  <1>1. IsFiniteSet(T) /\ Cardinality(T) <= Cardinality(among)
    BY ImageIsSmaller
  <1>2. Cardinality(T) \in Nat /\ Cardinality(among) \in Nat /\ MaxLoads \in Nat
    BY <1>1, FS_CardinalityType, PreviewAssumption
  <1>3. IsFiniteSet(1 .. MaxLoads) /\ Cardinality(1 .. MaxLoads) = MaxLoads
    BY <1>2, FS_Interval
  <1>4. ~(1 .. MaxLoads \subseteq T)
    BY <1>1, <1>2, <1>3, FS_Subset
  <1>5. \E n \in 1 .. MaxLoads : \A l \in among : l.n # n
    BY <1>4
  <1> DEFINE n == CHOOSE n \in 1 .. MaxLoads : \A l \in among : l.n # n
  <1>6. n \in 1 .. MaxLoads
    BY <1>5
  <1>7. NewLoad(among, kind, key, own) =
          [n |-> n, kind |-> kind, key |-> key, phase |-> "fetch", own |-> own,
           live |-> TRUE, mounted |-> TRUE]
    BY DEF NewLoad
  <1> HIDE DEF n
  <1> QED
    BY <1>6, <1>7 DEF Load

Media == {"video", "audio"}

ViewerRecord == [kind : Kind, key : Key \cup {None}, shown : Key \cup {None},
                 failed : BOOLEAN, token : Token \cup {None}]

\* A request that a media viewer repeats.
RepeatFits(l, kind) ==
  l.own => l.kind \in Media /\ l.phase = "fetch" /\ (l.mounted => kind \in Media)

\* A load whose answer is awaited is the mounted viewer's; one that a media
\* viewer repeated is, while its component is there, a media viewer's.
LoadsBelong ==
  \A l \in loads :
    /\ RepeatFits(l, viewer.kind)
    /\ ~l.own /\ l.live => l.kind = viewer.kind

ViewerTyped ==
  /\ viewer \in ViewerRecord
  /\ viewer.kind # "none" => viewer.key \in Key
  /\ viewer.shown # None => viewer.kind # "none"

PreviewTyped ==
  /\ PreviewTypeOK /\ ViewerTyped
  /\ IsFiniteSet(loads) /\ LoadsBelong

\* What a clean-up leaves are loads, and no more of them than there were.
LEMMA CleanUpTyped ==
  ASSUME loads \subseteq Load, IsFiniteSet(loads), LoadsBelong, NEW kind \in Kind
  PROVE  /\ CleanUp(kind) \subseteq Load /\ IsFiniteSet(CleanUp(kind))
         /\ \A l \in CleanUp(kind) :
              /\ RepeatFits(l, kind)
              /\ ~l.own => ~l.live
  <1> DEFINE S == {m \in loads : m.phase = "fetch"}
             left == [l \in S |-> [l EXCEPT !.live = l.own,
                        !.mounted = l.mounted /\ Component(kind) = Component(viewer.kind)]]
  <1>1. IsFiniteSet(S) /\ S \subseteq loads
    BY FS_Subset
  <1>2. CleanUp(kind) = {left[l] : l \in S}
    BY DEF CleanUp
  <1>3. ASSUME NEW l \in S
        PROVE  /\ left[l] \in Load
               /\ RepeatFits(left[l], kind)
               /\ ~left[l].own => ~left[l].live
    <2>1. PICK b \in BOOLEAN : b = (l.mounted /\ Component(kind) = Component(viewer.kind))
      OBVIOUS
    <2>2. l \in Load
      BY <1>1
    <2>3. l.own \in BOOLEAN
      BY <2>2 DEF Load
    <2>4. PICK a \in BOOLEAN : a = l.own
      BY <2>3
    <2>5. left[l] = [l EXCEPT !.live = a, !.mounted = b]
      BY <2>1, <2>4, Zenon
    <2>6. /\ left[l] \in Load /\ left[l].own = l.own /\ left[l].kind = l.kind
          /\ left[l].live = a /\ left[l].mounted = b /\ left[l].phase = "fetch"
      BY <2>2, <2>5 DEF Load
    <2>7. l.own => l.kind \in Media /\ (l.mounted => viewer.kind \in Media)
      BY DEF LoadsBelong, RepeatFits
    <2>8. ASSUME viewer.kind \in Media, Component(kind) = Component(viewer.kind)
          PROVE  kind \in Media
      BY <2>8 DEF Component, Media, Kind, Viewer
    <2> HIDE DEF left
    <2>9. RepeatFits(left[l], kind)
      BY <2>1, <2>6, <2>7, <2>8, Zenon DEF RepeatFits
    <2>10. ~left[l].own => ~left[l].live
      BY <2>4, <2>6, Zenon
    <2> QED
      BY <2>6, <2>9, <2>10, Zenon
  <1>4. left = [l \in S |-> left[l]]
    OBVIOUS
  <1> HIDE DEF left, S
  <1>5. IsFiniteSet(CleanUp(kind))
    BY <1>1, <1>2, <1>4, ImageIsSmaller
  <1> QED
    BY <1>2, <1>3, <1>5

LEMMA RenderTyped ==
  ASSUME PreviewTyped, Render, sel' \in Key \cup {None},
         head' \in [Key -> {"none", "loading", "ok", "failed"}],
         gated' \in BOOLEAN, anyway' \in BOOLEAN, edit' \in BOOLEAN
  PROVE  PreviewTyped'
  <1> DEFINE w == Wanted'
             rest == CleanUp(w.kind)
             new == NewLoad(rest, w.kind, w.key, FALSE)
  <1>1. /\ w = [kind |-> w.kind, key |-> w.key] /\ w.kind \in Kind /\ w.key \in Key \cup {None}
        /\ w.kind # "none" => w.key \in Key
    <2>1. RenderContent(Known(sel)') \in Kind
      BY ContentHasAViewer DEF Kind
    <2> QED
      BY <2>1 DEF Wanted, Kind
  <1>2. \/ w = [kind |-> viewer.kind, key |-> viewer.key] /\ UNCHANGED <<viewer, loads, tokens>>
        \/ /\ viewer' = [NoViewer EXCEPT !.kind = w.kind, !.key = w.key]
           /\ tokens' = Revoked
           /\ IF w.kind = "none" THEN loads' = rest
              ELSE Cardinality(rest) < MaxLoads /\ loads' = rest \cup {new}
    BY DEF Render
  <1>3. /\ rest \subseteq Load /\ IsFiniteSet(rest)
        /\ \A l \in rest : RepeatFits(l, w.kind) /\ (~l.own => ~l.live)
    BY <1>1, CleanUpTyped DEF PreviewTyped, PreviewTypeOK
  <1>4. w.kind # "none" /\ Cardinality(rest) < MaxLoads =>
          new \in Load /\ ~new.own /\ new.kind = w.kind
    <2>1. ~new.own /\ new.kind = w.kind
      BY DEF NewLoad
    <2> QED
      BY <1>1, <1>3, <2>1, NewLoadTyped
  <1> HIDE DEF w, rest, new
  <1>5. CASE UNCHANGED <<viewer, loads, tokens>>
    BY <1>5 DEF PreviewTyped, PreviewTypeOK, ViewerTyped, LoadsBelong, RepeatFits
  <1>6. CASE /\ viewer' = [NoViewer EXCEPT !.kind = w.kind, !.key = w.key]
             /\ tokens' = Revoked
             /\ IF w.kind = "none" THEN loads' = rest
                ELSE Cardinality(rest) < MaxLoads /\ loads' = rest \cup {new}
    <2>1. viewer' = [kind |-> w.kind, key |-> w.key, shown |-> None, failed |-> FALSE, token |-> None]
      BY <1>6 DEF NoViewer
    <2>2. ViewerTyped' /\ viewer'.kind = w.kind
      BY <1>1, <2>1 DEF ViewerTyped, ViewerRecord
    <2>3. tokens' \in [Token -> Key \cup {None}]
      BY <1>6 DEF Revoked, PreviewTyped, PreviewTypeOK
    <2>4. loads' \subseteq Load /\ IsFiniteSet(loads')
      BY <1>3, <1>4, <1>6, FS_AddElement
    <2>5. LoadsBelong'
      BY <1>3, <1>4, <1>6, <2>2 DEF LoadsBelong, RepeatFits
    <2> QED
      BY <2>2, <2>3, <2>4, <2>5 DEF PreviewTyped, PreviewTypeOK, ViewerTyped, ViewerRecord
  <1> QED
    BY <1>2, <1>5, <1>6

\* An answer that the viewer takes.
LEMMA AnswerTyped ==
  ASSUME PreviewTyped, NEW l \in loads, loads' = loads \ {l},
         UNCHANGED <<sel, head, gated, anyway, edit>>,
         tokens' \in [Token -> Key \cup {None}],
         viewer' \in ViewerRecord, viewer'.kind = viewer.kind, viewer'.key = viewer.key,
         viewer'.shown # None => viewer.kind # "none"
  PROVE  PreviewTyped'
  <1>1. ViewerTyped'
    BY DEF PreviewTyped, ViewerTyped
  <1>2. IsFiniteSet(loads')
    BY FS_RemoveElement DEF PreviewTyped
  <1>3. LoadsBelong'
    BY DEF PreviewTyped, LoadsBelong, RepeatFits
  <1> QED
    BY <1>1, <1>2, <1>3 DEF PreviewTyped, PreviewTypeOK, ViewerTyped, ViewerRecord

LEMMA ViewerAnswers ==
  ASSUME ViewerTyped, NEW key \in Key \cup {None}, NEW failed \in BOOLEAN
  PROVE  /\ LET v == [viewer EXCEPT !.shown = key]
            IN  v \in ViewerRecord /\ v.kind = viewer.kind /\ v.key = viewer.key /\ v.shown = key
         /\ LET v == [viewer EXCEPT !.failed = failed]
            IN  v \in ViewerRecord /\ v.kind = viewer.kind /\ v.key = viewer.key
                  /\ v.shown = viewer.shown
  BY DEF ViewerTyped, ViewerRecord

LEMMA BodyTyped ==
  ASSUME PreviewTyped, NEW l \in loads, BodyAnswers(l)
  PROVE  PreviewTyped'
  <1>1. /\ l \in Load /\ l.live /\ Style(l.kind).asks = "body"
        /\ UNCHANGED <<sel, head, gated, anyway, edit, tokens>>
    BY DEF BodyAnswers, PreviewTyped, PreviewTypeOK
  <1>2. l.kind \notin Media
    BY <1>1 DEF Media, Style, Viewer, MediaPreview, Asks
  <1>3. ~l.own /\ l.kind = viewer.kind /\ l.kind # "none" /\ l.key \in Key
    BY <1>1, <1>2 DEF PreviewTyped, LoadsBelong, RepeatFits, Load
  <1>4. CASE loads' = loads \ {l} /\ viewer' = [viewer EXCEPT !.shown = l.key]
    BY <1>1, <1>3, <1>4, ViewerAnswers, AnswerTyped DEF PreviewTyped, PreviewTypeOK
  <1>5. CASE loads' = (loads \ {l}) \cup {[l EXCEPT !.phase = "parse"]} /\ viewer' = viewer
    <2> DEFINE p == [l EXCEPT !.phase = "parse"]
    <2>1. p \in Load /\ p.own = l.own /\ p.kind = l.kind
      BY <1>1 DEF Load
    <2> HIDE DEF p
    <2>2. loads' = (loads \ {l}) \cup {p}
      BY <1>5 DEF p
    <2>3. IsFiniteSet(loads')
      BY <2>2, FS_RemoveElement, FS_AddElement DEF PreviewTyped
    <2>4. LoadsBelong'
      BY <1>3, <1>5, <2>1, <2>2 DEF PreviewTyped, LoadsBelong, RepeatFits
    <2> QED
      BY <1>1, <1>5, <2>1, <2>2, <2>3, <2>4 DEF PreviewTyped, PreviewTypeOK, ViewerTyped
  <1> QED
    BY <1>4, <1>5 DEF BodyAnswers

LEMMA TokenTyped ==
  ASSUME PreviewTyped, NEW l \in loads, NEW t \in Token, TokenAnswers(l, t)
  PROVE  PreviewTyped'
  <1>1. /\ l \in Load /\ l.live /\ loads' = loads \ {l}
        /\ UNCHANGED <<sel, head, gated, anyway, edit>>
        /\ tokens' = [tokens EXCEPT ![t] = l.key]
        /\ viewer' = IF l.mounted
                     THEN [viewer EXCEPT !.shown = l.key, !.token = t, !.failed = FALSE] ELSE viewer
    BY DEF TokenAnswers, PreviewTyped, PreviewTypeOK
  <1>2. l.key \in Key /\ l.kind # "none" /\ l.own \in BOOLEAN
    BY <1>1 DEF Load
  <1>3. l.mounted => viewer.kind # "none"
    BY <1>1, <1>2 DEF PreviewTyped, LoadsBelong, RepeatFits, Media
  <1>4. PICK f \in BOOLEAN : f = FALSE
    OBVIOUS
  <1>5. viewer' = IF l.mounted
                  THEN [viewer EXCEPT !.shown = l.key, !.token = t, !.failed = f] ELSE viewer
    BY <1>1, <1>4, Zenon
  <1>6. /\ viewer' \in ViewerRecord /\ viewer'.kind = viewer.kind /\ viewer'.key = viewer.key
        /\ viewer'.shown # None => viewer.kind # "none"
    BY <1>2, <1>3, <1>5 DEF PreviewTyped, ViewerTyped, ViewerRecord
  <1>7. tokens' \in [Token -> Key \cup {None}]
    BY <1>1, <1>2 DEF PreviewTyped, PreviewTypeOK
  <1> QED
    BY <1>1, <1>6, <1>7, AnswerTyped

LEMMA ElementTyped ==
  ASSUME PreviewTyped, ElementFails
  PROVE  PreviewTyped'
  <1>1. /\ viewer.shown # None /\ viewer.kind # "none" /\ viewer.key \in Key
        /\ viewer.kind \in Kind /\ UNCHANGED <<sel, head, gated, anyway, edit>>
    BY DEF ElementFails, PreviewTyped, ViewerTyped, ViewerRecord
  <1>2. CASE Style(viewer.kind).again
    <2> DEFINE new == NewLoad(loads, viewer.kind, viewer.key, TRUE)
    <2>1. /\ Cardinality(loads) < MaxLoads /\ tokens' = Revoked /\ loads' = loads \cup {new}
          /\ viewer' = [viewer EXCEPT !.shown = None, !.token = None]
      BY <1>2 DEF ElementFails
    <2>2. new \in Load
      BY <1>1, <2>1, NewLoadTyped DEF PreviewTyped, PreviewTypeOK
    <2>3. new.own /\ new.kind = viewer.kind /\ new.phase = "fetch"
      BY DEF NewLoad
    <2>4. viewer.kind \in Media
      BY <1>1, <1>2 DEF Style, Kind, Viewer, Media, Asks, ImagePreview, PdfPreview, HtmlPreview,
                        MarkdownPreview, ArchivePreview, TablePreview, TextPreview, HexPreview
    <2> HIDE DEF new
    <2>5. viewer' \in ViewerRecord /\ viewer'.kind = viewer.kind /\ viewer'.key = viewer.key
            /\ viewer'.shown = None
      BY <2>1 DEF PreviewTyped, ViewerTyped, ViewerRecord
    <2>6. tokens' \in [Token -> Key \cup {None}]
      BY <2>1 DEF Revoked, PreviewTyped, PreviewTypeOK
    <2>7. IsFiniteSet(loads')
      BY <2>1, FS_AddElement DEF PreviewTyped
    <2>8. LoadsBelong'
      BY <2>1, <2>3, <2>4, <2>5 DEF PreviewTyped, LoadsBelong, RepeatFits
    <2>9. ViewerTyped'
      BY <1>1, <2>5 DEF ViewerTyped
    <2> QED
      BY <1>1, <2>1, <2>2, <2>5, <2>6, <2>7, <2>8, <2>9
         DEF PreviewTyped, PreviewTypeOK, ViewerRecord
  <1>3. CASE viewer' = [viewer EXCEPT !.failed = TRUE] /\ UNCHANGED <<loads, tokens>>
    <2>1. /\ viewer' \in ViewerRecord /\ viewer'.kind = viewer.kind /\ viewer'.key = viewer.key
          /\ viewer'.shown = viewer.shown
      BY <1>3, ViewerAnswers DEF PreviewTyped
    <2> QED
      BY <1>1, <1>3, <2>1 DEF PreviewTyped, PreviewTypeOK, ViewerTyped, ViewerRecord, LoadsBelong,
                              RepeatFits
  <1> QED
    BY <1>2, <1>3 DEF ElementFails

LEMMA PreviewTypedStep ==
  ASSUME PreviewTyped, [PreviewNext]_previewVars
  PROVE  PreviewTyped'
  <1>1. /\ sel \in Key \cup {None} /\ head \in [Key -> {"none", "loading", "ok", "failed"}]
        /\ gated \in BOOLEAN /\ anyway \in BOOLEAN /\ edit \in BOOLEAN
        /\ loads \subseteq Load /\ tokens \in [Token -> Key \cup {None}] /\ ViewerTyped
    BY DEF PreviewTyped, PreviewTypeOK
  <1>2. \A k, off : HeadAsked(k, off) \in [Key -> {"none", "loading", "ok", "failed"}]
    BY <1>1 DEF HeadAsked
  <1>3. ASSUME NEW k \in Key \cup {None}, Select(k)
        PROVE  PreviewTyped'
    BY <1>1, <1>2, <1>3, RenderTyped DEF Select
  <1>4. CASE Gate
    BY <1>1, <1>2, <1>4, RenderTyped DEF Gate
  <1>5. ASSUME NEW k \in Key, HeadAnswers(k)
        PROVE  PreviewTyped'
    BY <1>1, <1>5, RenderTyped DEF HeadAnswers
  <1>6. CASE PreviewAnyway
    BY <1>1, <1>6, RenderTyped DEF PreviewAnyway
  <1>7. CASE ToggleEdit
    BY <1>1, <1>7, RenderTyped DEF ToggleEdit
  <1>8. ASSUME NEW l \in loads, AnswerDropped(l)
        PROVE  PreviewTyped'
    BY <1>1, <1>8, AnswerTyped DEF AnswerDropped, ViewerTyped
  <1>9. ASSUME NEW l \in loads, TableParsed(l)
        PROVE  PreviewTyped'
    <2>1. l \in Load /\ l.live /\ l.phase = "parse"
      BY <1>1, <1>9 DEF TableParsed
    <2>2. l.kind # "none" /\ l.key \in Key /\ viewer.kind = l.kind
      BY <2>1 DEF PreviewTyped, LoadsBelong, RepeatFits, Load
    <2> QED
      BY <1>1, <1>9, <2>2, ViewerAnswers, AnswerTyped DEF TableParsed
  <1>10. ASSUME NEW l \in loads, LoadFails(l)
         PROVE  PreviewTyped'
    <2>1. viewer' = viewer \/ viewer' = [viewer EXCEPT !.failed = TRUE]
      BY <1>10 DEF LoadFails
    <2>2. viewer' \in ViewerRecord /\ viewer'.kind = viewer.kind /\ viewer'.key = viewer.key
            /\ viewer'.shown = viewer.shown
      BY <1>1, <2>1, ViewerAnswers DEF ViewerTyped
    <2> QED
      BY <1>1, <1>10, <2>2, AnswerTyped DEF LoadFails, ViewerTyped
  <1>11. CASE UNCHANGED previewVars
    BY <1>11 DEF previewVars, PreviewTyped, PreviewTypeOK, ViewerTyped, LoadsBelong, RepeatFits
  <1> QED
    BY <1>3, <1>4, <1>5, <1>6, <1>7, <1>8, <1>9, <1>10, <1>11, BodyTyped, TokenTyped, ElementTyped
       DEF PreviewNext

LEMMA PreviewTypesAlways == PreviewSpec => []PreviewTypeOK
  <1>1. PreviewInit => PreviewTyped
    <2> SUFFICES ASSUME PreviewInit PROVE PreviewTyped
      OBVIOUS
    <2>1. NoViewer \in ViewerRecord /\ NoViewer.kind = "none" /\ NoViewer.shown = None
      <3>1. PICK f \in BOOLEAN : f = FALSE
        OBVIOUS
      <3>2. NoViewer = [kind |-> "none", key |-> None, shown |-> None, failed |-> f, token |-> None]
        BY <3>1, Zenon DEF NoViewer
      <3> QED
        BY <3>2 DEF ViewerRecord, Kind
    <2>2. loads = {} /\ IsFiniteSet(loads) /\ LoadsBelong
      BY FS_EmptySet DEF PreviewInit, LoadsBelong, RepeatFits
    <2> QED
      BY <2>1, <2>2 DEF PreviewInit, PreviewTyped, PreviewTypeOK, ViewerTyped, ViewerRecord
  <1>2. PreviewTyped => PreviewTypeOK
    BY DEF PreviewTyped
  <1> QED
    BY <1>1, <1>2, PreviewTypedStep, PTL DEF PreviewSpec

-----------------------------------------------------------------------------
(***************************************************************************)
(* The editor.                                                             *)
(*                                                                         *)
(* The argument: an ETag is given out once, so that it stands for one text *)
(* for ever; the editor and every save under way know an ETag together     *)
(* with a text it stands for, whatever answers have overtaken one another; *)
(* and an editor that can be typed in has one.                             *)
(***************************************************************************)

\* The ETag e was given out, and an object that has it has the text t.
StandsFor(e, t) ==
  /\ e[2] <= rev
  /\ \A k \in EditedKey : obj[k].etag = e => SameText(obj[k].text, t)

EtagsGivenOut ==
  \A k \in EditedKey : obj[k].etag[1] = k /\ obj[k].etag[2] <= rev

EditorKnows ==
  /\ Ready => ed.text # Absent /\ ed.etag # Absent
  /\ ed # Absent /\ ed.etag # Absent => StandsFor(ed.etag, ed.kept)

PutKnows(r) ==
  /\ r.text # Absent
  /\ r.match = Absent => r.warned
  /\ r.match # Absent => StandsFor(r.match, r.saw)
  /\ r.state = "stored" => r.etag # Absent /\ StandsFor(r.etag, r.text)

RequestsKnow ==
  \A r \in reqs : r.what = "put" => PutKnows(r)

\* No answer is heard where there is no editor.
NobodyIsTold ==
  ed = Absent => \A r \in reqs : r.what = "put" /\ ~r.mounted

EditorInv ==
  /\ EditorTypeOK /\ IsFiniteSet(reqs)
  /\ EtagsGivenOut /\ EditorKnows /\ RequestsKnow /\ NobodyIsTold

-----------------------------------------------------------------------------
(***************************************************************************)
(* Requests.                                                               *)
(***************************************************************************)

\* Send finds a number that is free.
LEMMA SendAdds ==
  ASSUME NEW among \in SUBSET Request, IsFiniteSet(among), Cardinality(among) < MaxReqs,
         NEW r \in Request
  PROVE  /\ IsFiniteSet(Send(among, r))
         /\ \E n \in 1 .. MaxReqs : Send(among, r) = among \cup {[r EXCEPT !.n = n]}
  <1> DEFINE f == [q \in among |-> q.n]
             Taken == {q.n : q \in among}
             Free(i) == \A q \in among : q.n # i
  <1>1. f \in Surjection(among, Taken)
    BY DEF Surjection
  <1>2. IsFiniteSet(Taken) /\ Cardinality(Taken) <= Cardinality(among)
    BY <1>1, FS_Surjection
  <1>3. /\ Cardinality(among) \in Nat /\ Cardinality(Taken) \in Nat
        /\ Cardinality(1 .. MaxReqs) = MaxReqs /\ MaxReqs \in Nat
    <2>1. MaxReqs \in Nat
      BY EditorAssumption
    <2>2. Cardinality(among) \in Nat /\ Cardinality(Taken) \in Nat
      BY <1>2, FS_CardinalityType
    <2>3. Cardinality(1 .. MaxReqs) = MaxReqs
      BY <2>1, FS_Interval
    <2> QED
      BY <2>1, <2>2, <2>3
  <1>4. ~(1 .. MaxReqs \subseteq Taken)
    <2> SUFFICES ASSUME 1 .. MaxReqs \subseteq Taken PROVE FALSE
      OBVIOUS
    <2>1. Cardinality(1 .. MaxReqs) <= Cardinality(Taken)
      BY <1>2, FS_Subset
    <2> QED
      BY <2>1, <1>2, <1>3
  <1>5. \E i \in 1 .. MaxReqs : Free(i)
    BY <1>4
  <1> DEFINE n == CHOOSE i \in 1 .. MaxReqs : Free(i)
  <1>6. n \in 1 .. MaxReqs
    BY <1>5
  <1>7. Send(among, r) = among \cup {[r EXCEPT !.n = n]}
    BY DEF Send
  <1>8. IsFiniteSet(Send(among, r))
    <2> DEFINE x == [r EXCEPT !.n = n]
    <2> HIDE DEF n, x
    <2>1. IsFiniteSet(among \cup {x})
      BY FS_AddElement
    <2> QED
      BY <1>7, <2>1 DEF x
  <1> QED
    BY <1>6, <1>7, <1>8

\* r is q, heard by whoever is left.
SameRequest(r, q) ==
  /\ r.what = q.what /\ r.text = q.text /\ r.match = q.match /\ r.saw = q.saw
  /\ r.warned = q.warned /\ r.state = q.state /\ r.etag = q.etag

\* What a clean-up leaves are requests that were there.
LEMMA HeardWereThere ==
  ASSUME EditorInv, NEW same \in BOOLEAN
  PROVE  /\ StillHeard(same) \in SUBSET Request /\ IsFiniteSet(StillHeard(same))
         /\ \A r \in StillHeard(same) :
              /\ \E q \in reqs : SameRequest(r, q)
              /\ ~same => r.what = "put" /\ ~r.mounted
  <1> DEFINE Left == {q \in reqs : q.what = "put" \/ (q.own /\ same)}
             g == [q \in Left |-> [q EXCEPT !.mounted = q.mounted /\ same]]
  <1>1. reqs \subseteq Request /\ IsFiniteSet(reqs)
    BY DEF EditorInv, EditorTypeOK
  <1>2. IsFiniteSet(Left)
    BY <1>1, FS_Subset
  <1>3. StillHeard(same) = {g[q] : q \in Left}
    BY DEF StillHeard
  <1>4. g \in Surjection(Left, StillHeard(same))
    BY <1>3 DEF Surjection
  <1>5. IsFiniteSet(StillHeard(same))
    BY <1>2, <1>4, FS_Surjection
  <1>6. ASSUME NEW r \in StillHeard(same)
        PROVE  /\ r \in Request /\ \E q \in reqs : SameRequest(r, q)
               /\ ~same => r.what = "put" /\ ~r.mounted
    <2>1. PICK q \in Left : r = [q EXCEPT !.mounted = q.mounted /\ same]
      BY <1>3
    <2>2. q \in Request /\ q \in reqs
      BY <1>1
    <2>3. (q.mounted /\ same) \in BOOLEAN
      OBVIOUS
    <2>4. r \in Request /\ SameRequest(r, q) /\ r.mounted = (q.mounted /\ same)
      BY <2>1, <2>2, <2>3 DEF Request, SameRequest
    <2>5. ~same => q.what = "put"
      OBVIOUS
    <2> QED
      BY <2>2, <2>4, <2>5 DEF SameRequest
  <1> QED
    BY <1>5, <1>6

\* A load that was just asked for, and a save.
LEMMA LoadTyped ==
  ASSUME NEW k \in EditedKey, NEW own \in BOOLEAN, MaxReqs # 0
  PROVE  LoadOf(k, own) \in Request
  BY EditorAssumption DEF LoadOf, Request

LEMMA PutTyped ==
  ASSUME EditorInv, Ready, MaxReqs # 0, NEW text \in Text, NEW match \in Etag \cup {Absent}
  PROVE  /\ PutOf(text, match) \in Request
         /\ PutOf(text, match).text = text /\ PutOf(text, match).match = match
         /\ PutOf(text, match).saw = ed.kept /\ PutOf(text, match).state = "sent"
         /\ PutOf(text, match).warned = (ed.conflict # Absent)
  <1>1. ed \in Editor
    BY DEF EditorInv, EditorTypeOK, Ready
  <1>2. ed.key \in EditedKey /\ ed.kept \in Text \cup {Absent} /\ (ed.conflict # Absent) \in BOOLEAN
    BY <1>1 DEF Editor
  <1> DEFINE warned == ed.conflict # Absent
             p == [n |-> 1, what |-> "put", key |-> ed.key, own |-> TRUE, mounted |-> TRUE,
                   text |-> text, match |-> match, saw |-> ed.kept, warned |-> warned,
                   state |-> "sent", etag |-> Absent]
  <1> HIDE DEF warned
  <1>3. PutOf(text, match) = p
    <2>1. PutOf(text, match) = [LoadOf(ed.key, TRUE) EXCEPT !.what = "put", !.text = text,
                                  !.match = match, !.saw = ed.kept, !.warned = warned]
      BY DEF PutOf, warned
    <2> QED
      BY <2>1 DEF LoadOf
  <1>4. warned \in BOOLEAN
    BY DEF warned
  <1>5. p \in Request
    BY <1>2, <1>4, EditorAssumption DEF Request
  <1> QED
    BY <1>3, <1>5 DEF warned

-----------------------------------------------------------------------------
(***************************************************************************)
(* The invariant.                                                          *)
(***************************************************************************)

\* The store as it is keeps what an ETag stands for.
LEMMA SameStore ==
  ASSUME UNCHANGED <<obj, rev>>
  PROVE  /\ EtagsGivenOut => EtagsGivenOut'
         /\ \A e, t : StandsFor(e, t) => StandsFor(e, t)'
  BY DEF EtagsGivenOut, StandsFor, SameText

\* A write under the next ETag does too, and the new ETag stands for it.
LEMMA NewWrite ==
  ASSUME EditorInv, NEW k \in EditedKey, NEW t \in Text, NEW e0, e0 = <<k, rev + 1>>,
         rev < MaxRev, rev' = rev + 1, obj' = [obj EXCEPT ![k] = [etag |-> e0, text |-> t]]
  PROVE  /\ obj' \in [EditedKey -> [etag : Etag, text : Text]] /\ rev' \in 0 .. MaxRev
         /\ EtagsGivenOut'
         /\ \A e \in Etag : \A u : StandsFor(e, u) => StandsFor(e, u)'
         /\ e0 \in Etag /\ StandsFor(e0, t)'
  <1>1. rev \in 0 .. MaxRev /\ MaxRev \in Nat /\ obj \in [EditedKey -> [etag : Etag, text : Text]]
    BY EditorAssumption DEF EditorInv, EditorTypeOK
  <1>2. rev + 1 \in 0 .. MaxRev /\ e0 \in Etag
    BY <1>1 DEF Etag
  <1>3. [etag |-> e0, text |-> t] \in [etag : Etag, text : Text]
    BY <1>2
  <1>4. obj' \in [EditedKey -> [etag : Etag, text : Text]]
    BY <1>1, <1>3
  <1>5. /\ obj'[k].etag = e0 /\ obj'[k].text = t
        /\ \A i \in EditedKey \ {k} : obj'[i] = obj[i]
    BY <1>1
  <1>6. \A i \in EditedKey : obj[i].etag[1] = i /\ obj[i].etag[2] <= rev /\ obj[i].etag[2] \in Nat
    BY <1>1 DEF EditorInv, EtagsGivenOut, Etag
  <1>7. EtagsGivenOut'
    BY <1>1, <1>5, <1>6 DEF EtagsGivenOut
  <1>8. ASSUME NEW e \in Etag, NEW u, StandsFor(e, u)
        PROVE  StandsFor(e, u)'
    <2>1. e[2] <= rev /\ e[2] \in Nat /\ e # e0
      BY <1>1, <1>8 DEF StandsFor, Etag
    <2> QED
      BY <1>1, <1>5, <1>8, <2>1 DEF StandsFor, SameText
  <1>9. StandsFor(e0, t)'
    <2>1. \A i \in EditedKey : obj'[i].etag = e0 => i = k
      BY <1>5, <1>6
    <2>2. e0[2] <= rev'
      BY <1>1
    <2>3. SameText(obj'[k].text, t)
      BY <1>5 DEF SameText
    <2> QED
      BY <2>1, <2>2, <2>3 DEF StandsFor, SameText
  <1> QED
    BY <1>2, <1>4, <1>7, <1>8, <1>9

LEMMA InvInit == EditorInit => EditorInv
  <1> SUFFICES ASSUME EditorInit PROVE EditorInv
    OBVIOUS
  <1>1. EditorTypeOK
    <2>1. 0 \in 0 .. MaxRev
      BY EditorAssumption
    <2>2. \A k \in EditedKey : <<k, 0>> \in Etag /\ [of |-> k, rev |-> 0, whole |-> TRUE] \in Text
      BY <2>1 DEF Etag, Text
    <2> QED
      BY <2>1, <2>2 DEF EditorInit, EditorTypeOK
  <1>2. IsFiniteSet(reqs)
    BY FS_EmptySet DEF EditorInit
  <1>3. EtagsGivenOut /\ EditorKnows /\ RequestsKnow /\ NobodyIsTold
    BY DEF EditorInit, EtagsGivenOut, EditorKnows, RequestsKnow, NobodyIsTold, Ready
  <1> QED
    BY <1>1, <1>2, <1>3 DEF EditorInv

\* What a reload sets leaves the editor knowing what it knew.
LEMMA ReloadingTyped ==
  ASSUME EditorInv, NEW k \in EditedKey, ed # Absent
  PROVE  /\ Reloading(k) \in Editor /\ Reloading(k).loading
         /\ Reloading(k).etag = ed.etag /\ Reloading(k).kept = ed.kept
  <1>1. ed \in Editor
    BY DEF EditorInv, EditorTypeOK
  <1> QED
    BY <1>1 DEF Reloading, Editor

\* Opening an object, or loading it again, when requests are left as they
\* were or forgotten.
LEMMA AskingKeepsInv ==
  ASSUME EditorInv, NEW k \in EditedKey, NEW own \in BOOLEAN,
         NEW left \in SUBSET Request, IsFiniteSet(left), Cardinality(left) < MaxReqs,
         \A r \in left : \E q \in reqs : SameRequest(r, q),
         reqs' = Send(left, LoadOf(k, own)), UNCHANGED <<obj, rev>>,
         ed' = FreshEditor(k) \/ (ed # Absent /\ ed' = Reloading(k))
  PROVE  EditorInv'
  <1>1. MaxReqs # 0
    BY FS_CardinalityType, EditorAssumption
  <1>2. LoadOf(k, own) \in Request
    BY <1>1, LoadTyped
  <1>3. PICK n \in 1 .. MaxReqs : reqs' = left \cup {[LoadOf(k, own) EXCEPT !.n = n]}
    BY <1>2, SendAdds
  <1> DEFINE new == [LoadOf(k, own) EXCEPT !.n = n]
  <1>4. new \in Request /\ new.what = "load"
    BY <1>2 DEF Request, LoadOf
  <1>5. IsFiniteSet(reqs')
    BY <1>2, SendAdds
  <1> HIDE DEF new
  <1>6. reqs' = left \cup {new}
    BY <1>3 DEF new
  <1>7. /\ ed' \in Editor /\ ed'.loading
        /\ ed'.etag # Absent => ed # Absent /\ ed'.etag = ed.etag /\ ed'.kept = ed.kept
    <2>1. FreshEditor(k) \in Editor /\ FreshEditor(k).loading /\ FreshEditor(k).etag = Absent
      BY DEF FreshEditor, Editor
    <2> QED
      BY <2>1, ReloadingTyped
  <1>8. EditorTypeOK'
    BY <1>4, <1>6, <1>7 DEF EditorInv, EditorTypeOK
  <1>9. EtagsGivenOut'
    BY SameStore DEF EditorInv
  <1>10. EditorKnows'
    BY <1>7, SameStore DEF EditorInv, EditorKnows, Ready
  <1>11. RequestsKnow'
    <2> SUFFICES ASSUME NEW r \in reqs', r.what = "put" PROVE PutKnows(r)'
      BY DEF RequestsKnow
    <2>1. r \in left
      BY <1>4, <1>6
    <2>2. PICK q \in reqs : SameRequest(r, q)
      BY <2>1
    <2>3. PutKnows(q)
      BY <2>2 DEF SameRequest, EditorInv, RequestsKnow
    <2> QED
      BY <2>2, <2>3, SameStore DEF PutKnows, SameRequest
  <1>12. NobodyIsTold'
    BY <1>7, AbsentAssumption DEF NobodyIsTold
  <1> QED
    BY <1>5, <1>8, <1>9, <1>10, <1>11, <1>12 DEF EditorInv

LEMMA OpenKeepsInv ==
  ASSUME EditorInv, NEW k \in EditedKey, Open(k)
  PROVE  EditorInv'
  <1>1. PICK same \in BOOLEAN :
          /\ Cardinality(StillHeard(same)) < MaxReqs
          /\ same => ed # Absent
          /\ ed' = IF same THEN Reloading(k) ELSE FreshEditor(k)
          /\ reqs' = Send(StillHeard(same), LoadOf(k, FALSE))
    BY DEF Open
  <1>2. UNCHANGED <<obj, rev>>
    BY DEF Open
  <1> DEFINE left == StillHeard(same)
  <1>3. left \in SUBSET Request /\ IsFiniteSet(left) /\ \A r \in left : \E q \in reqs : SameRequest(r, q)
    BY HeardWereThere
  <1> HIDE DEF left
  <1>4. Cardinality(left) < MaxReqs /\ reqs' = Send(left, LoadOf(k, FALSE))
    BY <1>1 DEF left
  <1>5. ed' = FreshEditor(k) \/ (ed # Absent /\ ed' = Reloading(k))
    BY <1>1
  <1> QED
    BY <1>2, <1>3, <1>4, <1>5, AskingKeepsInv

LEMMA RefreshKeepsInv ==
  ASSUME EditorInv, Refresh
  PROVE  EditorInv'
  <1>1. /\ ed # Absent /\ ed' = Reloading(ed.key) /\ reqs' = Send(reqs, LoadOf(ed.key, TRUE))
        /\ Cardinality(reqs) < MaxReqs /\ UNCHANGED <<obj, rev>>
    BY DEF Refresh, Ready
  <1>2. ed.key \in EditedKey
    BY <1>1 DEF EditorInv, EditorTypeOK, Editor
  <1>3. reqs \in SUBSET Request /\ IsFiniteSet(reqs) /\ \A r \in reqs : SameRequest(r, r)
    BY DEF EditorInv, EditorTypeOK, SameRequest
  <1> QED
    BY <1>1, <1>2, <1>3, AskingKeepsInv

LEMMA ExitKeepsInv ==
  ASSUME EditorInv, ExitEdit
  PROVE  EditorInv'
  <1>1. ed' = Absent /\ reqs' = StillHeard(FALSE) /\ UNCHANGED <<obj, rev>>
    BY DEF ExitEdit
  <1>2. /\ reqs' \in SUBSET Request /\ IsFiniteSet(reqs')
        /\ \A r \in reqs' : /\ \E q \in reqs : SameRequest(r, q)
                            /\ r.what = "put" /\ ~r.mounted
    BY <1>1, HeardWereThere
  <1>3. EditorTypeOK' /\ EtagsGivenOut' /\ NobodyIsTold'
    BY <1>1, <1>2, SameStore DEF EditorInv, EditorTypeOK, NobodyIsTold
  <1>4. EditorKnows'
    BY <1>1 DEF EditorKnows, Ready
  <1>5. RequestsKnow'
    <2> SUFFICES ASSUME NEW r \in reqs' PROVE PutKnows(r)'
      BY DEF RequestsKnow
    <2>1. PICK q \in reqs : SameRequest(r, q)
      BY <1>2
    <2>2. PutKnows(q)
      BY <1>2, <2>1 DEF SameRequest, EditorInv, RequestsKnow
    <2> QED
      BY <1>1, <2>1, <2>2, SameStore DEF PutKnows, SameRequest
  <1> QED
    BY <1>2, <1>3, <1>4, <1>5 DEF EditorInv

\* When the store stays and no request is added, what the requests know
\* stays too.
LEMMA FewerRequests ==
  ASSUME EditorInv, UNCHANGED <<obj, rev>>, reqs' \subseteq reqs
  PROVE  EtagsGivenOut' /\ RequestsKnow' /\ IsFiniteSet(reqs')
  <1>1. IsFiniteSet(reqs')
    BY FS_Subset DEF EditorInv
  <1> QED
    BY <1>1, SameStore DEF EditorInv, RequestsKnow, PutKnows

LEMMA LoadAnswersKeepsInv ==
  ASSUME EditorInv, NEW r \in reqs, LoadAnswers(r)
  PROVE  EditorInv'
  <1>1. ed # Absent /\ ed \in Editor /\ r \in Request /\ r.key \in EditedKey
    BY DEF EditorInv, NobodyIsTold, EditorTypeOK, LoadAnswers, Request
  <1>2. reqs' = reqs \ {r} /\ UNCHANGED <<obj, rev>>
    BY DEF LoadAnswers
  <1>3. EtagsGivenOut' /\ RequestsKnow' /\ IsFiniteSet(reqs')
    BY <1>2, FewerRequests
  <1> DEFINE o == obj[r.key]
             text == [o.text EXCEPT !.whole = o.text.whole /\ r.key \notin Long]
  <1>4. o.etag \in Etag /\ o.text \in Text
    BY <1>1 DEF EditorInv, EditorTypeOK
  <1>5. text \in Text /\ SameText(o.text, text)
    <2>1. (o.text.whole /\ r.key \notin Long) \in BOOLEAN
      OBVIOUS
    <2> QED
      BY <1>4, <2>1 DEF Text, SameText
  <1>6. StandsFor(o.etag, text)
    <2>1. \A i \in EditedKey : obj[i].etag[1] = i /\ obj[i].etag[2] <= rev
      BY DEF EditorInv, EtagsGivenOut
    <2>2. \A i \in EditedKey : obj[i].etag = o.etag => i = r.key
      BY <1>1, <2>1
    <2> QED
      BY <1>1, <1>5, <2>1, <2>2 DEF StandsFor
  <1> HIDE DEF o, text
  <1>7. CASE ed' = [ed EXCEPT !.loading = FALSE, !.text = text, !.kept = text, !.etag = o.etag]
    <2>1. /\ ed' \in Editor /\ ed'.text = text /\ ed'.kept = text /\ ed'.etag = o.etag
      BY <1>1, <1>4, <1>5, <1>7 DEF Editor
    <2>2. EditorKnows'
      BY <1>2, <1>4, <1>5, <1>6, <2>1, SameStore, AbsentAssumption DEF EditorKnows
    <2>3. EditorTypeOK' /\ NobodyIsTold'
      BY <1>2, <2>1, AbsentAssumption DEF EditorInv, EditorTypeOK, NobodyIsTold
    <2> QED
      BY <1>3, <2>2, <2>3 DEF EditorInv
  <1>8. CASE ed' = [ed EXCEPT !.loading = FALSE, !.failed = TRUE]
    <2>1. /\ ed' \in Editor /\ ed'.failed /\ ed'.kept = ed.kept /\ ed'.etag = ed.etag
      BY <1>1, <1>8 DEF Editor
    <2>2. EditorKnows'
      BY <1>1, <1>2, <2>1, SameStore DEF EditorInv, EditorKnows, Ready
    <2>3. EditorTypeOK' /\ NobodyIsTold'
      BY <1>2, <2>1, AbsentAssumption DEF EditorInv, EditorTypeOK, NobodyIsTold
    <2> QED
      BY <1>3, <2>2, <2>3 DEF EditorInv
  <1> QED
    BY <1>7, <1>8 DEF LoadAnswers, o, text

LEMMA TypeKeepsInv ==
  ASSUME EditorInv, Type
  PROVE  EditorInv'
  <1>1. /\ ed # Absent /\ ed \in Editor /\ ed.text \in Text /\ ed.etag # Absent
    BY DEF EditorInv, EditorTypeOK, EditorKnows, Type, Ready, Editor
  <1>2. /\ rev \in 0 .. MaxRev /\ rev' = rev + 1 /\ rev' \in 0 .. MaxRev /\ UNCHANGED <<obj, reqs>>
    BY EditorAssumption DEF Type, EditorInv, EditorTypeOK
  <1> DEFINE text == [ed.text EXCEPT !.rev = rev + 1]
  <1>3. text \in Text
    BY <1>1, <1>2 DEF Text
  <1> HIDE DEF text
  <1>4. ed' = [ed EXCEPT !.text = text, !.dirty = TRUE]
    BY <1>1 DEF Type, text, Editor
  <1>5. /\ ed' \in Editor /\ ed'.text = text /\ ed'.kept = ed.kept /\ ed'.etag = ed.etag
    BY <1>1, <1>3, <1>4 DEF Editor
  <1>6. /\ EtagsGivenOut' /\ \A e \in Etag : \A t : StandsFor(e, t) => StandsFor(e, t)'
    BY <1>2 DEF EditorInv, EditorTypeOK, EtagsGivenOut, StandsFor, SameText, Etag
  <1>7. EditorKnows'
    BY <1>1, <1>3, <1>5, <1>6, AbsentAssumption DEF EditorInv, EditorKnows, Editor
  <1>8. RequestsKnow'
    <2> SUFFICES ASSUME NEW r \in reqs, r.what = "put" PROVE PutKnows(r)'
      BY <1>2 DEF RequestsKnow
    <2>1. PutKnows(r) /\ r.match \in Etag \cup {Absent} /\ r.etag \in Etag \cup {Absent}
      BY DEF EditorInv, RequestsKnow, EditorTypeOK, Request
    <2> QED
      BY <1>6, <2>1 DEF PutKnows
  <1>9. EditorTypeOK' /\ NobodyIsTold'
    BY <1>2, <1>5, AbsentAssumption DEF EditorInv, EditorTypeOK, NobodyIsTold
  <1> QED
    BY <1>2, <1>6, <1>7, <1>8, <1>9 DEF EditorInv

LEMMA DoSaveKeepsInv ==
  ASSUME EditorInv, Ready, NEW text \in Text, NEW match \in Etag \cup {Absent},
         match = Absent => ed.conflict # Absent, match # Absent => match = ed.etag,
         DoSave(text, match)
  PROVE  EditorInv'
  <1>1. /\ ed # Absent /\ ed \in Editor /\ reqs \in SUBSET Request /\ IsFiniteSet(reqs)
    BY DEF EditorInv, EditorTypeOK, Ready
  <1>2. /\ Cardinality(reqs) < MaxReqs /\ ed' = [ed EXCEPT !.saving = TRUE]
        /\ reqs' = Send(reqs, PutOf(text, match)) /\ UNCHANGED <<obj, rev>>
    BY DEF DoSave
  <1>3. MaxReqs # 0
    BY <1>1, <1>2, FS_CardinalityType, EditorAssumption
  <1> DEFINE p == PutOf(text, match)
  <1>4. /\ p \in Request /\ p.text = text /\ p.match = match /\ p.saw = ed.kept
        /\ p.state = "sent" /\ p.warned = (ed.conflict # Absent)
    BY <1>3, PutTyped
  <1> HIDE DEF p
  <1>5. PICK n \in 1 .. MaxReqs : reqs' = reqs \cup {[p EXCEPT !.n = n]}
    BY <1>1, <1>2, <1>4, SendAdds DEF p
  <1>6. IsFiniteSet(reqs')
    BY <1>1, <1>2, <1>4, SendAdds DEF p
  <1> DEFINE new == [p EXCEPT !.n = n]
  <1>7. /\ new \in Request /\ new.text = text /\ new.match = match /\ new.saw = ed.kept
        /\ new.state = "sent" /\ (match = Absent => new.warned)
    BY <1>4 DEF Request
  <1> HIDE DEF new
  <1>8. reqs' = reqs \cup {new}
    BY <1>5 DEF new
  <1>9. /\ ed' \in Editor /\ ed'.text = ed.text /\ ed'.etag = ed.etag /\ ed'.kept = ed.kept
        /\ ed'.loading = ed.loading /\ ed'.failed = ed.failed
    BY <1>1, <1>2 DEF Editor
  <1>10. EditorTypeOK' /\ EtagsGivenOut' /\ NobodyIsTold'
    BY <1>2, <1>7, <1>8, <1>9, SameStore, AbsentAssumption
       DEF EditorInv, EditorTypeOK, NobodyIsTold
  <1>11. EditorKnows'
    BY <1>1, <1>2, <1>9, SameStore DEF EditorInv, EditorKnows, Ready
  <1>12. RequestsKnow'
    <2> SUFFICES ASSUME NEW r \in reqs', r.what = "put" PROVE PutKnows(r)'
      BY DEF RequestsKnow
    <2>1. CASE r = new
      <3>1. match # Absent => StandsFor(match, ed.kept)
        BY <1>1 DEF EditorInv, EditorKnows
      <3>2. match # Absent => StandsFor(match, ed.kept)'
        BY <1>1, <1>2, <1>9, <3>1 DEF StandsFor, SameText
      <3> QED
        BY <1>2, <1>7, <1>9, <2>1, <3>1, SameStore, AbsentAssumption DEF PutKnows
    <2>2. CASE r \in reqs
      BY <1>2, <2>2, SameStore DEF EditorInv, RequestsKnow, PutKnows
    <2> QED
      BY <1>8, <2>1, <2>2
  <1> QED
    BY <1>6, <1>10, <1>11, <1>12 DEF EditorInv

LEMMA SavesKeepInv ==
  ASSUME EditorInv, Save \/ SaveAnyway
  PROVE  EditorInv'
  <1>1. Ready /\ ed # Absent /\ ed \in Editor /\ ed.text # Absent /\ ed.etag # Absent
    BY DEF EditorInv, EditorTypeOK, EditorKnows, Save, SaveAnyway, Ready
  <1>2. CASE Save
    <2>1. ed.text \in Text /\ ed.etag \in Etag \cup {Absent} /\ DoSave(ed.text, ed.etag)
      BY <1>1, <1>2 DEF Save, Editor
    <2> QED
      BY <1>1, <2>1, DoSaveKeepsInv
  <1>3. CASE SaveAnyway
    <2>1. ed.conflict # Absent /\ ed.conflict \in Text /\ DoSave(ed.conflict, Absent)
      BY <1>1, <1>3 DEF SaveAnyway, Editor
    <2> QED
      BY <1>1, <2>1, DoSaveKeepsInv
  <1> QED
    BY <1>2, <1>3

LEMMA OthersWriteKeepsInv ==
  ASSUME EditorInv, NEW k \in EditedKey, OthersWrite(k)
  PROVE  EditorInv'
  <1> DEFINE t == [of |-> k, rev |-> rev + 1, whole |-> TRUE]
             e0 == <<k, rev + 1>>
  <1>1. /\ rev < MaxRev /\ rev' = rev + 1 /\ UNCHANGED <<ed, reqs>>
        /\ obj' = [obj EXCEPT ![k] = [etag |-> e0, text |-> t]]
    BY DEF OthersWrite
  <1>2. t \in Text
    BY <1>1, EditorAssumption DEF EditorInv, EditorTypeOK, Text
  <1> HIDE DEF t
  <1>3. /\ obj' \in [EditedKey -> [etag : Etag, text : Text]] /\ rev' \in 0 .. MaxRev
        /\ EtagsGivenOut' /\ \A e \in Etag : \A u : StandsFor(e, u) => StandsFor(e, u)'
    BY <1>1, <1>2, NewWrite
  <1>4. EditorTypeOK' /\ NobodyIsTold' /\ IsFiniteSet(reqs')
    BY <1>1, <1>3 DEF EditorInv, EditorTypeOK, NobodyIsTold
  <1>5. EditorKnows'
    <2>1. ed # Absent => ed \in Editor
      BY DEF EditorInv, EditorTypeOK
    <2>2. ed # Absent /\ ed.etag # Absent => ed.etag \in Etag
      BY <2>1 DEF Editor
    <2>3. Ready' = Ready
      BY <1>1 DEF Ready
    <2> QED
      BY <1>1, <1>3, <2>2, <2>3 DEF EditorInv, EditorKnows
  <1>6. RequestsKnow'
    <2> SUFFICES ASSUME NEW r \in reqs, r.what = "put" PROVE PutKnows(r)'
      BY <1>1 DEF RequestsKnow
    <2>1. PutKnows(r) /\ r.match \in Etag \cup {Absent} /\ r.etag \in Etag \cup {Absent}
      BY DEF EditorInv, RequestsKnow, EditorTypeOK, Request
    <2> QED
      BY <1>3, <2>1 DEF PutKnows
  <1> QED
    BY <1>3, <1>4, <1>5, <1>6 DEF EditorInv

\* A save reaches the store.  If it takes effect there, the text it
\* replaces is the one its editor knew, or the user had been warned.
LEMMA EffectIsKnown ==
  ASSUME EditorInv, NEW r \in reqs, r.what = "put", r.match \in {Absent, obj[r.key].etag}
  PROVE  (r.match = Absent /\ r.warned) \/ SameText(obj[r.key].text, r.saw)
  <1>1. PutKnows(r) /\ r.key \in EditedKey
    BY DEF EditorInv, RequestsKnow, EditorTypeOK, Request
  <1> QED
    BY <1>1 DEF PutKnows, StandsFor

LEMMA PutLandsKeepsInv ==
  ASSUME EditorInv, NEW r \in reqs, PutLands(r)
  PROVE  EditorInv'
  <1>1. /\ r.what = "put" /\ r \in Request /\ r.key \in EditedKey /\ r.text \in Text
        /\ PutKnows(r) /\ ed' = ed
    BY DEF EditorInv, RequestsKnow, PutKnows, EditorTypeOK, PutLands, Request
  <1>0. PICK e0 : e0 = <<r.key, rev + 1>>
    OBVIOUS
  <1> DEFINE After(effect, answers) ==
               [r EXCEPT !.state = IF ~answers THEN "failed"
                                   ELSE IF effect THEN "stored" ELSE "refused",
                         !.etag  = IF effect THEN e0 ELSE Absent]
  <1>2. PICK effect \in BOOLEAN, answers \in BOOLEAN :
          /\ effect => rev < MaxRev
          /\ obj' = IF effect THEN [obj EXCEPT ![r.key] = [etag |-> e0, text |-> r.text]] ELSE obj
          /\ rev' = IF effect THEN rev + 1 ELSE rev
          /\ reqs' = (reqs \ {r}) \cup {After(effect, answers)}
    BY <1>0 DEF PutLands
  <1>3. /\ obj' \in [EditedKey -> [etag : Etag, text : Text]] /\ rev' \in 0 .. MaxRev
        /\ EtagsGivenOut' /\ \A e \in Etag : \A u : StandsFor(e, u) => StandsFor(e, u)'
        /\ effect => e0 \in Etag /\ StandsFor(e0, r.text)'
    <2>1. CASE effect
      <3>1. rev < MaxRev /\ rev' = rev + 1
        BY <1>2, <2>1
      <3>2. obj' = [obj EXCEPT ![r.key] = [etag |-> e0, text |-> r.text]]
        BY <1>2, <2>1
      <3> QED
        BY <1>0, <1>1, <2>1, <3>1, <3>2, NewWrite
    <2>2. CASE ~effect
      BY <1>2, <2>2, SameStore DEF EditorInv, EditorTypeOK
    <2> QED
      BY <2>1, <2>2
  <1>4. PICK new \in {After(effect, answers)} : reqs' = (reqs \ {r}) \cup {new}
    BY <1>2
  <1>5. /\ new \in Request /\ new.what = "put" /\ new.mounted = r.mounted /\ new.text = r.text
        /\ new.match = r.match /\ new.saw = r.saw /\ new.warned = r.warned
        /\ new.state = "stored" => effect /\ new.etag = e0
    <2>1. e0 \in Etag \/ ~effect
      BY <1>3
    <2> QED
      BY <1>1, <1>4, <2>1 DEF Request
  <1>6. IsFiniteSet(reqs')
    <2>1. IsFiniteSet(reqs \ {r})
      BY FS_Subset DEF EditorInv
    <2> QED
      BY <1>4, <2>1, FS_AddElement
  <1>7. EditorTypeOK' /\ NobodyIsTold'
    BY <1>1, <1>3, <1>4, <1>5 DEF EditorInv, EditorTypeOK, NobodyIsTold
  <1>8. EditorKnows'
    <2>1. ed # Absent /\ ed.etag # Absent => ed.etag \in Etag
      BY DEF EditorInv, EditorTypeOK, Editor
    <2>2. Ready' = Ready
      BY <1>1 DEF Ready
    <2> QED
      BY <1>1, <1>3, <2>1, <2>2 DEF EditorInv, EditorKnows
  <1>9. RequestsKnow'
    <2> SUFFICES ASSUME NEW q \in reqs', q.what = "put" PROVE PutKnows(q)'
      BY DEF RequestsKnow
    <2>1. CASE q = new
      <3>1. r.match # Absent => r.match \in Etag
        BY <1>1 DEF Request
      <3>2. q.match # Absent => StandsFor(q.match, q.saw)'
        BY <1>1, <1>3, <1>5, <2>1, <3>1 DEF PutKnows
      <3>3. q.state = "stored" => q.etag # Absent /\ StandsFor(q.etag, q.text)'
        BY <1>3, <1>5, <2>1, AbsentAssumption
      <3> QED
        BY <1>1, <1>5, <2>1, <3>2, <3>3 DEF PutKnows
    <2>2. CASE q \in reqs
      <3>1. PutKnows(q) /\ q.match \in Etag \cup {Absent} /\ q.etag \in Etag \cup {Absent}
        BY <2>2 DEF EditorInv, RequestsKnow, EditorTypeOK, Request
      <3> QED
        BY <1>3, <3>1 DEF PutKnows
    <2> QED
      BY <1>4, <2>1, <2>2
  <1> QED
    BY <1>3, <1>6, <1>7, <1>8, <1>9 DEF EditorInv

LEMMA PutAnswersKeepsInv ==
  ASSUME EditorInv, NEW r \in reqs, PutAnswers(r)
  PROVE  EditorInv'
  <1>1. /\ r.what = "put" /\ r \in Request /\ r.text \in Text /\ PutKnows(r)
        /\ r.state \in {"stored", "refused", "failed"}
    BY DEF EditorInv, RequestsKnow, PutKnows, EditorTypeOK, PutAnswers, Request
  <1>2. reqs' = reqs \ {r} /\ UNCHANGED <<obj, rev>>
    BY DEF PutAnswers
  <1>3. EtagsGivenOut' /\ RequestsKnow' /\ IsFiniteSet(reqs')
    BY <1>2, FewerRequests
  <1>4. CASE ~r.mounted
    <2>1. ed' = ed
      BY <1>4 DEF PutAnswers
    <2>2. EditorTypeOK' /\ NobodyIsTold'
      BY <1>2, <2>1 DEF EditorInv, EditorTypeOK, NobodyIsTold
    <2>3. EditorKnows'
      BY <1>2, <2>1, SameStore DEF EditorInv, EditorKnows, Ready
    <2> QED
      BY <1>3, <2>2, <2>3 DEF EditorInv
  <1>5. CASE r.mounted
    <2>1. ed # Absent /\ ed \in Editor
      BY <1>5 DEF EditorInv, EditorTypeOK, NobodyIsTold
    <2>2. /\ ed' \in Editor
          /\ ed'.text = ed.text /\ ed'.loading = ed.loading /\ ed'.failed = ed.failed
          /\ \/ r.state = "stored" /\ ed'.etag = r.etag /\ ed'.kept = r.text
             \/ ed'.etag = ed.etag /\ ed'.kept = ed.kept
      <3>1. CASE r.state = "stored"
        <4>1. ed' = [ed EXCEPT !.saving = FALSE, !.dirty = FALSE, !.conflict = Absent,
                               !.etag = r.etag, !.kept = r.text]
          BY <1>5, <3>1 DEF PutAnswers
        <4>2. r.etag \in Etag \cup {Absent}
          BY <1>1 DEF Request
        <4> QED
          BY <1>1, <2>1, <3>1, <4>1, <4>2 DEF Editor
      <3>2. CASE r.state = "refused"
        <4>1. ed' = [ed EXCEPT !.saving = FALSE, !.conflict = r.text]
          BY <1>5, <3>2 DEF PutAnswers
        <4> QED
          BY <1>1, <2>1, <4>1 DEF Editor
      <3>3. CASE r.state = "failed"
        <4>1. ed' = [ed EXCEPT !.saving = FALSE]
          BY <1>5, <3>3 DEF PutAnswers
        <4> QED
          BY <2>1, <4>1 DEF Editor
      <3> QED
        BY <1>1, <3>1, <3>2, <3>3
    <2>3. EditorTypeOK' /\ NobodyIsTold'
      BY <1>2, <2>2, AbsentAssumption DEF EditorInv, EditorTypeOK, NobodyIsTold
    <2>4. r.state = "stored" => r.etag # Absent /\ StandsFor(r.etag, r.text)'
      BY <1>1, <1>2, SameStore DEF PutKnows
    <2>5. ed.etag # Absent => StandsFor(ed.etag, ed.kept)
      BY <2>1 DEF EditorInv, EditorKnows
    <2>6. ed'.etag # Absent => StandsFor(ed.etag, ed.kept)'
      <3>1. CASE r.state = "stored" /\ ed'.etag = r.etag /\ ed'.kept = r.text
        BY <1>2, <2>4, <3>1 DEF StandsFor, SameText
      <3>2. CASE ed'.etag = ed.etag /\ ed'.kept = ed.kept
        BY <1>2, <2>5, <3>2 DEF StandsFor, SameText
      <3> QED
        BY <2>2, <3>1, <3>2
    <2>7. Ready' => ed'.text # Absent /\ ed'.etag # Absent
      BY <2>1, <2>2, <2>4 DEF EditorInv, EditorKnows, Ready
    <2> QED
      BY <1>3, <2>3, <2>6, <2>7 DEF EditorInv, EditorKnows
  <1> QED
    BY <1>1, <1>4, <1>5 DEF Request

LEMMA InvStep == EditorInv /\ [EditorNext]_editorVars => EditorInv'
  <1> SUFFICES ASSUME EditorInv, [EditorNext]_editorVars PROVE EditorInv'
    OBVIOUS
  <1>1. ASSUME NEW k \in EditedKey, Open(k) \/ OthersWrite(k) PROVE EditorInv'
    BY <1>1, OpenKeepsInv, OthersWriteKeepsInv
  <1>2. CASE ExitEdit
    BY <1>2, ExitKeepsInv
  <1>3. CASE Type
    BY <1>3, TypeKeepsInv
  <1>4. CASE Save \/ SaveAnyway
    BY <1>4, SavesKeepInv
  <1>5. CASE Refresh
    BY <1>5, RefreshKeepsInv
  <1>6. ASSUME NEW r \in reqs, LoadAnswers(r) \/ PutLands(r) \/ PutAnswers(r) PROVE EditorInv'
    BY <1>6, LoadAnswersKeepsInv, PutLandsKeepsInv, PutAnswersKeepsInv
  <1>7. CASE UNCHANGED editorVars
    BY <1>7 DEF editorVars, EditorInv, EditorTypeOK, EtagsGivenOut, EditorKnows, Ready,
                RequestsKnow, PutKnows, StandsFor, NobodyIsTold
  <1> QED
    BY <1>1, <1>2, <1>3, <1>4, <1>5, <1>6, <1>7 DEF EditorNext

-----------------------------------------------------------------------------
(***************************************************************************)
(* The theorems.                                                           *)
(***************************************************************************)

\* At every moment an ETag stands for one text, and what the editor and the
\* saves under way remember of a text goes with the ETag they hold.
THEOREM EditorInvariant == EditorSpec => []EditorInv
  BY InvInit, InvStep, PTL DEF EditorSpec

\* Objects, the editor and what is under way are always of their types:
\* whatever answers when, text and ETag are there once the editor is ready,
\* and there is a number for every request.
THEOREM EditorTypeCorrect == EditorSpec => []EditorTypeOK
  <1>1. EditorInv => EditorTypeOK
    BY DEF EditorInv
  <1> QED
    BY <1>1, EditorInvariant, PTL

\* A save that takes effect replaces the text its editor had loaded or
\* stored, unless its user had been shown a conflict, for any number of
\* objects, requests and revisions, and whoever else writes.
THEOREM NothingIsOverwrittenBlindly == EditorSpec => NoBlindOverwrite
  <1>1. ASSUME EditorInv, NEW r \in reqs, PutLands(r), obj' # obj
        PROVE  (r.match = Absent /\ r.warned) \/ SameText(obj[r.key].text, r.saw)
    <2>1. r.what = "put" /\ r.match \in {Absent, obj[r.key].etag}
      BY <1>1 DEF PutLands
    <2> QED
      BY <1>1, <2>1, EffectIsKnown
  <1>2. EditorInv => \A r \in reqs :
                       (obj' # obj /\ PutLands(r)) => \/ r.match = Absent /\ r.warned
                                                      \/ SameText(obj[r.key].text, r.saw)
    BY <1>1
  <1> QED
    BY <1>2, EditorInvariant, PTL DEF NoBlindOverwrite
=============================================================================
