--------------------------- MODULE PaneSelection ---------------------------
(***************************************************************************)
(* The panes of the browser (store/panes.ts) and the views that list a     *)
(* folder in them: details, icons, gallery, flat keys, and two details     *)
(* views side by side.  A pane has a location, a view mode, a filter and a *)
(* selection, which the preview and the commands read.  A mounted view has *)
(* a selection, an anchor and a cursor of its own (lib/selection.ts); an   *)
(* effect writes its selection to the pane that is active.                 *)
(*                                                                         *)
(* A view outlives a change of location: it is mounted anew when the view  *)
(* mode changes, or when another screen had its place.  React runs the     *)
(* effects of a step in the order of the tree: those of "second" last.     *)
(***************************************************************************)
EXTENDS Listings

CONSTANTS
  Matching,      \* what the one filter that is ever typed keeps
  BucketList,    \* the location without a bucket
  GridColumns,   \* cards in a row
  MaxEvents      \* bound: events of the user

ASSUME PaneAssumption ==
  /\ Matching \subseteq Entry /\ BucketList \notin Place
  /\ GridColumns \in Nat \ {0} /\ MaxEvents \in Nat

VARIABLES
  panes,      \* the store: the panes that exist
  active,     \* activePaneId
  views,      \* the local state of each view, mounted or not
  away,       \* the Activity or the Notifications Center has the main pane
  events      \* how many events there have been

paneVars == <<panes, active, views, away, events>>

PaneId == {"main", "second"}

ListMode == {"Details", "IconGrid", "Gallery", "FlatKey"}
ViewMode == ListMode \cup {"DualPane"}

\* In two panes there is a view for each, otherwise there is one.
ViewId == PaneId \cup {"solo"}

SortState == {"none", "asc", "desc"}

\* Rows count from 1; the cursor of an empty folder is on its first row too.
Row == {1} \cup 1 .. Cardinality(Entry)

View == [sel : SUBSET Entry, anchor : Row, cursor : Row, sort : SortState]

FreshView == [sel |-> {}, anchor |-> 1, cursor |-> 1, sort |-> "none"]

INITIAL_PANE(place, mode) ==
  [place |-> place, mode |-> mode, sel |-> {}, filtered |-> FALSE]

PaneTypeOK ==
  /\ DOMAIN panes \in {{"main"}, PaneId}
  /\ \A p \in DOMAIN panes :
       panes[p] \in [place : Place \cup {BucketList}, mode : ViewMode,
                     sel : SUBSET Entry, filtered : BOOLEAN]
  /\ active \in DOMAIN panes
  /\ views \in [ViewId -> View]
  /\ away \in BOOLEAN /\ events \in 0 .. MaxEvents

\* The location and the view mode are remembered from the last session.
PaneInit ==
  /\ \E place \in Place \cup {BucketList}, mode \in ViewMode :
       panes = [p \in {"main"} |-> INITIAL_PANE(place, mode)]
  /\ active = "main" /\ away = FALSE /\ events = 0
  /\ views = [v \in ViewId |-> FreshView]

-----------------------------------------------------------------------------
(* What is on the screen.                                                  *)

\* The main pane shows a full-pane destination, the buckets, or a view.
MainPaneContent(ps, act, gone) ==
  IF gone THEN "away"
  ELSE IF ps[act].place = BucketList THEN "buckets" ELSE ps[act].mode

\* The views that are mounted.
ViewModeDispatcher(screen) ==
  CASE screen \in ListMode   -> <<"solo">>
    [] screen = "DualPane"   -> <<"main", "second">>
    [] OTHER                 -> <<>>

Screen == MainPaneContent(panes, active, away)

Mounted == ToSet(ViewModeDispatcher(Screen))

\* The pane a view belongs to.
PaneOf(v) == IF v = "solo" THEN active ELSE v

\* The filter of the active pane, whichever view asks.
useFilteredEntries(among) ==
  IF panes[active].filtered THEN among \cap Matching ELSE among

\* One of the columns sorts backwards.
sortEntries(seq, sort) == IF sort = "desc" THEN Reverse(seq) ELSE seq

nextSort(sort) == CASE sort = "none" -> "asc" [] sort = "asc" -> "desc" [] sort = "desc" -> "none"

DetailsView(v) ==
  sortEntries(Listed(useFilteredEntries(Contents(panes[PaneOf(v)].place))), views[v].sort)

IconGridView == Listed(useFilteredEntries(Contents(panes[active].place)))

GalleryView == Listed(useFilteredEntries(Contents(panes[active].place)))

FlatKeyView == Listed(useFilteredEntries(useFlatObjects(panes[active].place)))

\* The entries a mounted view shows.
Shown(v) ==
  CASE Screen \in {"Details", "DualPane"} -> DetailsView(v)
    [] Screen = "IconGrid" -> IconGridView
    [] Screen = "Gallery"  -> GalleryView
    [] Screen = "FlatKey"  -> FlatKeyView

\* The keys of the context menu, and of the selection summary below.
FileMenuKeys(v) == views[v].sel

SelectionSummary(v) == Cardinality(views[v].sel)

-----------------------------------------------------------------------------
(* A step: the handlers have set ps, act, vs and gone; the view in touched *)
(* has a new selection.                                                    *)

\* DualPaneView splits the active pane when it is mounted alone.
splitPane(ps, act) ==
  [p \in PaneId |-> IF p \in DOMAIN ps THEN ps[p]
                    ELSE [ps[act] EXCEPT !.sel = {}, !.filtered = FALSE]]

\* Mutant: the effect writes to the pane that was active when it was made.
SyncEffectStale(ps, act, vs, mounted, firing) ==
  LET writers == {i \in DOMAIN mounted : mounted[i] \in firing} IN
  IF writers = {} THEN ps ELSE [ps EXCEPT ![active].sel = vs[mounted[Max(writers)]].sel]

\* The effect of each view that is new, touched, or sees another active
\* pane; the last one stays.
SyncEffect(ps, act, vs, mounted, firing) ==
  LET writers == {i \in DOMAIN mounted : mounted[i] \in firing} IN
  IF writers = {} THEN ps ELSE [ps EXCEPT ![act].sel = vs[mounted[Max(writers)]].sel]

Settle(ps, act, vs, gone, touched) ==
  LET screen  == MainPaneContent(ps, act, gone)
      mounted == ViewModeDispatcher(screen)
      remount == screen # Screen
      split   == IF screen = "DualPane" THEN splitPane(ps, act) ELSE ps
      now     == IF remount THEN [v \in ViewId |-> FreshView] ELSE vs
      firing  == IF remount \/ act # active THEN ViewId ELSE touched
  IN  /\ events < MaxEvents /\ events' = events + 1
      /\ panes' = SyncEffect(split, act, now, mounted, firing)
      /\ active' = act /\ views' = now /\ away' = gone

Touch(v, view) == Settle(panes, active, [views EXCEPT ![v] = view], away, {v})
Move(v, view)  == Settle(panes, active, [views EXCEPT ![v] = view], away, {})

-----------------------------------------------------------------------------
(* A view.  The events of a pane come after the focus has activated it.    *)

Indexes(v) == DOMAIN Shown(v)

\* The entries from the anchor to the row; what is out of range is dropped.
RowRange(v, i) ==
  LET lo == IF views[v].anchor < i THEN views[v].anchor ELSE i
      hi == IF views[v].anchor < i THEN i ELSE views[v].anchor
  IN {Shown(v)[j] : j \in (lo .. hi) \cap Indexes(v)}

Toggle(sel, e) == IF e \in sel THEN sel \ {e} ELSE sel \cup {e}

RowClick(v, i, key) ==
  LET e == Shown(v)[i] IN
  Touch(v, CASE key = "shift" -> [views[v] EXCEPT !.sel = RowRange(v, i), !.cursor = i]
             [] key = "meta"  -> [views[v] EXCEPT !.sel = Toggle(@, e), !.cursor = i]
             [] key = "none"  -> [views[v] EXCEPT !.sel = {e}, !.anchor = i, !.cursor = i])

\* A right click keeps a selection it falls into.
RowContextMenu(v, i) ==
  /\ Shown(v)[i] \notin views[v].sel
  /\ Touch(v, [views[v] EXCEPT !.sel = {Shown(v)[i]}, !.anchor = i, !.cursor = i])

SelectAll(v) == Touch(v, [views[v] EXCEPT !.sel = ToSet(Shown(v))])

\* Arrow keys: by one row of a list, by one card or one row of cards.
ArrowSteps ==
  IF Screen \in {"IconGrid", "Gallery"} THEN {-1, 1, -GridColumns, GridColumns} ELSE {-1, 1}

ArrowKey(v, by) ==
  LET to == IF by > 0
            THEN (IF views[v].cursor + by < Len(Shown(v)) THEN views[v].cursor + by ELSE Len(Shown(v)))
            ELSE (IF views[v].cursor + by > 1 THEN views[v].cursor + by ELSE 1)
  IN to # views[v].cursor /\ Move(v, [views[v] EXCEPT !.cursor = to])

\* A column header; only details have them.
ColHeader(v) ==
  /\ Screen \in {"Details", "DualPane"}
  /\ Move(v, [views[v] EXCEPT !.sort = nextSort(@)])

\* setLocation: the pane forgets its selection and its filter.
setLocation(p, place) ==
  [panes EXCEPT ![p].place = place, ![p].sel = {}, ![p].filtered = FALSE]

\* Enter, and the second click on a row: a folder is entered, an object is selected for
\* the preview.  The two panes of the dual view pass no handler.
handleOpen(v, i) ==
  LET e == Shown(v)[i] IN
  /\ Screen \in ListMode /\ i = views[v].cursor
  /\ Settle(IF e \in Folder THEN setLocation(active, e) ELSE [panes EXCEPT ![active].sel = {e}],
            active, views, away, {})

handleNavigateUp ==
  /\ Screen \in ListMode
  /\ Settle(setLocation(active, IF panes[active].place = Root THEN Root
                                ELSE Within[panes[active].place]), active, views, away, {})

-----------------------------------------------------------------------------
(* Around the views.                                                       *)

\* Breadcrumb, sidebar, history, bucket list: the active pane goes there.
Navigate(place) == Settle(setLocation(active, place), active, views, away, {})

\* A bookmark of an object opens its folder and selects it.
OpenBookmark(f) ==
  Settle([setLocation(active, Within[f]) EXCEPT ![active].sel = {f}], active, views, away, {})

setFilter == Settle([panes EXCEPT ![active].filtered = ~@], active, views, away, {})

setViewMode(mode) ==
  /\ panes[active].mode # mode
  /\ Settle([panes EXCEPT ![active].mode = mode], active, views, away, {})

\* A click, the focus or Tab in the dual view.
setActivePane(p) ==
  /\ Screen = "DualPane" /\ p # active
  /\ Settle(panes, p, views, away, {})

ToggleDestination == Settle(panes, active, views, ~away, {})

ViewEvent(v) ==
  \/ \E i \in Indexes(v) : \/ RowContextMenu(v, i) \/ handleOpen(v, i)
                           \/ \E key \in {"none", "shift", "meta"} : RowClick(v, i, key)
  \/ Indexes(v) # {} /\ (\/ SelectAll(v) \/ ColHeader(v) \/ handleNavigateUp
                          \/ \E by \in ArrowSteps : ArrowKey(v, by))

PaneNext ==
  \/ \E v \in Mounted : PaneOf(v) = active /\ ViewEvent(v)
  \/ setFilter
  \/ \E place \in Place \cup {BucketList} : Navigate(place)
  \/ \E f \in File : OpenBookmark(f)
  \/ \E mode \in ViewMode : setViewMode(mode)
  \/ \E p \in DOMAIN panes : setActivePane(p)
  \/ ToggleDestination

PaneSpec == PaneInit /\ [][PaneNext]_paneVars

-----------------------------------------------------------------------------
(* Properties.                                                             *)

\* Only the pane that is active after a step has been given a location, a
\* filter or a selection by it: no effect of a view writes to the pane the
\* user has just left, and a navigation moves one pane.
InactivePaneIsLeftAlone ==
  [][panes' # panes => \A p \in DOMAIN panes \ {active'} : panes'[p] = panes[p]]_paneVars

\* While two panes are shown, activating the other one keeps both on the
\* screen: the view mode of each pane is the dual one, whichever of them
\* left it and came back.
DualViewIsStable ==
  (Cardinality(DOMAIN panes) = 2 /\ panes[active].mode = "DualPane")
    => \A p \in DOMAIN panes : panes[p].mode = "DualPane"

\* "Keys of selected items in the current listing.": what the commands and
\* the preview take from the active pane is in the folder it is at.
SelectionIsInListing ==
  panes[active].place # BucketList =>
    panes[active].sel \subseteq Contents(panes[active].place) \cup useFlatObjects(panes[active].place)
=============================================================================
