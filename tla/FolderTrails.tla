---------------------------- MODULE FolderTrails ----------------------------
(***************************************************************************)
(* The two views that show several folders at once: the tree               *)
(* (TreeView.tsx), which keeps the children of the folders it expanded,    *)
(* and the columns (ColumnView.tsx), which keep a path of what is selected *)
(* in each.  Both read listings that are loaded behind them and change     *)
(* under them; the expanded folders and the path belong to the pane and    *)
(* stay when its location changes.                                         *)
(***************************************************************************)
EXTENDS Listings

CONSTANTS
  MaxColumns,     \* bound: columns side by side
  MaxTrailEvents  \* bound: events of the user and of the bucket

ASSUME TrailAssumption == MaxColumns \in Nat \ {0} /\ MaxTrailEvents \in Nat

\* No folder is within itself, however far one goes up.
ASSUME FoldersNest ==
  \E depth \in [Place -> 0 .. Cardinality(Folder)] :
    depth[Root] = 0 /\ \A f \in Folder : depth[f] = depth[Within[f]] + 1

VARIABLES
  trailMode,    \* the view that is mounted
  there,        \* the entries that exist
  at,           \* the location of the pane
  listings,     \* the query cache: [Place -> what it answered last]
  unloaded,     \* the listings that have never been loaded
  outdated,     \* those to be loaded again, or for the first time
  expanded,     \* treeExpanded of the pane
  childMap,     \* the children the tree keeps
  columnPath,   \* columnPath of the pane
  cols,         \* activeColumn, cursorByColumn and entriesByColumn
  early,        \* history: the entries of the path, by place in it, that were
                \* entered while their column was loading
  trailEvents

trailVars == <<trailMode, there, at, listings, unloaded, outdated, expanded, childMap,
               columnPath, cols, early, trailEvents>>

ColumnIndex == 0 .. MaxColumns - 1

FreshColumns(active) ==
  [active |-> active, cursor |-> [c \in ColumnIndex |-> 1], entries |-> [c \in ColumnIndex |-> <<>>]]

TrailTypeOK ==
  /\ trailMode \in {"Tree", "Column"}
  /\ there \subseteq Entry /\ at \in Place
  /\ listings \in [Place -> SUBSET Entry] /\ unloaded \subseteq outdated /\ outdated \subseteq Place
  /\ expanded \subseteq Folder /\ childMap \in [Place -> SUBSET Entry]
  /\ \A i \in DOMAIN columnPath : columnPath[i] \in Entry
  /\ cols.active \in ColumnIndex
  /\ \A c \in ColumnIndex : ToSet(cols.entries[c]) \subseteq Entry
  /\ early \subseteq 1 .. MaxColumns
  /\ trailEvents \in 0 .. MaxTrailEvents

TrailInit ==
  /\ trailMode \in {"Tree", "Column"}
  /\ there = Entry /\ at = Root
  /\ listings = [p \in Place |-> {}] /\ outdated = Place /\ unloaded = Place
  /\ expanded = {} /\ childMap = [p \in Place |-> {}]
  /\ columnPath = <<>> /\ cols = FreshColumns(0) /\ early = {}
  /\ trailEvents = 0

Counted == trailEvents < MaxTrailEvents /\ trailEvents' = trailEvents + 1

-----------------------------------------------------------------------------
(* The tree.                                                               *)

\* The root of the tree is what its query says; the rest is what was kept.
MapWithRoot(p) == IF p = at THEN listings[p] ELSE childMap[p]

\* The rows: what is in the root, and in every expanded folder with a row.
buildNodes ==
  LET row[e \in Entry] ==
        /\ e \in MapWithRoot(Within[e])
        /\ Within[e] # at => (Within[e] \in expanded /\ Within[e] # Root /\ row[Within[e]])
  IN {e \in Entry : row[e]}

TreeView == IF trailMode = "Tree" THEN buildNodes ELSE {}

\* Mutant: the children are kept as they were when they were first loaded.
ChildLoaderOnce(map, p, entries) ==
  IF entries = {} \/ map[p] # {} THEN map ELSE [map EXCEPT ![p] = entries]

\* A loader reports entries only when there are some.
ChildLoader(map, p, entries) == IF entries = {} THEN map ELSE [map EXCEPT ![p] = entries]

\* A chevron, or an arrow key: a loader is mounted, which reports what is
\* cached at once.
TreeRow(f) ==
  /\ f \in TreeView \cap Folder
  /\ Counted
  /\ IF f \in expanded
     THEN expanded' = expanded \ {f} /\ UNCHANGED childMap
     ELSE expanded' = expanded \cup {f} /\ childMap' = ChildLoader(childMap, f, listings[f])
  /\ UNCHANGED <<trailMode, there, at, listings, unloaded, outdated, columnPath, cols, early>>

-----------------------------------------------------------------------------
(* The columns.                                                            *)

\* The first entry of the path that is an object ends it.
FoldersOfPath(path) ==
  LET until == {n \in 0 .. Len(path) : \A i \in 1 .. n : path[i] \in Folder}
  IN SubSeq(path, 1, CHOOSE n \in until : \A m \in until : m <= n)

Columns(path) == <<at>> \o FoldersOfPath(path)

\* The prefix of a column; column 0 is the location.
PrefixOf(path, c) == Columns(path)[c + 1]

\* Each mounted column reports its entries when it has some loaded; what
\* another folder reported for the same column stays until then.
SingleColumn(entries, path, cache, missing) ==
  [c \in ColumnIndex |->
     IF c < Len(Columns(path)) /\ PrefixOf(path, c) \notin missing
     THEN Listed(cache[PrefixOf(path, c)]) ELSE entries[c]]

\* What is mounted has reported, and the active column exists.
ColumnView(path, active, cursor) ==
  /\ Len(Columns(path)) <= MaxColumns
  /\ columnPath' = path
  /\ cols' = [active  |-> IF active < Len(Columns(path)) THEN active ELSE Len(Columns(path)) - 1,
              cursor  |-> cursor,
              entries |-> SingleColumn(cols.entries, path, listings, unloaded)]

Loading(c) == PrefixOf(columnPath, c) \in unloaded

\* The path is cut at a column and goes on with an entry of it.
Entered(c) == early' = (early \cap 1 .. c) \cup (IF Loading(c) THEN {c + 1} ELSE {})

\* Click or right click on an entry of a column that shows it.
selectEntry(c, i) ==
  /\ trailMode = "Column" /\ Counted
  /\ c < Len(Columns(columnPath)) /\ ~Loading(c)
  /\ i \in DOMAIN cols.entries[c]
  /\ ColumnView(Append(SubSeq(columnPath, 1, c), cols.entries[c][i]), c,
                [cols.cursor EXCEPT ![c] = i])
  /\ Entered(c)
  /\ UNCHANGED <<trailMode, there, at, listings, unloaded, outdated, expanded, childMap>>

\* Up, Down, Home, End: the cursor of the active column.
ColumnCursor(i) ==
  LET n == Len(cols.entries[cols.active]) IN
  /\ trailMode = "Column" /\ Counted /\ n > 0
  /\ i \in {1, n, cols.cursor[cols.active] + 1, cols.cursor[cols.active] - 1} \cap 1 .. n
  /\ cols' = [cols EXCEPT !.cursor[cols.active] = i]
  /\ UNCHANGED <<trailMode, there, at, listings, unloaded, outdated, expanded, childMap, columnPath,
                 early>>

\* Enter, Space, Right: into the folder under the cursor; an object is
\* opened, which ends the path in its column.  While a column is loading, the
\* keys find what another folder reported for it.
ColumnEnter ==
  LET c == cols.active
      entries == cols.entries[c]
  IN /\ trailMode = "Column" /\ Counted
     /\ cols.cursor[c] \in DOMAIN entries
     /\ LET e == entries[cols.cursor[c]] IN
          IF e \in Folder
          THEN ColumnView(Append(SubSeq(columnPath, 1, c), e), c + 1, cols.cursor)
          ELSE ColumnView(SubSeq(columnPath, 1, c), c, cols.cursor)
     /\ Entered(c)
     /\ UNCHANGED <<trailMode, there, at, listings, unloaded, outdated, expanded, childMap>>

\* Left, Backspace.
ColumnLeft ==
  /\ trailMode = "Column" /\ Counted /\ cols.active > 0
  /\ cols' = [cols EXCEPT !.active = @ - 1]
  /\ UNCHANGED <<trailMode, there, at, listings, unloaded, outdated, expanded, childMap, columnPath,
                 early>>

-----------------------------------------------------------------------------
(* Around the views.                                                       *)

\* The listings somebody observes.
Observed ==
  IF trailMode = "Tree" THEN {at} \cup expanded ELSE ToSet(Columns(columnPath))

\* A listing that is missing or outdated, and observed, is loaded.
useObjects(p) ==
  /\ p \in outdated \cap Observed
  /\ outdated' = outdated \ {p} /\ unloaded' = unloaded \ {p}
  /\ listings' = [listings EXCEPT ![p] = Contents(p) \cap there]
  /\ childMap' = IF trailMode = "Tree" /\ p \in expanded
                 THEN ChildLoader(childMap, p, listings'[p]) ELSE childMap
  /\ cols' = IF trailMode = "Column"
             THEN [cols EXCEPT !.entries = SingleColumn(@, columnPath, listings', unloaded')] ELSE cols
  /\ UNCHANGED <<trailMode, there, at, expanded, columnPath, early, trailEvents>>

\* An object is deleted, and the listing it was in invalidated.
ObjectIsDeleted(f) ==
  /\ Counted
  /\ f \in there
  /\ there' = there \ {f} /\ outdated' = outdated \cup {Within[f]}
  /\ UNCHANGED <<trailMode, at, listings, unloaded, expanded, childMap, columnPath, cols, early>>

\* The pane goes elsewhere; neither the expanded folders nor the path go.
TrailLocation(p) ==
  /\ p # at /\ Counted
  /\ at' = p
  /\ cols' = IF trailMode = "Column"
             THEN [cols EXCEPT !.entries = [c \in ColumnIndex |->
                     IF c = 0 /\ p \notin unloaded THEN Listed(listings[p]) ELSE @[c]]] ELSE cols
  /\ UNCHANGED <<trailMode, there, listings, unloaded, outdated, expanded, childMap, columnPath,
                 early>>

\* The other view is mounted: it starts with what the pane has kept.
TrailViewMode ==
  /\ Counted
  /\ trailMode' = IF trailMode = "Tree" THEN "Column" ELSE "Tree"
  /\ childMap' = [p \in Place |-> IF p \in expanded THEN listings[p] ELSE {}]
  /\ cols' = [FreshColumns(Len(Columns(columnPath)) - 1) EXCEPT
                !.entries = SingleColumn(@, columnPath, listings, unloaded)]
  /\ UNCHANGED <<there, at, listings, unloaded, outdated, expanded, columnPath, early>>

TrailNext ==
  \/ \E f \in Folder : TreeRow(f)
  \/ \E c \in ColumnIndex, i \in 1 .. Cardinality(Entry) : selectEntry(c, i)
  \/ \E i \in 1 .. Cardinality(Entry) : ColumnCursor(i)
  \/ ColumnEnter \/ ColumnLeft \/ TrailViewMode
  \/ \E p \in Place : useObjects(p) \/ TrailLocation(p)
  \/ \E f \in File : ObjectIsDeleted(f)

TrailSpec == TrailInit /\ [][TrailNext]_trailVars

-----------------------------------------------------------------------------
(* Properties.                                                             *)

\* What stays in the map of an expanded folder that has become empty: its
\* loader reports entries only when there are some.
LeftOver(e) ==
  /\ Within[e] # at /\ e \in childMap[Within[e]]
  /\ Contents(Within[e]) \cap there = {}

\* What the tree shows when it is in order: what is in the location, and in
\* every expanded folder that is itself shown.
TrueRows ==
  LET row[e \in Entry] ==
        /\ e \in there \cup Folder \/ LeftOver(e)
        /\ Within[e] # at => (Within[e] \in expanded /\ Within[e] # Root /\ row[Within[e]])
  IN {e \in Entry : row[e]}

\* When every listing it observes is loaded, the tree shows what exists,
\* whatever was expanded, collapsed, deleted and navigated in between; what it
\* shows besides was in a folder that has become empty.
TreeIsTrue ==
  (trailMode = "Tree" /\ outdated \cap Observed = {}) => TreeView = TrueRows

\* Each column after the second shows a folder of the column before it, and
\* the path ends with an entry of the last column, but for what a key entered
\* in a column that was loading; a location that changes under the path
\* disturbs the first column only.
ColumnsDescend ==
  \A i \in 2 .. Len(columnPath) : i \in early \/ Within[columnPath[i]] = columnPath[i - 1]

\* Both views keep, beside the listings, what they derived from them (childMap,
\* columnPath).  While folders are expanded, entries deleted, locations and
\* views changed and listings loaded in any order, the copies go astray in two
\* places only: the rows of a folder that has become empty, and what a key
\* entered in a column before it was loaded.
TrailsAreTrue == TreeIsTrue /\ ColumnsDescend
=============================================================================
