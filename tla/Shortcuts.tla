------------------------------ MODULE Shortcuts ------------------------------
(***************************************************************************)
(* The commands of the frontend and the two ways to run one without a      *)
(* mouse: a keystroke (useGlobalShortcuts walks the registry in the order  *)
(* of registration) and the command palette.  The registry is the one the  *)
(* shipped modules build: the files under commands/definitions are         *)
(* imported before the body of App.tsx runs, so their commands come first. *)
(***************************************************************************)
EXTENDS Integers, Sequences, FiniteSets

CONSTANTS
    QueryText,          \* what may be typed into the palette, "" included
    FuzzyScore(_, _)    \* fuzzyScore of a command's title for a query

VARIABLES
    platform,   \* "mac" or "win"
    editing,    \* is the focus in an input, a text area or a select
    palette,    \* the store of the palette
    ran         \* the last keystroke that ran a command, and which one

shortcutVars == <<platform, editing, palette, ran>>

Platform == {"mac", "win"}

\* A binding that differs between the platforms, and one that does not.
PlatformShortcut(key, mac, win) == [mac |-> [key |-> key, mod |-> mac],
                                    win |-> [key |-> key, mod |-> win]]
ShortcutKey(key, mod) == PlatformShortcut(key, mod, mod)
CommandDef(id, shortcut) == [id |-> id, bound |-> TRUE, shortcut |-> shortcut]

\* Commands that are reached from the palette, menus and buttons only.
Unbound(id) == [id |-> id, bound |-> FALSE, shortcut |-> ShortcutKey("", {})]

\* Commands of commands/definitions/file.ts.
ClipboardCommands ==
    << CommandDef("file.copy", PlatformShortcut("c", {"meta"}, {"ctrl"})),
       CommandDef("file.cut", PlatformShortcut("x", {"meta"}, {"ctrl"})),
       CommandDef("file.paste", PlatformShortcut("v", {"meta"}, {"ctrl"})) >>

ObjectCommands ==
    << CommandDef("file.rename", ShortcutKey("F2", {})),
       CommandDef("file.delete", ShortcutKey("Delete", {})) >>

RefreshCommand == << CommandDef("file.refresh", PlatformShortcut("r", {"meta"}, {"ctrl"})) >>

\* commands/definitions/*.ts, in the order App.tsx imports them.
DefinitionCommands ==
    << Unbound("bookmark.add") >> \o ClipboardCommands \o ObjectCommands \o RefreshCommand
      \o << CommandDef("search.local", PlatformShortcut("f", {"meta"}, {"ctrl"})),
            CommandDef("settings.open", PlatformShortcut(",", {"cmd"}, {"ctrl"})) >>

\* Registered when the toolbar's module is loaded.
ToolbarCommands == << CommandDef("view.inspect", ShortcutKey("i", {"cmd"})) >>

\* Registered by the body of App.tsx; the view modes are bound like this one.
GoCommands ==
    << CommandDef("view.refresh", ShortcutKey("r", {"cmd"})),
       Unbound("nav.back"),
       CommandDef("go.back", PlatformShortcut("[", {"cmd"}, {"ctrl"})),
       CommandDef("go.forward", PlatformShortcut("]", {"cmd"}, {"ctrl"})),
       CommandDef("go.up", PlatformShortcut("ArrowUp", {"cmd"}, {"ctrl"})) >>

ViewCommands ==
    << CommandDef("view.toggle-sidebar", PlatformShortcut("b", {"cmd"}, {"ctrl"})),
       CommandDef("view.toggle-preview", PlatformShortcut("/", {"cmd"}, {"ctrl"})),
       CommandDef("view.toggle-transfers",
                  PlatformShortcut("j", {"cmd", "shift"}, {"ctrl", "shift"})),
       CommandDef("view.activity-center",
                  PlatformShortcut("a", {"cmd", "shift"}, {"ctrl", "shift"})),
       CommandDef("view.notifications-center",
                  PlatformShortcut("n", {"cmd", "shift"}, {"ctrl", "shift"})),
       CommandDef("view.mode.details", PlatformShortcut("1", {"cmd"}, {"ctrl"})) >>

AppCommands ==
    GoCommands \o ViewCommands
      \o << CommandDef("file.new-folder",
                       PlatformShortcut("n", {"cmd", "shift"}, {"ctrl", "shift"})),
            CommandDef("file.save", PlatformShortcut("s", {"cmd"}, {"ctrl"})) >>

\* registry.all(): in the order of registration.
Registry == DefinitionCommands \o ToolbarCommands \o AppCommands
Commands == {Registry[i] : i \in DOMAIN Registry}
Bound == {c \in Commands : c.bound}

\* The palette starts with nothing typed; fuzzyScore gives -1 to 3.
ASSUME ShortcutAssumption ==
    /\ "" \in QueryText
    /\ \A c \in Commands, q \in QueryText : FuzzyScore(c.id, q) \in -1 .. 3

-----------------------------------------------------------------------------
(* Keystrokes *)

\* A keystroke is a key and the modifier keys that are held.  "cmd" stands
\* for Meta on a Mac and for Control elsewhere.
HeldFor(p, mods) ==
    (mods \cap {"alt", "shift"})
        \cup (IF "meta" \in mods \/ (p = "mac" /\ "cmd" \in mods) THEN {"Meta"} ELSE {})
        \cup (IF "ctrl" \in mods \/ (p # "mac" /\ "cmd" \in mods) THEN {"Control"} ELSE {})

modifiersMatch(p, stroke, mods) == stroke.held = HeldFor(p, mods)

Keystroke(p, c) == [key |-> c.shortcut[p].key, held |-> HeldFor(p, c.shortcut[p].mod)]

Letter == {"a", "b", "c", "f", "i", "j", "n", "r", "s", "v", "x"}

\* While something is typed, only a modifier with a key that is no letter counts.
shortcutSurvivesEditableFocus(sc) ==
    /\ sc.mod \cap {"cmd", "ctrl", "meta"} # {}
    /\ sc.key \notin Letter

Answers(p, typing, stroke, c) ==
    /\ c.bound
    /\ c.shortcut[p].key = stroke.key
    /\ modifiersMatch(p, stroke, c.shortcut[p].mod)
    /\ typing => shortcutSurvivesEditableFocus(c.shortcut[p])

\* The places in the registry of the commands that answer a keystroke.
Dispatched(p, typing, stroke) ==
    {i \in DOMAIN Registry : Answers(p, typing, stroke, Registry[i])}

\* shortcutKey: the key and the modifiers as they are written.
Alike(p) == {pair \in Bound \X Bound : pair[1].shortcut[p] = pair[2].shortcut[p]}

\* What detectConflicts reports: commands whose bindings are written alike.
detectConflicts(p) ==
    {ids \in {{pair[1].id, pair[2].id} : pair \in Alike(p)} : Cardinality(ids) = 2}

-----------------------------------------------------------------------------
(* The palette *)

Matches(q) == {i \in DOMAIN Registry : FuzzyScore(Registry[i].id, q) >= 0}

\* A higher score goes first, then what was registered earlier.
RanksBefore(i, j, q) ==
    LET si == FuzzyScore(Registry[i].id, q)
        sj == FuzzyScore(Registry[j].id, q)
    IN si > sj \/ (si = sj /\ i < j)

Rank(i, q) == 1 + Cardinality({j \in Matches(q) : RanksBefore(j, i, q)})

\* An empty query lists every command.
filterCommands(q) ==
    IF q = "" THEN Registry
    ELSE [r \in 1 .. Cardinality(Matches(q)) |->
             Registry[CHOOSE i \in Matches(q) : Rank(i, q) = r]]

Closed == [open |-> FALSE, query |-> "", focused |-> 1, results |-> filterCommands("")]

NothingRan == [key |-> "", held |-> {}, id |-> ""]

ShortcutsInit ==
    /\ platform \in Platform
    /\ editing = FALSE
    /\ palette = Closed
    /\ ran = NothingRan

\* Focus moves into or out of something the user types into.
MoveFocus ==
    /\ ~palette.open
    /\ editing' = ~editing
    /\ UNCHANGED <<platform, palette, ran>>

\* The window's keydown handler: the first command in the order of
\* registration answers.  The palette's input has the focus while it
\* is open, and a dispatched event goes no further.
KeyDown ==
    \E c \in Bound :
        LET stroke == Keystroke(platform, c)
            hit == Dispatched(platform, editing, stroke)
        IN /\ \E i \in hit : /\ \A j \in hit : i <= j
                             /\ ran' = [key |-> stroke.key, held |-> stroke.held,
                                        id |-> Registry[i].id]
           /\ UNCHANGED <<platform, editing, palette>>

\* usePaletteShortcut: the command key and K, from anywhere, even when open.
openPalette ==
    /\ palette' = [Closed EXCEPT !.open = TRUE]
    /\ editing' = TRUE
    /\ UNCHANGED <<platform, ran>>

closePalette ==
    /\ palette.open
    /\ palette' = [palette EXCEPT !.open = FALSE, !.query = "", !.focused = 1]
    /\ editing' = FALSE
    /\ UNCHANGED <<platform, ran>>

setQuery ==
    /\ palette.open
    /\ \E q \in QueryText :
        palette' = [palette EXCEPT !.query = q, !.focused = 1,
                                   !.results = filterCommands(q)]
    /\ UNCHANGED <<platform, editing, ran>>

\* The arrow keys go round; with no result they do nothing.
MoveHighlight ==
    /\ palette.open /\ palette.results # <<>>
    /\ LET n == Len(palette.results) IN
       \E next \in {(palette.focused % n) + 1, ((palette.focused + n - 2) % n) + 1} :
           palette' = [palette EXCEPT !.focused = next]
    /\ UNCHANGED <<platform, editing, ran>>

\* A row highlights itself when the pointer enters it.
CommandPalette ==
    /\ palette.open
    /\ \E i \in DOMAIN palette.results : palette' = [palette EXCEPT !.focused = i]
    /\ UNCHANGED <<platform, editing, ran>>

\* Enter, or a click on the row under the pointer: the command runs and the
\* palette closes.
executeFocused ==
    /\ palette.open /\ palette.focused \in DOMAIN palette.results
    /\ ran' = [NothingRan EXCEPT !.id = palette.results[palette.focused].id]
    /\ palette' = [palette EXCEPT !.open = FALSE, !.query = "", !.focused = 1]
    /\ editing' = FALSE
    /\ UNCHANGED platform

ShortcutsNext == \/ MoveFocus \/ KeyDown \/ openPalette \/ closePalette \/ setQuery
                 \/ MoveHighlight \/ CommandPalette \/ executeFocused

ShortcutsSpec == ShortcutsInit /\ [][ShortcutsNext]_shortcutVars

-----------------------------------------------------------------------------
\* The state is of its type: the last command run is a registered one.
ShortcutsTypeOK ==
    /\ platform \in Platform
    /\ editing \in BOOLEAN
    /\ palette.open \in BOOLEAN /\ palette.query \in QueryText
    /\ \A i \in DOMAIN palette.results : palette.results[i] \in Commands
    /\ ran # NothingRan => \E c \in Commands : c.id = ran.id

\* The open palette has a highlighted row whenever it has a row, and Enter
\* runs a command that the text in its input still matches.
EnterRunsAMatch ==
    palette.open /\ palette.results # <<>> =>
        /\ palette.focused \in DOMAIN palette.results
        /\ palette.query # "" =>
              FuzzyScore(palette.results[palette.focused].id, palette.query) >= 0

\* "add a defaultShortcut to any registered command and it immediately becomes
\* globally dispatchable" (useGlobalShortcuts.ts): the keystroke of a command
\* runs this command and no other one.
KeystrokeRunsItsCommand ==
    \A c \in Bound :
        (ran.key = c.shortcut[platform].key /\ ran.held = HeldFor(platform, c.shortcut[platform].mod))
            => ran.id = c.id
=============================================================================
