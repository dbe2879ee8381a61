---------------------------- MODULE SettingsPanels ----------------------------
(***************************************************************************)
(* The settings screen: the settings store, which applies a patch before   *)
(* the backend has taken it and rolls it back when the backend refuses,    *)
(* and the panels, each of which edits a copy of a few settings that it    *)
(* took when it was mounted.  A setting's value is the set of what differs *)
(* from its default: {} is the default.                                    *)
(***************************************************************************)
EXTENDS Shortcuts

CONSTANTS
    Visited,        \* the panels the user opens
    MaxUpdates,     \* bound: updates sent
    NotLoaded       \* the store before the first load

VARIABLES
    saved,      \* the backend's settings, in memory and on disk
    settings,   \* the store's copy, or NotLoaded
    loading,    \* is settings_get running
    failed,     \* the store's error, which hides every panel
    shown,      \* is the screen open
    panel,      \* the active tab
    draft,      \* the local state of the mounted panel: its settings' values
    busy,       \* the mounted panel's `saving`
    updates,    \* the calls of settings_update that are not answered yet
    sent,       \* how many were made
    got,        \* what settings_get has read, or NotLoaded
    belated,   \* history: the calls whose answer brings a copy of before another's save
    astray      \* history: was the last answer one of these

screenVars == <<shown, panel, draft, busy>>
settingsVars == <<saved, settings, loading, failed, screenVars, updates, sent, got, belated, astray>>

Wrong == "wrong"    \* a value a panel's validate() refuses
Value == {{}, {"own"}, {Wrong}}

-----------------------------------------------------------------------------
(* The panels: the settings that each edits, saves and resets *)

GeneralPanel       == {"theme", "defaultViewMode"}
TransfersPanel     == {"transferConcurrency"}
PreviewPanel       == {"previewSizeLimitMb"}
NotificationsPanel == {"notifications"}
EndpointsPanel     == {"s3CompatibleEndpoints"}
UpdaterPanel       == {"autoUpdate"}
DiagnosticsPanel   == {"diagnosticsEnabled"}
StartupPanel       == {"restoreSession", "openTo"}
ProxyPanel         == {"proxy"}
CachePanel         == {"cacheTtlSecs", "cacheSizeCapMb"}
FallbackPanel      == {"fallbackThresholdMb"}
ConfirmationsPanel == {"transferConfirmations"}
DefaultViewPanel   == {"defaultViewMode"}
ShortcutsPanel     == {"keyboardShortcuts"}

PANELS == [general |-> GeneralPanel, transfers |-> TransfersPanel, preview |-> PreviewPanel,
           shortcuts |-> ShortcutsPanel, notifications |-> NotificationsPanel,
           endpoints |-> EndpointsPanel, updater |-> UpdaterPanel,
           diagnostics |-> DiagnosticsPanel, startup |-> StartupPanel, proxy |-> ProxyPanel,
           cache |-> CachePanel, fallback |-> FallbackPanel,
           confirmations |-> ConfirmationsPanel, defaultView |-> DefaultViewPanel]

ASSUME SettingsAssumption == Visited \subseteq DOMAIN PANELS /\ "general" \in Visited

Setting == UNION {PANELS[p] : p \in DOMAIN PANELS}

\* Settings whose controls can hold a value that validate() refuses.
Validated == TransfersPanel \cup PreviewPanel \cup EndpointsPanel \cup ProxyPanel
                \cup CachePanel \cup FallbackPanel \cup ConfirmationsPanel

DEFAULT_SETTINGS == [s \in Setting |-> {}]

\* The shortcut panel also refuses while two commands are bound alike.
Refused(p, d) ==
    \/ \E s \in DOMAIN d \cap Validated : Wrong \in d[s]
    \/ p = "shortcuts" /\ detectConflicts(platform) # {}

-----------------------------------------------------------------------------
(* The backend merges a patch into what it has: an object is merged key by *)
(* key, so a key that the patch does not have stays.  `undefined` is not   *)
(* sent.                                                                   *)

Merged == {"keyboardShortcuts", "openTo"}

settingsUpdate(base, patch) ==
    [s \in Setting |-> IF s \notin DOMAIN patch THEN base[s]
                       ELSE IF s \in Merged THEN base[s] \cup patch[s]
                       ELSE patch[s]]

\* The store's own merge replaces every setting of the patch.
Shallow(base, patch) == [s \in Setting |-> IF s \in DOMAIN patch THEN patch[s] ELSE base[s]]

-----------------------------------------------------------------------------
SettingsInit ==
    /\ saved \in {DEFAULT_SETTINGS, [DEFAULT_SETTINGS EXCEPT !.openTo = {"own"}]}
    /\ settings = NotLoaded
    /\ loading = FALSE /\ failed = FALSE
    /\ shown = FALSE /\ panel = "general"
    /\ draft = <<>> /\ busy = FALSE
    /\ updates = {} /\ sent = 0
    /\ got = NotLoaded /\ belated = {} /\ astray = FALSE

\* A panel takes its copy when it is mounted: the screen is open, loaded and
\* shows no error.
Seed(p, s) == [f \in PANELS[p] |-> IF s = NotLoaded THEN DEFAULT_SETTINGS[f] ELSE s[f]]
Showing == shown /\ ~loading /\ ~failed

\* The call is no longer one that the mounted panel waits for.
Orphaned(us) == {[u EXCEPT !.mine = FALSE] : u \in us}

\* settings:open.  load() does nothing once the settings are there.
OpenSettings ==
    /\ ~shown
    /\ shown' = TRUE /\ busy' = FALSE
    /\ IF settings = NotLoaded /\ ~loading
         THEN loading' = TRUE /\ failed' = FALSE /\ draft' = <<>>
         ELSE /\ UNCHANGED <<loading, failed>>
              /\ draft' = IF loading \/ failed THEN <<>> ELSE Seed(panel, settings)
    /\ UNCHANGED <<saved, settings, panel, updates, sent, got, belated, astray>>

CloseSettings ==
    /\ shown
    /\ shown' = FALSE /\ draft' = <<>> /\ busy' = FALSE
    /\ updates' = Orphaned(updates)
    /\ UNCHANGED <<saved, settings, loading, failed, panel, sent, got, belated, astray>>

\* A call is answered: what the store holds from then on is as good as what
\* the answer brought.  settings_get is call 0.
Answered(n) ==
    /\ astray' = (n \in belated)
    /\ belated' = belated \ {n}

\* settings_get, under the mutex of the settings.
settings_get ==
    /\ loading /\ got = NotLoaded
    /\ got' = saved
    /\ belated' = belated \ {0}
    /\ UNCHANGED <<saved, settings, loading, failed, screenVars, updates, sent, astray>>

Loaded ==
    /\ got # NotLoaded
    /\ settings' = got /\ failed' = FALSE
    /\ Answered(0)

LoadFailed ==
    /\ failed' = TRUE
    /\ UNCHANGED <<settings, belated, astray>>

\* Mutant: the panel keeps the copy it took while there were no settings.
loadUnseeded ==
    /\ loading
    /\ loading' = FALSE /\ got' = NotLoaded
    /\ Loaded \/ LoadFailed
    /\ busy' = FALSE
    /\ UNCHANGED <<saved, shown, panel, draft, updates, sent>>

\* The answer of settings_get: the panels are mounted anew.
load ==
    /\ loading
    /\ loading' = FALSE /\ got' = NotLoaded
    /\ Loaded \/ LoadFailed
    /\ draft' = IF shown /\ ~failed' THEN Seed(panel, settings') ELSE <<>>
    /\ busy' = FALSE
    /\ UNCHANGED <<saved, shown, panel, updates, sent>>

\* Only the active tab's panel is mounted.
SettingsScreen ==
    /\ Showing
    /\ \E p \in Visited \ {panel} :
        panel' = p /\ draft' = Seed(p, settings)
    /\ busy' = FALSE
    /\ updates' = Orphaned(updates)
    /\ UNCHANGED <<saved, settings, loading, failed, shown, sent, got, belated, astray>>

\* A control of the mounted panel.
Edit ==
    /\ Showing
    /\ \E s \in DOMAIN draft, v \in Value :
        /\ v = {Wrong} => s \in Validated
        /\ draft' = [draft EXCEPT ![s] = v]
    /\ UNCHANGED <<saved, settings, loading, failed, shown, panel, busy, updates, sent, got,
                   belated, astray>>

\* update(patch): shown at once, then sent.  It clears the error, which mounts
\* the panels again.  What a refusal would put back is the copy of before, which
\* is not the backend's while another call is under way.
update(patch, mine) ==
    /\ sent < MaxUpdates
    /\ sent' = sent + 1
    /\ settings' = IF settings = NotLoaded THEN NotLoaded ELSE Shallow(settings, patch)
    /\ failed' = FALSE
    /\ updates' = updates \cup {[n |-> sent + 1, patch |-> patch, previous |-> settings,
                                 mine |-> mine, status |-> "sent", answer |-> settings]}
    /\ belated' = IF updates = {} /\ ~astray THEN belated ELSE belated \cup {sent + 1}
    /\ UNCHANGED <<saved, loading, shown, panel, got, astray>>

handleSave ==
    /\ Showing /\ ~busy
    /\ ~Refused(panel, draft)
    /\ update(draft, TRUE)
    /\ busy' = TRUE
    /\ UNCHANGED draft

\* The Reset button of a panel is not disabled while the panel saves.
handleReset ==
    /\ Showing
    /\ update([s \in PANELS[panel] |-> {}], FALSE)
    /\ draft' = [s \in PANELS[panel] |-> {}]
    /\ UNCHANGED busy

\* "Reset all", in the header, is there while an error hides the panels.  The
\* panel that is mounted keeps its copy.
resetAll ==
    /\ shown
    /\ update(DEFAULT_SETTINGS, FALSE)
    /\ draft' = IF failed /\ ~loading THEN Seed(panel, settings') ELSE draft
    /\ UNCHANGED busy

\* settings_update: merged, written, kept, under one mutex; or refused.  What
\* the other calls bring is then a copy of before.
BackendUpdates ==
    /\ \E u \in updates :
        /\ u.status = "sent"
        /\ \/ /\ saved' = settingsUpdate(saved, u.patch)
              /\ updates' = (updates \ {u}) \cup {[u EXCEPT !.status = "taken", !.answer = saved']}
              /\ belated' = (belated \cup {v.n : v \in updates} \cup {0}) \ {u.n}
           \/ /\ updates' = (updates \ {u}) \cup {[u EXCEPT !.status = "refused"]}
              /\ UNCHANGED <<saved, belated>>
    /\ UNCHANGED <<settings, loading, failed, screenVars, sent, got, astray>>

\* The answer replaces the store's copy; a refusal puts back the copy of before.
UpdateTaken ==
    /\ \E u \in updates :
        /\ u.status = "taken"
        /\ settings' = u.answer
        /\ updates' = updates \ {u}
        /\ busy' = (busy /\ ~u.mine)
        /\ Answered(u.n)
    /\ UNCHANGED <<saved, loading, failed, shown, panel, draft, sent, got>>

\* Mutant: the refused patch stays in the store's copy.
NoRollback(u) == settings

Rollback(u) == u.previous

UpdateRefused ==
    /\ \E u \in updates :
        /\ u.status = "refused"
        /\ settings' = Rollback(u)
        /\ updates' = Orphaned(updates \ {u})
        /\ Answered(u.n)
    /\ failed' = TRUE
    /\ draft' = <<>> /\ busy' = FALSE
    /\ UNCHANGED <<saved, loading, shown, panel, sent, got>>

SettingsNext ==
    \/ OpenSettings \/ CloseSettings \/ settings_get \/ load \/ SettingsScreen \/ Edit
    \/ handleSave \/ handleReset \/ resetAll
    \/ BackendUpdates \/ UpdateTaken \/ UpdateRefused

SettingsSpec == ShortcutsInit /\ SettingsInit
                    /\ [][SettingsNext /\ UNCHANGED shortcutVars]_<<settingsVars, shortcutVars>>

-----------------------------------------------------------------------------
\* The state is of its type; a panel's copy is of the settings it edits.
SettingsTypeOK ==
    /\ saved \in [Setting -> SUBSET {"own"}]
    /\ \A copy \in {settings, got} : copy # NotLoaded => DOMAIN copy = Setting
    /\ {loading, failed, shown, busy, astray} \subseteq BOOLEAN
    /\ belated \subseteq Nat
    /\ panel \in Visited
    /\ IF Showing THEN DOMAIN draft = PANELS[panel] ELSE draft = <<>>
    /\ \A u \in updates : u.status \in {"sent", "taken", "refused"}

\* The optimistic copy, its replacement by the answer and the roll-back leave
\* the store with what the backend has, whenever nothing is under way; however
\* calls overlap, it strays only by an answer that another save has overtaken:
\* one that comes after that of a later save, or a refusal that puts back what
\* was shown while another call was under way.
QuietStoreIsSaved ==
    (updates = {} /\ settings # NotLoaded) => settings = saved \/ astray

\* "Reset all settings to defaults" (store/settings.ts): what the backend has
\* once it took a Reset all are the defaults.
ResetRestoresDefaults ==
    \A u \in updates :
        (u.status = "taken" /\ u.patch = DEFAULT_SETTINGS) => u.answer = DEFAULT_SETTINGS
=============================================================================
