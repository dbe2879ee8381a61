----------------------------- MODULE MCWorkspace -----------------------------
(***************************************************************************)
(* The browsing, preview, account and settings side of the frontend on     *)
(* small instances.  These components share no state, so a behaviour picks *)
(* one of them (`part') and runs it while the others stay as they start:   *)
(* the state spaces add up instead of multiplying.                         *)
(***************************************************************************)
EXTENDS PreviewPane, EditorPreview, OptimisticListing, PaneSelection, FolderTrails,
        NavigationHistory, FilteredEntries, SearchBox, ProfileValidation, ProfileEditor,
        SettingsPanels, TLC

CONSTANTS
  clip, song, sheet,   \* keys of the preview pane
  k1, k2               \* keys of the editor

VARIABLE part

MCShape == clip :> [mime |-> "video", ext |-> "none"]
           @@ song :> [mime |-> "audio", ext |-> "none"]
           @@ sheet :> [mime |-> "csvtext", ext |-> "none"]

MCWithin == "d" :> "root" @@ "e" :> "root" @@ "f" :> "d" @@ "x" :> "d" @@ "z" :> "e"
MCOrderOf == "d" :> 1 @@ "e" :> 2 @@ "f" :> 3 @@ "x" :> 4 @@ "z" :> 5

MCPrefix == {<<>>, <<"a">>, <<"a", "b">>}

MCFuzzyScore(id, q) ==
    CASE q = "view" -> IF id \in {"view.refresh", "view.inspect", "view.mode.details"} THEN 3 ELSE -1
      [] q = "re" -> IF id \in {"view.refresh", "file.refresh"} THEN 2
                     ELSE IF id = "file.rename" THEN 3
                     ELSE IF id = "view.mode.details" THEN 1 ELSE -1
      [] OTHER -> -1

\* Nothing tells the keys of the editor apart.
EditorSymmetry == Permutations({k1, k2})

Part == {"preview", "editor", "listing", "panes", "trails", "history",
         "filter", "search", "validation", "profile", "shortcuts", "settings"}

\* Of a part that does not run, one of its first states is enough.
WorkspaceInit ==
    /\ part \in Part
    /\ PreviewInit /\ EditorInit /\ SearchInit
    /\ ListingInit /\ (part # "listing" => server = {})
    /\ PaneInit /\ (part # "panes" => /\ panes["main"].mode = "Details"
                                   /\ panes["main"].place = BucketList)
    /\ TrailInit /\ (part # "trails" => trailMode = "Tree")
    /\ NavigationInit /\ (part # "history" => whereIs["main"] = NoLocation)
    /\ FilterInit /\ (part # "filter" => entries = "small")
    /\ ValidationInit /\ (part # "validation" => \A p \in Profile : known[p] = "new")
    /\ ProfileEditorInit /\ (part # "profile" => \A p \in EditedProfile : stored[p].name = "n")
    /\ ShortcutsInit /\ (part \notin {"shortcuts", "settings"} => platform = "mac")
    /\ SettingsInit /\ (part # "settings" => saved = DEFAULT_SETTINGS)

WorkspaceNext ==
    \/ /\ part = "preview" /\ PreviewNext
       /\ UNCHANGED <<part, editorVars, listingVars, paneVars, trailVars, navigationVars,
                      filterVars, searchVars, validationVars, profileEditorVars,
                      shortcutVars, settingsVars>>
    \/ /\ part = "editor" /\ EditorNext
       /\ UNCHANGED <<part, previewVars, listingVars, paneVars, trailVars, navigationVars,
                      filterVars, searchVars, validationVars, profileEditorVars,
                      shortcutVars, settingsVars>>
    \/ /\ part = "listing" /\ ListingNext
       /\ UNCHANGED <<part, previewVars, editorVars, paneVars, trailVars, navigationVars,
                      filterVars, searchVars, validationVars, profileEditorVars,
                      shortcutVars, settingsVars>>
    \/ /\ part = "panes" /\ PaneNext
       /\ UNCHANGED <<part, previewVars, editorVars, listingVars, trailVars,
                      navigationVars, filterVars, searchVars, validationVars,
                      profileEditorVars, shortcutVars, settingsVars>>
    \/ /\ part = "trails" /\ TrailNext
       /\ UNCHANGED <<part, previewVars, editorVars, listingVars, paneVars, navigationVars,
                      filterVars, searchVars, validationVars, profileEditorVars,
                      shortcutVars, settingsVars>>
    \/ /\ part = "history" /\ NavigationNext
       /\ UNCHANGED <<part, previewVars, editorVars, listingVars, paneVars, trailVars,
                      filterVars, searchVars, validationVars, profileEditorVars,
                      shortcutVars, settingsVars>>
    \/ /\ part = "filter" /\ FilterNext
       /\ UNCHANGED <<part, previewVars, editorVars, listingVars, paneVars, trailVars,
                      navigationVars, searchVars, validationVars, profileEditorVars,
                      shortcutVars, settingsVars>>
    \/ /\ part = "search" /\ SearchNext
       /\ UNCHANGED <<part, previewVars, editorVars, listingVars, paneVars, trailVars,
                      navigationVars, filterVars, validationVars, profileEditorVars,
                      shortcutVars, settingsVars>>
    \/ /\ part = "validation" /\ ValidationNext
       /\ UNCHANGED <<part, previewVars, editorVars, listingVars, paneVars, trailVars,
                      navigationVars, filterVars, searchVars, profileEditorVars,
                      shortcutVars, settingsVars>>
    \/ /\ part = "profile" /\ ProfileEditorNext
       /\ UNCHANGED <<part, previewVars, editorVars, listingVars, paneVars, trailVars,
                      navigationVars, filterVars, searchVars, validationVars, shortcutVars,
                      settingsVars>>
    \/ /\ part = "shortcuts" /\ ShortcutsNext
       /\ UNCHANGED <<part, previewVars, editorVars, listingVars, paneVars, trailVars,
                      navigationVars, filterVars, searchVars, validationVars,
                      profileEditorVars, settingsVars>>
    \/ /\ part = "settings" /\ SettingsNext
       /\ UNCHANGED <<part, previewVars, editorVars, listingVars, paneVars, trailVars,
                      navigationVars, filterVars, searchVars, validationVars,
                      profileEditorVars, shortcutVars>>

workspaceVars == <<part, previewVars, editorVars, listingVars, paneVars, trailVars, navigationVars,
                   filterVars, searchVars, validationVars, profileEditorVars, shortcutVars,
                   settingsVars>>

WorkspaceSpec == WorkspaceInit /\ [][WorkspaceNext]_workspaceVars

\* The part that runs tells the states apart: the others are as they began.
Moving ==
    CASE part = "preview" -> <<part, previewVars>>
      [] part = "editor" -> <<part, editorVars>>
      [] part = "listing" -> <<part, listingVars>>
      [] part = "panes" -> <<part, paneVars>>
      [] part = "trails" -> <<part, trailVars>>
      [] part = "history" -> <<part, navigationVars>>
      [] part = "filter" -> <<part, filterVars>>
      [] part = "search" -> <<part, searchVars>>
      [] part = "validation" -> <<part, validationVars>>
      [] part = "profile" -> <<part, profileEditorVars>>
      [] part = "shortcuts" -> <<part, shortcutVars>>
      [] part = "settings" -> <<part, settingsVars, shortcutVars>>

\* Every component's state is of its type; those of the parts that stand still
\* never change.
WorkspaceTypeOK ==
    /\ part = "preview" => PreviewTypeOK
    /\ part = "editor" => EditorTypeOK
    /\ part = "listing" => ListingTypeOK
    /\ part = "panes" => PaneTypeOK
    /\ part = "trails" => TrailTypeOK
    /\ part = "history" => NavigationTypeOK
    /\ part = "filter" => FilterTypeOK
    /\ part = "search" => SearchTypeOK
    /\ part = "validation" => ValidationTypeOK
    /\ part = "profile" => ProfileEditorTypeOK
    /\ part = "shortcuts" => ShortcutsTypeOK
    /\ part = "settings" => SettingsTypeOK
=============================================================================
