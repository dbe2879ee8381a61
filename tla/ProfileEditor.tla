--------------------------- MODULE ProfileEditor ---------------------------
(***************************************************************************)
(* The form of a profile, views/settings/ProfileEditor.tsx, opened from    *)
(* the sidebar (views/sidebar/Profiles.tsx), and the cached detail it is   *)
(* filled from.  A profile is its name and its compatibility flags; the    *)
(* region is edited like the name but an empty one is left out of the      *)
(* patch, and the secrets never come back.                                 *)
(***************************************************************************)
EXTENDS Naturals, FiniteSets

CONSTANTS
  EditedProfile,   \* the manual profiles
  ProfileName,     \* the names in use
  CompatFlags,     \* the flags in use
  MaxForms         \* bound: how often the form is opened

ASSUME ProfileEditorAssumption == MaxForms \in Nat

VARIABLES
  stored,      \* the backend: [profile -> its fields]
  details,     \* the cached details, while they are kept
  detailFetch, \* the profiles whose detail is being read
  form,        \* the form on screen, or closed
  saves,       \* what was sent and not answered: [form -> profile and patch]
  forms        \* how many forms were opened

profileEditorVars == <<stored, details, detailFetch, form, saves, forms>>

NoFlags == ""
NoName == ""
NoDetail == [name |-> NoName]

Fields == [name : ProfileName, flags : CompatFlags \cup {NoFlags}]
Values == [name : ProfileName \cup {NoName}, flags : CompatFlags \cup {NoFlags}]

\* touched: the fields that were typed into since the form was filled.
Form == [id : 1 .. MaxForms, of : EditedProfile, seeded : BOOLEAN, values : Values,
         seed : Values, touched : SUBSET {"name", "flags"}, error : BOOLEAN]
ClosedForm == [id |-> 0]

initialForm == [name |-> NoName, flags |-> NoFlags]

ProfileEditorTypeOK ==
  /\ stored \in [EditedProfile -> Fields]
  /\ details \in [EditedProfile -> Fields \cup {NoDetail}]
  /\ detailFetch \subseteq EditedProfile
  /\ form \in Form \cup {ClosedForm}
  /\ saves \subseteq [id : 1 .. MaxForms, of : EditedProfile, patch : Fields,
                      state : {"sent", "stored", "refused"}]
  /\ forms \in 0 .. MaxForms

ProfileEditorInit ==
  /\ \E n \in ProfileName, r \in CompatFlags :
       stored = [p \in EditedProfile |-> [name |-> n, flags |-> r]]
  /\ details = [p \in EditedProfile |-> NoDetail]
  /\ detailFetch = {} /\ form = ClosedForm /\ saves = {} /\ forms = 0

IsOpen == form # ClosedForm

\* Mutant: the form is filled whenever the detail changes.
SeededAgain(f, detail) ==
  IF detail = NoDetail THEN f
  ELSE [f EXCEPT !.seeded = TRUE, !.values = detail, !.seed = detail, !.touched = {}]

\* The form is filled from the detail, once.
Seeded(f, detail) ==
  IF f.seeded \/ detail = NoDetail THEN f
  ELSE [f EXCEPT !.seeded = TRUE, !.values = detail, !.seed = detail, !.touched = {}]

-----------------------------------------------------------------------------
\* Edit in the menu of a row: what the cache has is used at once, and the
\* detail is read when there is none or it is stale.
handleEdit(p) ==
  /\ ~ IsOpen /\ forms < MaxForms /\ forms' = forms + 1
  /\ form' = Seeded([id |-> forms', of |-> p, seeded |-> FALSE, values |-> initialForm,
                     seed |-> initialForm, touched |-> {}, error |-> FALSE], details[p])
  /\ detailFetch' \in {detailFetch \cup {p}} \cup
                      {detailFetch : q \in {q \in {p} : details[q] # NoDetail}}
  /\ UNCHANGED <<stored, details, saves>>

DetailArrives(p) ==
  /\ p \in detailFetch /\ detailFetch' = detailFetch \ {p}
  /\ details' = [details EXCEPT ![p] = stored[p]]
  /\ form' = IF IsOpen => form.of # p THEN form ELSE Seeded(form, stored[p])
  /\ UNCHANGED <<stored, saves, forms>>

\* Nobody watched the detail for gcTime.
DetailForgotten(p) ==
  /\ details[p] # NoDetail /\ p \notin detailFetch /\ (IsOpen => form.of # p)
  /\ details' = [details EXCEPT ![p] = NoDetail]
  /\ UNCHANGED <<stored, detailFetch, form, saves, forms>>

formReducer(field, value) ==
  /\ IsOpen /\ form.values[field] # value
  /\ form' = [form EXCEPT !.values[field] = value, !.touched = @ \cup {field}]
  /\ UNCHANGED <<stored, details, detailFetch, saves, forms>>

\* Submit: not without a name, not twice at once.
handleSubmit ==
  /\ IsOpen /\ form.values.name # NoName
  /\ \A s \in saves : s.id # form.id
  /\ saves' = saves \cup {[id |-> form.id, of |-> form.of, patch |-> form.values, state |-> "sent"]}
  /\ form' = [form EXCEPT !.error = FALSE]
  /\ UNCHANGED <<stored, details, detailFetch, forms>>

\* ProfileStore::update, or a refusal.
profileUpdate(s) ==
  /\ s \in saves /\ s.state = "sent"
  /\ \/ /\ stored' = [stored EXCEPT ![s.of] =
             [name   |-> s.patch.name,
              flags |-> IF s.patch.flags = NoFlags THEN @.flags ELSE s.patch.flags]]
        /\ saves' = (saves \ {s}) \cup {[s EXCEPT !.state = "stored"]}
     \/ UNCHANGED stored /\ saves' = (saves \ {s}) \cup {[s EXCEPT !.state = "refused"]}
  /\ UNCHANGED <<details, detailFetch, form, forms>>

\* onSuccess has the profiles read again - of the details only the one a form
\* or the status bar watches - and closes the form, whichever it is by now.
\* A refusal is shown in the form it belongs to.
SubmitAnswers(s) ==
  /\ s \in saves /\ s.state # "sent" /\ saves' = saves \ {s}
  /\ IF s.state = "stored"
       THEN /\ form' = ClosedForm
            /\ \E watched \in SUBSET {s.of} :
                 /\ IsOpen /\ form.of = s.of => watched = {s.of}
                 /\ detailFetch' = detailFetch \cup watched
                      \cup (IF IsOpen THEN {form.of} ELSE {})
       ELSE /\ form' = IF IsOpen /\ form.id = s.id THEN [form EXCEPT !.error = TRUE] ELSE form
            /\ UNCHANGED detailFetch
  /\ UNCHANGED <<stored, details, forms>>

\* Cancel, Escape, a click outside; while saving too.
onClose ==
  /\ IsOpen /\ form' = ClosedForm
  /\ UNCHANGED <<stored, details, detailFetch, saves, forms>>

ProfileEditorNext ==
  \/ \E p \in EditedProfile : handleEdit(p) \/ DetailArrives(p) \/ DetailForgotten(p)
  \/ \E n \in ProfileName : formReducer("name", n)
  \/ \E r \in CompatFlags \cup {NoFlags} : formReducer("flags", r)
  \/ handleSubmit \/ onClose
  \/ \E s \in saves : profileUpdate(s) \/ SubmitAnswers(s)

ProfileEditorSpec == ProfileEditorInit /\ [][ProfileEditorNext]_profileEditorVars

-----------------------------------------------------------------------------
\* Once a form is filled, nothing that arrives from the backend replaces what
\* was typed into it: neither a reading of the detail that was under way, nor
\* the one its own save causes.
TypedIsKept ==
  [][form' # form /\ IsOpen /\ form.seeded /\ form' # ClosedForm /\ form'.values # form.values
       => UNCHANGED <<details, detailFetch, saves>>]_profileEditorVars

\* A save changes what was typed and nothing else.
\* The code does not have this: see the README.
OnlyTypedIsSaved ==
  \A s \in saves : s.state = "sent" /\ IsOpen /\ form.id = s.id =>
    \A f \in {"name", "flags"} : f \notin form.touched => s.patch[f] = stored[s.of][f]
=============================================================================
