------------------------- MODULE ProfileValidation -------------------------
(***************************************************************************)
(* Which profiles may be used, and what the sidebar shows of it.  The      *)
(* backend knows which profiles were validated; the interface reads it     *)
(* from the cached list of profiles, keeps a status of its own for the     *)
(* spinner and the red dot (store/validation.ts), and validates on five    *)
(* occasions: a view needs the profile, a query was refused, a timer, the  *)
(* menu of the sidebar, the profile's editor.                              *)
(***************************************************************************)
EXTENDS Naturals, FiniteSets

CONSTANTS
  Profile,       \* the profiles there are at first
  QueryKey,      \* what is asked of a profile: its buckets, a listing
  MaxProbes      \* bound: calls of profile_validate

ASSUME ValidationAssumption == MaxProbes \in Nat

VARIABLES
  known,             \* the backend: [profile -> gone, new or validated]
  listed,            \* the cached list: the same, as it was read
  listFetch,         \* whether that list is being read again
  statuses,          \* the validation store
  probes,            \* [probe -> for whom and why, and how far it got]
  firedFor,          \* profiles the mounted view has asked for by itself
  recoveryAttempts   \* refused queries that were recovered once

validationVars == <<known, listed, listFetch, statuses, probes, firedFor, recoveryAttempts>>

Probe == 1 .. MaxProbes
Standing == {"gone", "new", "validated"}
Reason == {"view", "query", "timer", "menu", "editor"}

\* A probe asks the backend, is answered, may have to wait for the list, and
\* then sets the status.  A timer that was changed meanwhile is cancelled.
NoProbe == [of |-> "nobody", why |-> "view", state |-> "unused", verdict |-> "none",
            cancelled |-> FALSE]

ValidationTypeOK ==
  /\ known \in [Profile -> Standing] /\ listed \in [Profile -> Standing]
  /\ listFetch \in BOOLEAN
  /\ statuses \in [Profile -> {"idle", "validating", "ok", "error"}]
  /\ probes \in [Probe -> [of : Profile \cup {"nobody"}, why : Reason,
                           state : {"unused", "asked", "answered", "listing", "ready", "over"},
                           verdict : {"none", "ok", "failed", "thrown"}, cancelled : BOOLEAN]]
  /\ firedFor \subseteq Profile /\ recoveryAttempts \subseteq Profile \X QueryKey

\* useProfilesList: nothing is known before the list was read.
ValidationInit ==
  /\ known \in [Profile -> {"new", "validated"}]
  /\ listed = [p \in Profile |-> "gone"] /\ listFetch = TRUE
  /\ statuses = [p \in Profile |-> "idle"]
  /\ probes = [n \in Probe |-> NoProbe]
  /\ firedFor = {} /\ recoveryAttempts = {}

-----------------------------------------------------------------------------
(* The list.                                                               *)

\* Who waited for the list goes on, whether it was read or read anew.
Released(ps) ==
  [n \in Probe |-> IF ps[n].state = "listing" THEN [ps[n] EXCEPT !.state = "ready"] ELSE ps[n]]

ListArrives ==
  /\ listFetch /\ listFetch' = FALSE
  /\ listed' = known /\ probes' = Released(probes)
  /\ UNCHANGED <<known, statuses, firedFor, recoveryAttempts>>

ProfileDeleted(p) ==
  /\ listed[p] # "gone" /\ known[p] # "gone"
  /\ known' = [known EXCEPT ![p] = "gone"]
  /\ listFetch' = TRUE /\ probes' = Released(probes)
  /\ UNCHANGED <<listed, statuses, firedFor, recoveryAttempts>>

-----------------------------------------------------------------------------
(* Asking.                                                                 *)

startValidating(p) == [statuses EXCEPT ![p] = "validating"]

Unused(n) == probes[n].state = "unused" /\ \A m \in Probe : m < n => probes[m].state # "unused"

Sent(ps, n, p, why) == [ps EXCEPT ![n] = [NoProbe EXCEPT !.of = p, !.why = why, !.state = "asked"]]

\* A view needs a profile that is not validated, did not ask for it before,
\* and nobody else is at it or was refused.
useValidatedProfile(n, p) ==
  /\ Unused(n) /\ listed[p] = "new" /\ p \notin firedFor
  /\ statuses[p] \notin {"validating", "error"}
  /\ firedFor' = firedFor \cup {p}
  /\ statuses' = startValidating(p)
  /\ probes' = Sent(probes, n, p, "view")
  /\ UNCHANGED <<known, listed, listFetch, recoveryAttempts>>

ViewMounts ==
  /\ firedFor # {} /\ firedFor' = {}
  /\ UNCHANGED <<known, listed, listFetch, statuses, probes, recoveryAttempts>>

\* A query is made when the gate is open; one that is refused for its
\* credentials has the profile validated again, once per session.
handleAuthError(n, p, q) ==
  /\ Unused(n) /\ listed[p] = "validated" /\ <<p, q>> \notin recoveryAttempts
  /\ recoveryAttempts' = recoveryAttempts \cup {<<p, q>>}
  /\ statuses' = startValidating(p)
  /\ probes' = Sent(probes, n, p, "query")
  /\ UNCHANGED <<known, listed, listFetch, firedFor>>

\* Asked for by hand, the status is left alone.
ByHand(n, p, why) ==
  /\ Unused(n) /\ listed[p] # "gone"
  /\ probes' = Sent(probes, n, p, why)
  /\ UNCHANGED <<known, listed, listFetch, statuses, firedFor, recoveryAttempts>>

\* The menu of the sidebar (Profiles.tsx), and "Validate credentials" in the
\* editor of a profile (ProfileEditor.tsx).
validateMutation(n, p) == ByHand(n, p, "menu")
handleValidate(n, p) == ByHand(n, p, "editor")

Ticking(n) == probes[n].why = "timer" /\ probes[n].state \in {"asked", "answered"}

\* The timer reads the list for itself and asks for every validated profile.
usePeriodicProfileRefresh ==
  LET due == {p \in Profile : known[p] = "validated"}
      free == {n \in Probe : probes[n].state = "unused"}
  IN
  /\ due # {} /\ Cardinality(due) <= Cardinality(free)
  /\ \A n \in Probe : ~ Ticking(n)
  /\ \E f \in [due -> free] :
       /\ \A p, q \in due : p # q => f[p] # f[q]
       /\ \A n \in free : (\E p \in due : f[p] = n) \/ (\A p \in due : f[p] < n)
       /\ probes' = [n \in Probe |->
            IF \E p \in due : f[p] = n
              THEN Sent(probes, n, CHOOSE p \in due : f[p] = n, "timer")[n] ELSE probes[n]]
  /\ statuses' = [p \in Profile |-> IF p \in due THEN "validating" ELSE statuses[p]]
  /\ UNCHANGED <<known, listed, listFetch, firedFor, recoveryAttempts>>

\* The preference is changed: whatever the timer had under way is cancelled.
TogglePeriodicRefresh ==
  /\ \E n \in Probe : Ticking(n) /\ ~ probes[n].cancelled
  /\ probes' = [n \in Probe |-> IF Ticking(n) THEN [probes[n] EXCEPT !.cancelled = TRUE]
                                ELSE probes[n]]
  /\ UNCHANGED <<known, listed, listFetch, statuses, firedFor, recoveryAttempts>>

-----------------------------------------------------------------------------
(* Answering.                                                              *)

\* profile_validate: a failed probe is a report like any other; a profile
\* that is gone, or a locked keychain, is an error.
profile_validate(n) ==
  /\ probes[n].state = "asked"
  /\ LET p == probes[n].of IN
     \E verdict \in {"ok", "failed", "thrown"} :
       /\ known[p] = "gone" => verdict = "thrown"
       /\ known' = IF verdict = "ok" THEN [known EXCEPT ![p] = "validated"] ELSE known
       /\ probes' = [probes EXCEPT ![n].state = "answered", ![n].verdict = verdict]
  /\ UNCHANGED <<listed, listFetch, statuses, firedFor, recoveryAttempts>>

Marked(n) ==
  [statuses EXCEPT ![probes[n].of] = IF probes[n].verdict = "ok" THEN "ok" ELSE "error"]

\* For a view or a query: the list is read again first, and awaited.
ReportArrives(n) ==
  /\ probes[n].state = "answered" /\ probes[n].why \in {"view", "query"}
  /\ probes[n].verdict # "thrown"
  /\ listFetch' = TRUE
  /\ probes' = [Released(probes) EXCEPT ![n].state = "listing"]
  /\ UNCHANGED <<known, listed, statuses, firedFor, recoveryAttempts>>

\* ...then the status is set, for an error at once.
Mark(n) ==
  /\ probes[n].why \in {"view", "query"}
  /\ \/ probes[n].state = "ready"
     \/ probes[n].state = "answered" /\ probes[n].verdict = "thrown"
  /\ statuses' = Marked(n)
  /\ probes' = [probes EXCEPT ![n].state = "over"]
  /\ UNCHANGED <<known, listed, listFetch, firedFor, recoveryAttempts>>

\* Mutant: the menu leaves the list as it is, like the editor.
MenuAnsweredOnly(n) ==
  /\ probes[n].state = "answered" /\ probes[n].why = "menu"
  /\ probes' = [probes EXCEPT ![n].state = "over"]
  /\ UNCHANGED <<known, listed, listFetch, statuses, firedFor, recoveryAttempts>>

\* For the menu: the list is read again, an error is announced.
MenuAnswered(n) ==
  /\ probes[n].state = "answered" /\ probes[n].why = "menu"
  /\ IF probes[n].verdict = "thrown"
       THEN probes' = [probes EXCEPT ![n].state = "over"] /\ UNCHANGED listFetch
       ELSE /\ probes' = [Released(probes) EXCEPT ![n].state = "over"]
            /\ listFetch' = TRUE
  /\ UNCHANGED <<known, listed, statuses, firedFor, recoveryAttempts>>

\* For the editor: it shows the report, and the list stays as it was read.
EditorAnswered(n) ==
  /\ probes[n].state = "answered" /\ probes[n].why = "editor"
  /\ probes' = [probes EXCEPT ![n].state = "over"]
  /\ UNCHANGED <<known, listed, listFetch, statuses, firedFor, recoveryAttempts>>

\* For the timer: nothing is marked once it was cancelled; the last of the
\* round has the list read again.
TimerAnswered(n) ==
  /\ probes[n].state = "answered" /\ probes[n].why = "timer"
  /\ statuses' = IF probes[n].cancelled THEN statuses ELSE Marked(n)
  /\ IF probes[n].cancelled \/ \E m \in Probe \ {n} : Ticking(m)
       THEN probes' = [probes EXCEPT ![n].state = "over"] /\ UNCHANGED listFetch
       ELSE /\ probes' = [Released(probes) EXCEPT ![n].state = "over"]
            /\ listFetch' = TRUE
  /\ UNCHANGED <<known, listed, firedFor, recoveryAttempts>>

ValidationNext ==
  \/ ListArrives \/ ViewMounts \/ usePeriodicProfileRefresh \/ TogglePeriodicRefresh
  \/ \E p \in Profile : ProfileDeleted(p)
  \/ \E n \in Probe :
       \/ \E p \in Profile : \/ useValidatedProfile(n, p)
                             \/ validateMutation(n, p) \/ handleValidate(n, p)
                             \/ \E q \in QueryKey : handleAuthError(n, p, q)
       \/ profile_validate(n) \/ ReportArrives(n) \/ Mark(n) \/ TimerAnswered(n)
       \/ MenuAnswered(n) \/ EditorAnswered(n)

ValidationSpec == ValidationInit /\ [][ValidationNext]_validationVars

-----------------------------------------------------------------------------
Unfinished(n) == probes[n].state \notin {"unused", "over"}

\* "validating: mutation in flight" (store/validation.ts): while the spinner
\* turns, some validation of the profile is still to set the status, so that
\* the spinner stops and the view may ask again.
\* The code does not have this: see the README.
ValidatingIsInFlight ==
  \A p \in Profile : statuses[p] = "validating" =>
    \E n \in Probe : probes[n].of = p /\ Unfinished(n) /\ probes[n].why \notin {"menu", "editor"}

\* A probe of the editor has validated p, and the list has not been read since:
\* the gate stays shut for a profile that may be used.
LeftShut(p) ==
  /\ listed[p] = "new" /\ known[p] = "validated"
  /\ \E n \in Probe : probes[n].of = p /\ probes[n].why = "editor" /\ probes[n].verdict = "ok"

\* Once nothing is under way the list, which opens and closes the gate, says
\* what the backend says, or the editor is why it does not: everybody else who
\* validates has it read again, and a reading older than the verdict never
\* stays.  So at rest no gate is open that should be shut, and one is shut that
\* should be open only for want of a reading after the editor's probe.
GateIsTrue ==
  ~ listFetch /\ (\A n \in Probe : ~ Unfinished(n)) =>
    \A p \in Profile : listed[p] = known[p] \/ LeftShut(p)

\* A profile validated by hand is not shown as failed.
\* The code does not have this: see the README.
ValidIsNotRed ==
  ~ listFetch /\ (\A n \in Probe : ~ Unfinished(n)) =>
    \A p \in Profile, n \in Probe :
      (probes[n].of = p /\ probes[n].verdict = "ok" /\ \A m \in Probe : probes[m].of = p => m <= n)
        => statuses[p] # "error"
=============================================================================
