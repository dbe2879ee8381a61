---------------------------- MODULE AccountProofs ----------------------------
(***************************************************************************)
(* The gate of a profile tells the truth, what is typed into a form stays, *)
(* the settings on screen are those that are saved, and the palette runs   *)
(* what it shows, for any profiles, probes, fields, patches and queries;   *)
(* and what holds of each part of the workspace holds of all side by side. *)
(*                                                                         *)
(* The gate: a profile differs from what the frontend lists only while an  *)
(* answer that has the list read anew is on its way, and the timer asks    *)
(* for profiles that are validated already.  The settings: as long as no   *)
(* call is made before the last one was answered, there is at most one,    *)
(* and what it would put in place or put back is what the backend has.     *)
(* The palette: ranks tell the commands that match apart, so the list has  *)
(* each of them once, and the highlight stays within the list.             *)
(***************************************************************************)
EXTENDS MCWorkspace, PreviewProofs, BrowsingProofs

-----------------------------------------------------------------------------
(* Which profiles may be used.                                             *)

ProbeRecord == [of : Profile \cup {"nobody"}, why : Reason,
                state : {"unused", "asked", "answered", "listing", "ready", "over"},
                verdict : {"none", "ok", "failed", "thrown"}, cancelled : BOOLEAN]

ProbesFit ==
  /\ known \in [Profile -> Standing] /\ listed \in [Profile -> Standing]
  /\ probes \in [Probe -> ProbeRecord]
  /\ \A n \in Probe : probes[n].state # "unused" => probes[n].of \in Profile

\* The timer asks for profiles that are validated: its answer opens no gate.
TimersOpenNothing ==
  \A n \in Probe : probes[n].why = "timer" /\ probes[n].state = "asked" =>
    known[probes[n].of] \in {"validated", "gone"}

\* An answer that has yet to have the list read anew, or the editor's, which
\* never has.
Explains(n, p) ==
  /\ probes[n].of = p /\ probes[n].verdict = "ok"
  /\ \/ probes[n].state = "answered" /\ probes[n].why # "timer"
     \/ probes[n].state = "over" /\ probes[n].why = "editor"

DifferencesAreOwed ==
  ~listFetch => \A p \in Profile : known[p] # listed[p] =>
    listed[p] = "new" /\ known[p] = "validated" /\ \E n \in Probe : Explains(n, p)

GateInv == ProbesFit /\ TimersOpenNothing /\ DifferencesAreOwed

LEMMA ReleasedKeeps ==
  ASSUME probes \in [Probe -> ProbeRecord]
  PROVE  /\ Released(probes) \in [Probe -> ProbeRecord]
         /\ \A n \in Probe :
              /\ Released(probes)[n].of = probes[n].of /\ Released(probes)[n].why = probes[n].why
              /\ Released(probes)[n].verdict = probes[n].verdict
              /\ Released(probes)[n].state =
                   IF probes[n].state = "listing" THEN "ready" ELSE probes[n].state
BY DEF Released, ProbeRecord

LEMMA FreshProbe ==
  ASSUME NEW p \in Profile, NEW why \in Reason
  PROVE  LET new == [NoProbe EXCEPT !.of = p, !.why = why, !.state = "asked"] IN
         new \in ProbeRecord /\ new.of = p /\ new.why = why /\ new.state = "asked"
<1> DEFINE a == [NoProbe EXCEPT !.of = p]
           b == [a EXCEPT !.why = why]
           c == [b EXCEPT !.state = "asked"]
<1>1. NoProbe \in ProbeRecord
  BY DEF NoProbe, ProbeRecord, Reason
<1>2. a \in ProbeRecord /\ a.of = p
  BY <1>1 DEF ProbeRecord
<1> HIDE DEF a
<1>3. b \in ProbeRecord /\ b.of = p /\ b.why = why
  BY <1>2 DEF ProbeRecord
<1> HIDE DEF b
<1>4. c \in ProbeRecord /\ c.of = p /\ c.why = why /\ c.state = "asked"
  BY <1>3 DEF ProbeRecord
<1>5. c = [NoProbe EXCEPT !.of = p, !.why = why, !.state = "asked"]
  BY Zenon DEF a, b
<1> HIDE DEF c
<1> QED
  BY <1>4, <1>5

\* A probe that is sent: no gate is opened by the asking.
LEMMA AskingKeeps ==
  ASSUME GateInv, NEW n \in Probe, Unused(n), NEW p \in Profile, NEW why \in Reason \ {"timer"},
         probes' = Sent(probes, n, p, why), UNCHANGED <<known, listed, listFetch>>
  PROVE  GateInv'
<1> DEFINE new == [NoProbe EXCEPT !.of = p, !.why = why, !.state = "asked"]
<1>2. new \in ProbeRecord /\ new.of = p /\ new.why = why /\ new.state = "asked"
  BY FreshProbe
<1>3. probes' = [probes EXCEPT ![n] = new]
  BY DEF Sent
<1>4. probes \in [Probe -> ProbeRecord] /\ probes[n].state = "unused"
  BY DEF GateInv, ProbesFit, Unused
<1> HIDE DEF new
<1>5. ProbesFit'
  BY <1>2, <1>3, <1>4 DEF GateInv, ProbesFit
<1>6. TimersOpenNothing'
  BY <1>2, <1>3, <1>4 DEF GateInv, TimersOpenNothing
<1>7. DifferencesAreOwed'
  BY <1>2, <1>3, <1>4 DEF GateInv, DifferencesAreOwed, Explains
<1> QED
  BY <1>5, <1>6, <1>7 DEF GateInv

\* A probe that goes on, or is over, without being one that owes a reading,
\* or with the list being read anew.
LEMMA MovingKeeps ==
  ASSUME GateInv, NEW n \in Probe,
         probes' \in [Probe -> ProbeRecord],
         \A m \in Probe : probes'[m].of = probes[m].of /\ probes'[m].why = probes[m].why
                          /\ probes'[m].verdict = probes[m].verdict,
         \A m \in Probe : probes'[m].state = "asked" => probes[m].state = "asked",
         \A m \in Probe : probes'[m].state # "unused" => probes[m].state # "unused",
         known' = known,
         \/ listFetch'
         \/ /\ listFetch' = listFetch /\ listed' = listed
            /\ \A m \in Probe : Explains(m, probes[m].of) =>
                 probes'[m].state \in {"answered"} \cup (IF probes[m].why = "editor" THEN {"over"} ELSE {}),
         listed' = listed
  PROVE  GateInv'
<1>1. ProbesFit'
  BY DEF GateInv, ProbesFit
<1>2. TimersOpenNothing'
  BY DEF GateInv, TimersOpenNothing
<1>3. DifferencesAreOwed'
  BY DEF GateInv, DifferencesAreOwed, Explains
<1> QED
  BY <1>1, <1>2, <1>3 DEF GateInv

\* The timer's round.
LEMMA RoundKeeps ==
  ASSUME GateInv, usePeriodicProfileRefresh
  PROVE  GateInv'
<1> DEFINE due == {p \in Profile : known[p] = "validated"}
           free == {n \in Probe : probes[n].state = "unused"}
<1>1. PICK f \in [due -> free] :
        probes' = [n \in Probe |->
            IF \E p \in due : f[p] = n
              THEN Sent(probes, n, CHOOSE p \in due : f[p] = n, "timer")[n] ELSE probes[n]]
  BY DEF usePeriodicProfileRefresh
<1>2. UNCHANGED <<known, listed, listFetch>>
  BY DEF usePeriodicProfileRefresh
<1>3. probes \in [Probe -> ProbeRecord]
  BY DEF GateInv, ProbesFit
<1>4. \A n \in Probe : \/ probes'[n] = probes[n]
                       \/ /\ probes[n].state = "unused" /\ probes'[n] \in ProbeRecord
                          /\ probes'[n].of \in due /\ probes'[n].state = "asked"
  <2> SUFFICES ASSUME NEW n \in Probe, probes'[n] # probes[n]
               PROVE  /\ probes[n].state = "unused" /\ probes'[n] \in ProbeRecord
                      /\ probes'[n].of \in due /\ probes'[n].state = "asked"
    OBVIOUS
  <2>1. \E p \in due : f[p] = n
    BY <1>1
  <2>2. n \in free
    BY <1>1, <2>1
  <2>3. PICK p \in due : p = CHOOSE q \in due : f[q] = n
    BY <2>1
  <2>4. probes'[n] = Sent(probes, n, p, "timer")[n]
    BY <1>1, <2>1, <2>3
  <2> DEFINE new == [NoProbe EXCEPT !.of = p, !.why = "timer", !.state = "asked"]
  <2>6. probes'[n] = new
    BY <1>3, <2>4 DEF Sent
  <2>7. new \in ProbeRecord /\ new.of = p /\ new.state = "asked"
    BY FreshProbe DEF Reason
  <2> QED
    BY <2>2, <2>6, <2>7
<1>5. \A p \in due : p \in Profile /\ known[p] = "validated"
  OBVIOUS
<1>6. probes' = [n \in Probe |-> probes'[n]]
  BY <1>1
<1> HIDE DEF due
<1>7. ProbesFit'
  BY <1>2, <1>3, <1>4, <1>5, <1>6 DEF GateInv, ProbesFit
<1>8. TimersOpenNothing'
  BY <1>2, <1>3, <1>4, <1>5 DEF GateInv, TimersOpenNothing
<1>9. DifferencesAreOwed'
  BY <1>2, <1>3, <1>4 DEF GateInv, DifferencesAreOwed, Explains
<1> QED
  BY <1>7, <1>8, <1>9 DEF GateInv

\* The answer of the backend: who opens a gate owes a reading of the list.
LEMMA VerdictKeeps ==
  ASSUME GateInv, NEW n \in Probe, profile_validate(n)
  PROVE  GateInv'
<1>1. PICK p : p = probes[n].of
  OBVIOUS
<1>2. PICK verdict \in {"ok", "failed", "thrown"} :
        /\ known[p] = "gone" => verdict = "thrown"
        /\ known' = IF verdict = "ok" THEN [known EXCEPT ![p] = "validated"] ELSE known
        /\ probes' = [probes EXCEPT ![n].state = "answered", ![n].verdict = verdict]
  BY <1>1 DEF profile_validate
<1>3. probes[n].state = "asked" /\ UNCHANGED <<listed, listFetch>>
  BY DEF profile_validate
<1>4. /\ probes \in [Probe -> ProbeRecord] /\ p \in Profile
      /\ known \in [Profile -> Standing] /\ listed \in [Profile -> Standing]
  BY <1>1, <1>3 DEF GateInv, ProbesFit
<1> DEFINE new == [of |-> p, why |-> probes[n].why, state |-> "answered", verdict |-> verdict,
                   cancelled |-> probes[n].cancelled]
<1>5. probes' = [probes EXCEPT ![n] = new]
  <2>1. probes' = [m \in Probe |-> probes'[m]] /\ \A m \in Probe : m # n => probes'[m] = probes[m]
    BY <1>2, <1>4
  <2>2. probes'[n] = [[probes[n] EXCEPT !.state = "answered"] EXCEPT !.verdict = verdict]
    BY <1>2, <1>4
  <2>3. probes[n] \in ProbeRecord
    BY <1>4
  <2>4. probes'[n] = new
    BY <1>1, <2>2, <2>3 DEF ProbeRecord
  <2> HIDE DEF new
  <2> QED
    BY <1>4, <2>1, <2>4
<1>6. /\ new \in ProbeRecord /\ new.of = p /\ new.why = probes[n].why
      /\ new.state = "answered" /\ new.verdict = verdict
  BY <1>1, <1>4 DEF ProbeRecord
<1> HIDE DEF new
<1>7. known' \in [Profile -> Standing] /\ \A q \in Profile : known'[q] = known[q] \/ known'[q] = "validated"
  BY <1>2, <1>4 DEF Standing
<1>8. ProbesFit'
  BY <1>3, <1>4, <1>5, <1>6, <1>7 DEF GateInv, ProbesFit
<1>9. TimersOpenNothing'
  <2> SUFFICES ASSUME NEW m \in Probe, probes'[m].why = "timer", probes'[m].state = "asked"
               PROVE  known'[probes'[m].of] \in {"validated", "gone"}
    BY DEF TimersOpenNothing
  <2>1. m # n /\ probes'[m] = probes[m]
    BY <1>4, <1>5, <1>6
  <2>2. probes[m].of \in Profile /\ known[probes[m].of] \in {"validated", "gone"}
    BY <2>1 DEF GateInv, ProbesFit, TimersOpenNothing
  <2> QED
    BY <1>7, <2>1, <2>2
<1>10. DifferencesAreOwed'
  <2> SUFFICES ASSUME ~listFetch, NEW q \in Profile, known'[q] # listed[q]
               PROVE  listed[q] = "new" /\ known'[q] = "validated" /\ \E m \in Probe : Explains(m, q)'
    BY <1>3 DEF DifferencesAreOwed
  <2>1. CASE known'[q] = known[q]
    <3>0. listed[q] = "new" /\ known[q] = "validated"
      BY <2>1 DEF GateInv, DifferencesAreOwed
    <3>1. PICK m \in Probe : Explains(m, q)
      BY <2>1 DEF GateInv, DifferencesAreOwed
    <3>2. m # n /\ probes'[m] = probes[m]
      BY <1>3, <1>4, <1>5, <3>1 DEF Explains
    <3> QED
      BY <2>1, <3>0, <3>1, <3>2 DEF Explains
  <2>2. CASE known'[q] # known[q]
    <3>1. q = p /\ verdict = "ok" /\ known[p] \notin {"validated", "gone"}
      BY <1>2, <1>4, <2>2
    <3>2. probes[n].why # "timer"
      BY <1>1, <1>3, <3>1 DEF GateInv, TimersOpenNothing
    <3>3. listed[q] = "new" /\ known'[q] = "validated"
      <4>1. known[q] = "new"
        BY <1>4, <3>1 DEF Standing
      <4>2. listed[q] = known[q]
        BY <1>3, <4>1 DEF GateInv, DifferencesAreOwed
      <4> QED
        BY <1>2, <1>4, <3>1, <4>1, <4>2
    <3> QED
      BY <1>4, <1>5, <1>6, <3>1, <3>2, <3>3 DEF Explains
  <2> QED
    BY <2>1, <2>2
<1> QED
  BY <1>8, <1>9, <1>10 DEF GateInv

\* What becomes of an answer.
LEMMA AnswersKeepTheGate ==
  ASSUME GateInv, NEW n \in Probe,
         ReportArrives(n) \/ Mark(n) \/ MenuAnswered(n) \/ EditorAnswered(n) \/ TimerAnswered(n)
  PROVE  GateInv'
<1> DEFINE R == Released(probes)
<1>1. probes \in [Probe -> ProbeRecord]
  BY DEF GateInv, ProbesFit
<1>2. /\ R \in [Probe -> ProbeRecord]
      /\ \A m \in Probe :
           /\ R[m].of = probes[m].of /\ R[m].why = probes[m].why
           /\ R[m].verdict = probes[m].verdict
           /\ R[m].state = IF probes[m].state = "listing" THEN "ready" ELSE probes[m].state
  BY <1>1, ReleasedKeeps
<1> HIDE DEF R
<1>3. PICK state \in {"listing", "over"}, Q \in {R, probes} :
        /\ probes' = [Q EXCEPT ![n].state = state]
        /\ listFetch' \/ (listFetch' = listFetch /\ Q = probes /\ state = "over")
  BY DEF ReportArrives, Mark, MenuAnswered, EditorAnswered, TimerAnswered, R
<1>4. /\ Q \in [Probe -> ProbeRecord]
      /\ \A m \in Probe : /\ Q[m].of = probes[m].of /\ Q[m].why = probes[m].why
                          /\ Q[m].verdict = probes[m].verdict
                          /\ Q[m].state = "asked" => probes[m].state = "asked"
                          /\ Q[m].state # "unused" => probes[m].state # "unused"
  BY <1>1, <1>2
<1>5. /\ probes' = [m \in Probe |-> probes'[m]]
      /\ probes'[n] = [Q[n] EXCEPT !.state = state]
      /\ \A m \in Probe : m # n => probes'[m] = Q[m]
  BY <1>3, <1>4
<1>6. /\ probes'[n] \in ProbeRecord
      /\ probes'[n].of = Q[n].of /\ probes'[n].why = Q[n].why
      /\ probes'[n].verdict = Q[n].verdict /\ probes'[n].state = state
  <2>1. Q[n] \in ProbeRecord
    BY <1>4
  <2> QED
    BY <1>5, <2>1 DEF ProbeRecord
<1>7. known' = known /\ listed' = listed /\ probes[n].state # "unused"
  BY DEF ReportArrives, Mark, MenuAnswered, EditorAnswered, TimerAnswered
<1>8. probes' \in [Probe -> ProbeRecord]
  BY <1>4, <1>5, <1>6
<1>9. \A m \in Probe : /\ probes'[m].of = probes[m].of /\ probes'[m].why = probes[m].why
                       /\ probes'[m].verdict = probes[m].verdict
                       /\ probes'[m].state = "asked" => probes[m].state = "asked"
                       /\ probes'[m].state # "unused" => probes[m].state # "unused"
  <2> SUFFICES ASSUME NEW m \in Probe
               PROVE  /\ probes'[m].of = probes[m].of /\ probes'[m].why = probes[m].why
                      /\ probes'[m].verdict = probes[m].verdict
                      /\ probes'[m].state = "asked" => probes[m].state = "asked"
                      /\ probes'[m].state # "unused" => probes[m].state # "unused"
    OBVIOUS
  <2>1. CASE m = n
    BY <1>4, <1>6, <1>7, <2>1
  <2>2. CASE m # n
    BY <1>4, <1>5, <2>2
  <2> QED
    BY <2>1, <2>2
<1>10. CASE listFetch'
  BY <1>7, <1>8, <1>9, <1>10, MovingKeeps
<1>11. CASE ~listFetch'
  <2>1. listFetch' = listFetch /\ Q = probes /\ probes'[n].state = "over"
    BY <1>3, <1>6, <1>11
  <2>2. Explains(n, probes[n].of) => probes[n].why = "editor"
    BY <1>11 DEF Explains, ReportArrives, Mark, MenuAnswered, EditorAnswered, TimerAnswered
  <2>3. \A m \in Probe : Explains(m, probes[m].of) =>
          probes'[m].state \in {"answered"} \cup (IF probes[m].why = "editor" THEN {"over"} ELSE {})
    BY <1>5, <2>1, <2>2 DEF Explains
  <2> QED
    BY <1>7, <1>8, <1>9, <2>1, <2>3, MovingKeeps
<1> QED
  BY <1>10, <1>11

LEMMA GateInvAlways == ValidationSpec => []GateInv
<1>1. ValidationInit => GateInv
  <2> SUFFICES ASSUME ValidationInit PROVE GateInv
    OBVIOUS
  <2>1. NoProbe \in ProbeRecord /\ NoProbe.state = "unused"
    BY DEF NoProbe, ProbeRecord, Reason
  <2>2. \A n \in Probe : probes[n] = NoProbe
    BY DEF ValidationInit
  <2>3. ProbesFit
    BY <2>1, <2>2 DEF ValidationInit, ProbesFit, Standing
  <2> QED
    BY <2>1, <2>2, <2>3 DEF ValidationInit, GateInv, TimersOpenNothing, DifferencesAreOwed
<1>2. GateInv /\ [ValidationNext]_validationVars => GateInv'
  <2> SUFFICES ASSUME GateInv, [ValidationNext]_validationVars PROVE GateInv'
    OBVIOUS
  <2>0. probes \in [Probe -> ProbeRecord]
    BY DEF GateInv, ProbesFit
  <2>1. CASE UNCHANGED validationVars
    BY <2>1 DEF validationVars, GateInv, ProbesFit, TimersOpenNothing, DifferencesAreOwed, Explains
  <2>2. CASE ListArrives
    <3>1. probes' = Released(probes) /\ known' = known /\ listed' = known
      BY <2>2 DEF ListArrives
    <3>2. /\ probes' \in [Probe -> ProbeRecord]
          /\ \A n \in Probe : /\ probes'[n].of = probes[n].of /\ probes'[n].why = probes[n].why
                              /\ probes'[n].state =
                                   IF probes[n].state = "listing" THEN "ready" ELSE probes[n].state
      BY <2>0, <3>1, ReleasedKeeps
    <3> QED
      BY <3>1, <3>2 DEF GateInv, ProbesFit, TimersOpenNothing, DifferencesAreOwed
  <2>3. CASE \E p \in Profile : ProfileDeleted(p)
    <3>1. PICK p \in Profile : ProfileDeleted(p)
      BY <2>3
    <3>2. /\ probes' = Released(probes) /\ known' = [known EXCEPT ![p] = "gone"]
          /\ listed' = listed /\ listFetch' = TRUE
      BY <3>1 DEF ProfileDeleted
    <3>3. /\ probes' \in [Probe -> ProbeRecord]
          /\ \A n \in Probe : /\ probes'[n].of = probes[n].of /\ probes'[n].why = probes[n].why
                              /\ probes'[n].state =
                                   IF probes[n].state = "listing" THEN "ready" ELSE probes[n].state
      BY <2>0, <3>2, ReleasedKeeps
    <3>4. known' \in [Profile -> Standing] /\ \A q \in Profile : known'[q] = known[q] \/ known'[q] = "gone"
      BY <3>2 DEF GateInv, ProbesFit, Standing
    <3>5. ProbesFit'
      BY <3>2, <3>3, <3>4 DEF GateInv, ProbesFit
    <3>6. TimersOpenNothing'
      BY <3>3, <3>4 DEF GateInv, ProbesFit, TimersOpenNothing
    <3> QED
      BY <3>2, <3>5, <3>6 DEF GateInv, DifferencesAreOwed
  <2>4. CASE ViewMounts
    BY <2>4 DEF ViewMounts, GateInv, ProbesFit, TimersOpenNothing, DifferencesAreOwed, Explains
  <2>5. CASE usePeriodicProfileRefresh
    BY <2>5, RoundKeeps
  <2>6. CASE TogglePeriodicRefresh
    <3>1. /\ probes' \in [Probe -> ProbeRecord]
          /\ \A n \in Probe : /\ probes'[n].of = probes[n].of /\ probes'[n].why = probes[n].why
                              /\ probes'[n].state = probes[n].state
                              /\ probes'[n].verdict = probes[n].verdict
      BY <2>0, <2>6 DEF TogglePeriodicRefresh, ProbeRecord
    <3>2. UNCHANGED <<known, listed, listFetch>>
      BY <2>6 DEF TogglePeriodicRefresh
    <3> QED
      BY <3>1, <3>2 DEF GateInv, ProbesFit, TimersOpenNothing, DifferencesAreOwed, Explains
  <2>7. ASSUME NEW n \in Probe, NEW p \in Profile, useValidatedProfile(n, p) PROVE GateInv'
    BY <2>7, AskingKeeps DEF useValidatedProfile, Reason
  <2>8. ASSUME NEW n \in Probe, NEW p \in Profile, validateMutation(n, p) \/ handleValidate(n, p)
        PROVE  GateInv'
    BY <2>8, AskingKeeps DEF validateMutation, handleValidate, ByHand, Reason
  <2>9. ASSUME NEW n \in Probe, NEW p \in Profile, NEW q \in QueryKey, handleAuthError(n, p, q)
        PROVE  GateInv'
    BY <2>9, AskingKeeps DEF handleAuthError, Reason
  <2> QED
    BY <2>1, <2>2, <2>3, <2>4, <2>5, <2>6, <2>7, <2>8, <2>9, VerdictKeeps, AnswersKeepTheGate
       DEF ValidationNext
<1> QED
  BY <1>1, <1>2, PTL DEF ValidationSpec

\* Once nothing is under way, the list that opens and closes the gate says
\* what the backend says, save of a profile that the editor's probe has
\* validated, whose gate stays shut (hooks/useValidatedProfile.ts,
\* hooks/usePeriodicProfileRefresh.ts, Profiles.tsx, ProfileEditor.tsx).
THEOREM GateTellsTheTruth == ValidationSpec => []GateIsTrue
<1>1. GateInv => GateIsTrue
  <2> SUFFICES ASSUME GateInv, ~listFetch, \A n \in Probe : ~Unfinished(n),
                      NEW p \in Profile, known[p] # listed[p]
               PROVE  LeftShut(p)
    BY DEF GateIsTrue
  <2>1. listed[p] = "new" /\ known[p] = "validated"
    BY DEF GateInv, DifferencesAreOwed
  <2>2. PICK n \in Probe : Explains(n, p)
    BY DEF GateInv, DifferencesAreOwed
  <2> QED
    BY <2>1, <2>2 DEF LeftShut, Explains, Unfinished
<1> QED
  BY <1>1, GateInvAlways, PTL

\* The rest of the state of the gate is of its type as well.
LEMMA ValidationTypesAlways == ValidationSpec => []ValidationTypeOK
<1> DEFINE Status == {"idle", "validating", "ok", "error"}
           Rest == /\ listFetch \in BOOLEAN
                   /\ statuses \in [Profile -> Status]
                   /\ firedFor \subseteq Profile /\ recoveryAttempts \subseteq Profile \X QueryKey
<1>1. ValidationInit => Rest
  BY DEF ValidationInit
<1>2. Rest /\ [ValidationNext]_validationVars => Rest'
  <2> SUFFICES ASSUME Rest, [ValidationNext]_validationVars PROVE Rest'
    OBVIOUS
  <2>1. CASE UNCHANGED validationVars
    BY <2>1 DEF validationVars
  <2>2. \A p : startValidating(p) \in [Profile -> Status]
    BY DEF startValidating
  <2>3. \A n \in Probe : Marked(n) \in [Profile -> Status]
    BY DEF Marked
  <2>4. CASE ListArrives \/ ViewMounts \/ TogglePeriodicRefresh
    BY <2>4 DEF ListArrives, ViewMounts, TogglePeriodicRefresh
  <2>5. CASE usePeriodicProfileRefresh
    BY <2>5 DEF usePeriodicProfileRefresh
  <2>6. ASSUME NEW p \in Profile, ProfileDeleted(p) PROVE Rest'
    BY <2>6 DEF ProfileDeleted
  <2>7. ASSUME NEW n \in Probe, NEW p \in Profile,
               useValidatedProfile(n, p) \/ validateMutation(n, p) \/ handleValidate(n, p)
        PROVE  Rest'
    BY <2>2, <2>7 DEF useValidatedProfile, validateMutation, handleValidate, ByHand
  <2>8. ASSUME NEW n \in Probe, NEW p \in Profile, NEW q \in QueryKey, handleAuthError(n, p, q)
        PROVE  Rest'
    BY <2>2, <2>8 DEF handleAuthError
  <2>9. ASSUME NEW n \in Probe, profile_validate(n) \/ ReportArrives(n) PROVE Rest'
    BY <2>9 DEF profile_validate, ReportArrives
  <2>10. ASSUME NEW n \in Probe, Mark(n) \/ MenuAnswered(n) \/ EditorAnswered(n) \/ TimerAnswered(n)
         PROVE  Rest'
    BY <2>3, <2>10 DEF Mark, MenuAnswered, EditorAnswered, TimerAnswered
  <2> QED
    BY <2>1, <2>4, <2>5, <2>6, <2>7, <2>8, <2>9, <2>10 DEF ValidationNext
<1>3. GateInv /\ Rest => ValidationTypeOK
  BY DEF GateInv, ProbesFit, ProbeRecord, ValidationTypeOK
<1> HIDE DEF Rest
<1> QED
  BY <1>1, <1>2, <1>3, GateInvAlways, PTL DEF ValidationSpec

-----------------------------------------------------------------------------
(* The form of a profile.                                                  *)

\* Whatever is filled into a form makes a form; one that was filled stays.
LEMMA SeededIsAForm ==
  ASSUME NEW f \in Form, NEW detail \in Fields \cup {NoDetail}
  PROVE  Seeded(f, detail) \in Form /\ (f.seeded => Seeded(f, detail) = f)
<1>1. CASE f.seeded \/ detail = NoDetail
  BY <1>1 DEF Seeded
<1>2. CASE ~f.seeded /\ detail # NoDetail
  <2>1. detail \in Values
    BY <1>2 DEF Fields, Values
  <2> DEFINE a == [f EXCEPT !.seeded = TRUE]
             b == [a EXCEPT !.values = detail]
             c == [b EXCEPT !.seed = detail]
             d == [c EXCEPT !.touched = {}]
  <2>2. a \in Form
    BY DEF Form
  <2> HIDE DEF a
  <2>3. b \in Form
    BY <2>1, <2>2 DEF Form
  <2> HIDE DEF b
  <2>4. c \in Form
    BY <2>1, <2>3 DEF Form
  <2> HIDE DEF c
  <2>5. d \in Form
    BY <2>4 DEF Form
  <2>6. Seeded(f, detail) = [f EXCEPT !.seeded = TRUE, !.values = detail, !.seed = detail,
                                      !.touched = {}]
    BY <1>2 DEF Seeded
  <2>7. d = Seeded(f, detail)
    BY <2>6, Zenon DEF a, b, c, d
  <2> HIDE DEF d
  <2> QED
    BY <1>2, <2>5, <2>7
<1> QED
  BY <1>1, <1>2

LEMMA OpenIsAForm ==
  ASSUME ProfileEditorTypeOK
  PROVE  IsOpen <=> form \in Form
<1>1. ClosedForm \notin Form
  <2>1. ClosedForm.id = 0
    BY DEF ClosedForm
  <2>2. \A f \in Form : f.id \in 1 .. MaxForms
    BY DEF Form
  <2>3. \A n \in 1 .. MaxForms : n # 0
    BY ProfileEditorAssumption
  <2> QED
    BY <2>1, <2>2, <2>3
<1> QED
  BY <1>1 DEF ProfileEditorTypeOK, IsOpen

\* The form, in a step that is not its opening or its filling.
LEMMA TypingKeeps ==
  ASSUME ProfileEditorTypeOK, NEW field \in {"name", "flags"},
         NEW value \in IF field = "name" THEN ProfileName ELSE CompatFlags \cup {NoFlags},
         formReducer(field, value)
  PROVE  form' \in Form
<1>1. form \in Form
  BY OpenIsAForm DEF formReducer
<1> DEFINE values == [form.values EXCEPT ![field] = value]
           touched == form.touched \cup {field}
           a == [form EXCEPT !.values = values]
           b == [a EXCEPT !.touched = touched]
<1>2. form.values \in Values /\ form.touched \in SUBSET {"name", "flags"}
  BY <1>1 DEF Form
<1>3. values \in Values
  BY <1>2 DEF Values
<1>4. touched \in SUBSET {"name", "flags"}
  BY <1>2
<1>5. form' = [form EXCEPT !.values[field] = value, !.touched = @ \cup {field}]
  BY DEF formReducer
<1>6. form' = [form EXCEPT !.values = values, !.touched = touched]
  BY <1>1, <1>5 DEF Form
<1> HIDE DEF values, touched
<1>7. a \in Form
  BY <1>1, <1>3 DEF Form
<1>8. form' = b
  BY <1>6, Zenon
<1> HIDE DEF a
<1>9. b \in Form
  BY <1>4, <1>7 DEF Form
<1> QED
  BY <1>8, <1>9

SaveRecord == [id : 1 .. MaxForms, of : EditedProfile, patch : Fields,
               state : {"sent", "stored", "refused"}]

LEMMA EditorTypesKeep ==
  ASSUME ProfileEditorTypeOK, [ProfileEditorNext]_profileEditorVars
  PROVE  ProfileEditorTypeOK'
<1>1. /\ stored \in [EditedProfile -> Fields]
      /\ details \in [EditedProfile -> Fields \cup {NoDetail}]
      /\ detailFetch \subseteq EditedProfile
      /\ form \in Form \cup {ClosedForm}
      /\ saves \subseteq SaveRecord
      /\ forms \in 0 .. MaxForms
  BY DEF ProfileEditorTypeOK, SaveRecord
<1>2. ClosedForm' = ClosedForm /\ Form' = Form
  OBVIOUS
<1>3. CASE UNCHANGED profileEditorVars
  BY <1>3 DEF profileEditorVars, ProfileEditorTypeOK
<1>4. ASSUME NEW p \in EditedProfile, handleEdit(p) PROVE ProfileEditorTypeOK'
  <2> DEFINE f == [id |-> forms + 1, of |-> p, seeded |-> FALSE, values |-> initialForm,
                   seed |-> initialForm, touched |-> {}, error |-> FALSE]
  <2>1. /\ forms' = forms + 1 /\ forms' \in 1 .. MaxForms
        /\ form' = Seeded(f, details[p])
        /\ detailFetch' \subseteq detailFetch \cup {p}
        /\ UNCHANGED <<stored, details, saves>>
    BY <1>1, <1>4, ProfileEditorAssumption DEF handleEdit
  <2>2. initialForm \in Values
    BY DEF initialForm, Values
  <2>3. f \in Form
    BY <2>1, <2>2 DEF Form
  <2> HIDE DEF f
  <2>4. form' \in Form
    BY <1>1, <2>1, <2>3, SeededIsAForm
  <2> QED
    BY <1>1, <2>1, <2>4 DEF ProfileEditorTypeOK, SaveRecord
<1>5. ASSUME NEW p \in EditedProfile, DetailArrives(p) PROVE ProfileEditorTypeOK'
  <2>1. /\ detailFetch' = detailFetch \ {p} /\ details' = [details EXCEPT ![p] = stored[p]]
        /\ form' = IF IsOpen => form.of # p THEN form ELSE Seeded(form, stored[p])
        /\ UNCHANGED <<stored, saves, forms>>
    BY <1>5 DEF DetailArrives
  <2>2. stored[p] \in Fields
    BY <1>1
  <2>3. form' \in Form \cup {ClosedForm}
    BY <1>1, <2>1, <2>2, OpenIsAForm, SeededIsAForm
  <2>4. details' \in [EditedProfile -> Fields \cup {NoDetail}]
    BY <1>1, <2>1, <2>2
  <2> QED
    BY <1>1, <2>1, <2>3, <2>4 DEF ProfileEditorTypeOK, SaveRecord
<1>6. ASSUME NEW p \in EditedProfile, DetailForgotten(p) PROVE ProfileEditorTypeOK'
  BY <1>1, <1>6 DEF DetailForgotten, ProfileEditorTypeOK
<1>7. ASSUME NEW n \in ProfileName, formReducer("name", n) PROVE ProfileEditorTypeOK'
  <2>1. form' \in Form
    BY <1>7, TypingKeeps
  <2> QED
    BY <1>1, <1>7, <2>1 DEF formReducer, ProfileEditorTypeOK, SaveRecord
<1>8. ASSUME NEW r \in CompatFlags \cup {NoFlags}, formReducer("flags", r)
      PROVE  ProfileEditorTypeOK'
  <2>1. form' \in Form
    BY <1>8, TypingKeeps
  <2> QED
    BY <1>1, <1>8, <2>1 DEF formReducer, ProfileEditorTypeOK, SaveRecord
<1>9. CASE handleSubmit
  <2> DEFINE s == [id |-> form.id, of |-> form.of, patch |-> form.values, state |-> "sent"]
  <2>1. form \in Form
    BY <1>9, OpenIsAForm DEF handleSubmit
  <2>2. form.id \in 1 .. MaxForms /\ form.of \in EditedProfile /\ form.values \in Values
    BY <2>1 DEF Form
  <2>3. form.values \in Fields
    BY <1>9, <2>2 DEF handleSubmit, Values, Fields
  <2>4. s \in SaveRecord
    BY <2>2, <2>3 DEF SaveRecord
  <2>5. form' \in Form
    BY <1>9, <2>1 DEF handleSubmit, Form
  <2>6. saves' = saves \cup {s} /\ UNCHANGED <<stored, details, detailFetch, forms>>
    BY <1>9 DEF handleSubmit
  <2> HIDE DEF s
  <2> QED
    BY <1>1, <2>4, <2>5, <2>6 DEF ProfileEditorTypeOK, SaveRecord
<1>10. CASE onClose
  BY <1>1, <1>10 DEF onClose, ProfileEditorTypeOK
<1>11. ASSUME NEW s \in saves, profileUpdate(s) PROVE ProfileEditorTypeOK'
  <2>1. s \in SaveRecord /\ s.of \in EditedProfile /\ s.patch \in Fields
    BY <1>1 DEF SaveRecord
  <2>2. \E state \in {"stored", "refused"} : saves' = (saves \ {s}) \cup {[s EXCEPT !.state = state]}
    BY <1>11 DEF profileUpdate
  <2>3. saves' \subseteq SaveRecord
    BY <1>1, <2>1, <2>2 DEF SaveRecord
  <2>4. stored' \in [EditedProfile -> Fields]
    <3> DEFINE new == [name |-> s.patch.name,
                       flags |-> IF s.patch.flags = NoFlags THEN stored[s.of].flags ELSE s.patch.flags]
    <3>1. stored' = [stored EXCEPT ![s.of] = new] \/ stored' = stored
      BY <1>1, <1>11 DEF profileUpdate
    <3>2. stored[s.of] \in Fields
      BY <1>1, <2>1
    <3>3. new \in Fields
      BY <2>1, <3>2 DEF Fields
    <3> HIDE DEF new
    <3> QED
      BY <1>1, <2>1, <3>1, <3>3
  <2> QED
    BY <1>1, <1>11, <2>3, <2>4 DEF profileUpdate, ProfileEditorTypeOK, SaveRecord
<1>12. ASSUME NEW s \in saves, SubmitAnswers(s) PROVE ProfileEditorTypeOK'
  <2>1. s.of \in EditedProfile
    BY <1>1 DEF SaveRecord
  <2>2. form' \in Form \cup {ClosedForm}
    BY <1>1, <1>12, OpenIsAForm DEF SubmitAnswers, Form
  <2>3. IsOpen => form.of \in EditedProfile
    BY OpenIsAForm DEF Form
  <2>4. detailFetch' \subseteq EditedProfile
    BY <1>1, <1>12, <2>1, <2>3 DEF SubmitAnswers
  <2> QED
    BY <1>1, <1>12, <2>2, <2>4 DEF SubmitAnswers, ProfileEditorTypeOK, SaveRecord
<1> QED
  BY <1>3, <1>4, <1>5, <1>6, <1>7, <1>8, <1>9, <1>10, <1>11, <1>12 DEF ProfileEditorNext

LEMMA EditorTypesAlways == ProfileEditorSpec => []ProfileEditorTypeOK
<1>1. ProfileEditorInit => ProfileEditorTypeOK
  <2> SUFFICES ASSUME ProfileEditorInit PROVE ProfileEditorTypeOK
    OBVIOUS
  <2>1. PICK n \in ProfileName, r \in CompatFlags :
          stored = [p \in EditedProfile |-> [name |-> n, flags |-> r]]
    BY DEF ProfileEditorInit
  <2>2. [name |-> n, flags |-> r] \in Fields
    BY DEF Fields
  <2> QED
    BY <2>1, <2>2, ProfileEditorAssumption DEF ProfileEditorInit, ProfileEditorTypeOK
<1> QED
  BY <1>1, EditorTypesKeep, PTL DEF ProfileEditorSpec

\* Once a form is filled, nothing that arrives from the backend replaces what
\* was typed into it (views/settings/ProfileEditor.tsx).
THEOREM TypedStays == ProfileEditorSpec => TypedIsKept
<1> DEFINE Kept == form' # form /\ IsOpen /\ form.seeded /\ form' # ClosedForm
                     /\ form'.values # form.values => UNCHANGED <<details, detailFetch, saves>>
<1>1. ProfileEditorTypeOK /\ [ProfileEditorNext]_profileEditorVars => [Kept]_profileEditorVars
  <2> SUFFICES ASSUME ProfileEditorTypeOK, ProfileEditorNext, IsOpen, form.seeded,
                      form' # form, form' # ClosedForm, form'.values # form.values
               PROVE  UNCHANGED <<details, detailFetch, saves>>
    BY Zenon
  <2>1. form \in Form
    BY OpenIsAForm
  <2>2. ASSUME NEW p \in EditedProfile, handleEdit(p) PROVE FALSE
    BY <2>2 DEF handleEdit
  <2>3. ASSUME NEW p \in EditedProfile, DetailArrives(p) PROVE FALSE
    <3>1. stored[p] \in Fields \cup {NoDetail}
      BY DEF ProfileEditorTypeOK
    <3> QED
      BY <2>1, <2>3, <3>1, SeededIsAForm DEF DetailArrives
  <2>4. ASSUME NEW p \in EditedProfile, DetailForgotten(p) PROVE FALSE
    BY <2>4 DEF DetailForgotten
  <2>5. ASSUME NEW field, NEW value, formReducer(field, value)
        PROVE  UNCHANGED <<details, detailFetch, saves>>
    BY <2>5 DEF formReducer
  <2>6. \A e : [form EXCEPT !.error = e].values = form.values
    BY <2>1 DEF Form
  <2>7. CASE handleSubmit
    BY <2>6, <2>7 DEF handleSubmit
  <2>8. CASE onClose
    BY <2>8 DEF onClose
  <2>9. ASSUME NEW s \in saves, profileUpdate(s) PROVE FALSE
    BY <2>9 DEF profileUpdate
  <2>10. ASSUME NEW s \in saves, SubmitAnswers(s) PROVE FALSE
    BY <2>6, <2>10 DEF SubmitAnswers
  <2> QED
    BY <2>2, <2>3, <2>4, <2>5, <2>7, <2>8, <2>9, <2>10 DEF ProfileEditorNext
<1> QED
  BY <1>1, EditorTypesAlways, PTL DEF ProfileEditorSpec, TypedIsKept

-----------------------------------------------------------------------------
(* The settings store.                                                     *)

IsUpdate(u) ==
  u = [n |-> u.n, patch |-> u.patch, previous |-> u.previous,
       mine |-> u.mine, status |-> u.status, answer |-> u.answer]

\* The parts of an answer that matter are the backend's, unless another save
\* has overtaken it.
CallFits(u) ==
  u.n \notin belated =>
    IF u.status = "taken" THEN u.answer = saved ELSE u.previous \in {NotLoaded, saved}

\* Every call has a number of its own; settings_get has 0.
UpdatesFit ==
  /\ \A u \in updates : /\ IsUpdate(u) /\ u.status \in {"sent", "taken", "refused"}
                        /\ u.n \in Nat \ {0} /\ u.n <= sent
  /\ \A u, v \in updates : u.n = v.n => u = v
  /\ \A u \in updates : CallFits(u)

StoreInv ==
  /\ UpdatesFit
  /\ sent \in Nat
  /\ got = NotLoaded \/ 0 \in belated \/ got = saved
  /\ updates = {} /\ ~astray => settings \in {NotLoaded, saved}

\* A call is orphaned when its panel is left: nothing else of it changes.
LEMMA OrphansAreThemselves ==
  ASSUME NEW us, \A u \in us : IsUpdate(u)
  PROVE  \E no :
         /\ Orphaned(us) = {[u EXCEPT !.mine = no] : u \in us}
         /\ \A u \in us :
              /\ IsUpdate([u EXCEPT !.mine = no])
              /\ [u EXCEPT !.mine = no].n = u.n
              /\ [u EXCEPT !.mine = no].status = u.status
              /\ [u EXCEPT !.mine = no].previous = u.previous
              /\ [u EXCEPT !.mine = no].answer = u.answer
<1>1. PICK no : no = FALSE
  OBVIOUS
<1>2. Orphaned(us) = {[u EXCEPT !.mine = no] : u \in us}
  BY <1>1, Zenon DEF Orphaned
<1> SUFFICES ASSUME NEW u \in us
             PROVE  /\ IsUpdate([u EXCEPT !.mine = no])
                    /\ [u EXCEPT !.mine = no].n = u.n
                    /\ [u EXCEPT !.mine = no].status = u.status
                    /\ [u EXCEPT !.mine = no].previous = u.previous
                    /\ [u EXCEPT !.mine = no].answer = u.answer
  BY <1>2
<1>3. [u EXCEPT !.mine = no] =
        [n |-> u.n, patch |-> u.patch, previous |-> u.previous, mine |-> no,
         status |-> u.status, answer |-> u.answer]
  BY DEF IsUpdate
<1> QED
  BY <1>3 DEF IsUpdate

\* Orphaning what is left of the calls disturbs none of them.
LEMMA OrphanedCallsFit ==
  ASSUME UpdatesFit, NEW us \in SUBSET updates, updates' = Orphaned(us),
         UNCHANGED <<saved, sent>>, \A u \in us : u.n \in belated => u.n \in belated'
  PROVE  UpdatesFit'
<1>0. \A u \in us : IsUpdate(u)
  BY DEF UpdatesFit
<1>1. PICK no :
        /\ updates' = {[u EXCEPT !.mine = no] : u \in us}
        /\ \A u \in us :
              /\ IsUpdate([u EXCEPT !.mine = no])
              /\ [u EXCEPT !.mine = no].n = u.n
              /\ [u EXCEPT !.mine = no].status = u.status
              /\ [u EXCEPT !.mine = no].previous = u.previous
              /\ [u EXCEPT !.mine = no].answer = u.answer
  <2>1. \E no :
          /\ Orphaned(us) = {[u EXCEPT !.mine = no] : u \in us}
          /\ \A u \in us :
                /\ IsUpdate([u EXCEPT !.mine = no])
                /\ [u EXCEPT !.mine = no].n = u.n
                /\ [u EXCEPT !.mine = no].status = u.status
                /\ [u EXCEPT !.mine = no].previous = u.previous
                /\ [u EXCEPT !.mine = no].answer = u.answer
    BY <1>0, OrphansAreThemselves, Zenon
  <2> QED
    BY <2>1, Zenon
<1> DEFINE orphan(u) == [u EXCEPT !.mine = no]
<1> HIDE DEF orphan
<1>2. /\ updates' = {orphan(u) : u \in us}
      /\ \A u \in us : /\ IsUpdate(orphan(u)) /\ orphan(u).status = u.status /\ orphan(u).n = u.n
                       /\ orphan(u).previous = u.previous /\ orphan(u).answer = u.answer
  BY <1>1 DEF orphan
<1>3. \A v \in updates' : /\ IsUpdate(v) /\ v.status \in {"sent", "taken", "refused"}
                          /\ v.n \in Nat \ {0} /\ v.n <= sent'
  BY <1>2 DEF UpdatesFit
<1>4. \A u, v \in updates' : u.n = v.n => u = v
  <2> SUFFICES ASSUME NEW u \in us, NEW v \in us, orphan(u).n = orphan(v).n
               PROVE  orphan(u) = orphan(v)
    BY <1>2
  <2>1. u = v
    BY <1>2 DEF UpdatesFit
  <2> QED
    BY <2>1
<1>5. \A v \in updates' : v.n \notin belated' =>
         IF v.status = "taken" THEN v.answer = saved' ELSE v.previous \in {NotLoaded, saved'}
  BY <1>2 DEF UpdatesFit, CallFits
<1> QED
  BY <1>3, <1>4, <1>5 DEF UpdatesFit, CallFits

LEMMA OrphaningKeeps ==
  ASSUME StoreInv, updates' = Orphaned(updates),
         UNCHANGED <<saved, settings, sent, got, belated, astray>>
  PROVE  StoreInv'
<1>1. UpdatesFit'
  BY OrphanedCallsFit DEF StoreInv
<1>2. updates' = {} => updates = {}
  BY DEF Orphaned
<1> QED
  BY <1>1, <1>2 DEF StoreInv

\* An update is sent.  When it is the only one, and the store has not strayed,
\* what it would put back is what the backend has.
LEMMA SendingKeeps ==
  ASSUME StoreInv, NEW patch, NEW mine, update(patch, mine)
  PROVE  StoreInv'
<1> DEFINE m == sent + 1
           u == [n |-> m, patch |-> patch, previous |-> settings,
                 mine |-> mine, status |-> "sent", answer |-> settings]
<1>1. /\ updates' = updates \cup {u} /\ sent' = m
      /\ UNCHANGED <<saved, got, astray>>
      /\ belated' = IF updates = {} /\ ~astray THEN belated ELSE belated \cup {m}
  BY DEF update
<1>2. IsUpdate(u) /\ u.status = "sent" /\ u.previous = settings /\ u.n = m
  BY DEF IsUpdate
<1>3. sent \in Nat /\ m \in Nat \ {0} /\ sent < m
  BY DEF StoreInv
<1> HIDE DEF u, m
<1>4. \A v \in updates : v.n \in Nat \ {0} /\ v.n <= m /\ v.n # m
  BY <1>3 DEF StoreInv, UpdatesFit
<1>5. u.n \notin belated' =>
        IF u.status = "taken" THEN u.answer = saved' ELSE u.previous \in {NotLoaded, saved'}
  <2>1. u.n \notin belated' => updates = {} /\ ~astray
    BY <1>1, <1>2
  <2>2. u.n \notin belated' => u.previous \in {NotLoaded, saved'}
    BY <1>1, <1>2, <2>1 DEF StoreInv
  <2>3. u.status # "taken"
    BY <1>2
  <2> QED
    BY <2>2, <2>3
<1>6. \A v \in updates : v.n \notin belated' =>
        IF v.status = "taken" THEN v.answer = saved' ELSE v.previous \in {NotLoaded, saved'}
  BY <1>1 DEF StoreInv, UpdatesFit, CallFits
<1>7. \A v, w \in updates' : v.n = w.n => v = w
  BY <1>1, <1>2, <1>4 DEF StoreInv, UpdatesFit
<1>8. \A v \in updates' : /\ IsUpdate(v) /\ v.status \in {"sent", "taken", "refused"}
                          /\ v.n \in Nat \ {0} /\ v.n <= sent'
  BY <1>1, <1>2, <1>3, <1>4 DEF StoreInv, UpdatesFit
<1>9. UpdatesFit'
  BY <1>1, <1>5, <1>6, <1>7, <1>8 DEF UpdatesFit, CallFits
<1> QED
  BY <1>1, <1>3, <1>9 DEF StoreInv

\* The backend takes a call: every other answer is of before.
LEMMA TakingKeeps ==
  ASSUME StoreInv, NEW u \in updates,
         updates' = (updates \ {u}) \cup {[u EXCEPT !.status = "taken", !.answer = saved']},
         belated' = (belated \cup {v.n : v \in updates} \cup {0}) \ {u.n},
         UNCHANGED <<settings, sent, got, astray>>
  PROVE  StoreInv'
<1> DEFINE v == [n |-> u.n, patch |-> u.patch, previous |-> u.previous,
                 mine |-> u.mine, status |-> "taken", answer |-> saved']
<1>0. IsUpdate(u)
  BY DEF StoreInv, UpdatesFit
<1>1. [u EXCEPT !.status = "taken", !.answer = saved'] = v
  <2>1. [u EXCEPT !.status = "taken"]
          = [n |-> u.n, patch |-> u.patch, previous |-> u.previous,
             mine |-> u.mine, status |-> "taken", answer |-> u.answer]
    BY <1>0 DEF IsUpdate
  <2>2. [[n |-> u.n, patch |-> u.patch, previous |-> u.previous,
          mine |-> u.mine, status |-> "taken", answer |-> u.answer] EXCEPT !.answer = saved'] = v
    OBVIOUS
  <2> HIDE DEF v
  <2> QED
    BY <2>1, <2>2, Zenon
<1>2. IsUpdate(v) /\ v.status = "taken" /\ v.answer = saved' /\ v.n = u.n
  BY DEF IsUpdate
<1>3. updates' = (updates \ {u}) \cup {v}
  BY <1>1, Zenon
<1> HIDE DEF v
<1>4. \A w \in updates : w.n \in Nat \ {0} /\ w.n <= sent
  BY DEF StoreInv, UpdatesFit
<1>5. \A w \in updates \ {u} : w.n # u.n /\ w.n \in belated'
  BY DEF StoreInv, UpdatesFit
<1>6. \A w \in updates' : CallFits(w)'
  BY <1>2, <1>3, <1>5 DEF CallFits
<1>7. \A w, x \in updates' : w.n = x.n => w = x
  BY <1>2, <1>3, <1>5 DEF StoreInv, UpdatesFit
<1>8. \A w \in updates' : /\ IsUpdate(w) /\ w.status \in {"sent", "taken", "refused"}
                          /\ w.n \in Nat \ {0} /\ w.n <= sent'
  BY <1>2, <1>3, <1>4 DEF StoreInv, UpdatesFit
<1>9. 0 \in belated'
  BY <1>4
<1>10. updates' # {}
  BY <1>3
<1> QED
  BY <1>6, <1>7, <1>8, <1>9, <1>10 DEF StoreInv, UpdatesFit

\* Or refuses it.
LEMMA RefusingKeeps ==
  ASSUME StoreInv, NEW u \in updates, u.status = "sent",
         updates' = (updates \ {u}) \cup {[u EXCEPT !.status = "refused"]},
         UNCHANGED <<saved, settings, sent, got, belated, astray>>
  PROVE  StoreInv'
<1> DEFINE v == [n |-> u.n, patch |-> u.patch, previous |-> u.previous,
                 mine |-> u.mine, status |-> "refused", answer |-> u.answer]
<1>0. IsUpdate(u)
  BY DEF StoreInv, UpdatesFit
<1>1. [u EXCEPT !.status = "refused"] = v
  BY <1>0 DEF IsUpdate
<1>2. IsUpdate(v) /\ v.status = "refused" /\ v.previous = u.previous /\ v.n = u.n
  BY DEF IsUpdate
<1>3. updates' = (updates \ {u}) \cup {v}
  BY <1>1
<1> HIDE DEF v
<1>4. \A w \in updates' : CallFits(w)'
  BY <1>2, <1>3 DEF StoreInv, UpdatesFit, CallFits
<1>5. \A w, x \in updates' : w.n = x.n => w = x
  BY <1>2, <1>3 DEF StoreInv, UpdatesFit
<1>6. \A w \in updates' : /\ IsUpdate(w) /\ w.status \in {"sent", "taken", "refused"}
                          /\ w.n \in Nat \ {0} /\ w.n <= sent'
  BY <1>2, <1>3 DEF StoreInv, UpdatesFit
<1>7. updates' # {}
  BY <1>3
<1> QED
  BY <1>4, <1>5, <1>6, <1>7 DEF StoreInv, UpdatesFit

LEMMA VerdictKeepsTheStore ==
  ASSUME StoreInv, BackendUpdates
  PROVE  StoreInv'
<1>1. PICK u \in updates :
        /\ u.status = "sent"
        /\ \/ /\ saved' = settingsUpdate(saved, u.patch)
              /\ updates' = (updates \ {u}) \cup {[u EXCEPT !.status = "taken", !.answer = saved']}
              /\ belated' = (belated \cup {v.n : v \in updates} \cup {0}) \ {u.n}
           \/ /\ updates' = (updates \ {u}) \cup {[u EXCEPT !.status = "refused"]}
              /\ UNCHANGED <<saved, belated>>
  BY DEF BackendUpdates
<1>2. UNCHANGED <<settings, sent, got, astray>>
  BY DEF BackendUpdates
<1> QED
  BY <1>1, <1>2, TakingKeeps, RefusingKeeps

\* The answers.
LEMMA AnswersKeepTheStore ==
  ASSUME StoreInv, UpdateTaken \/ UpdateRefused
  PROVE  StoreInv'
<1>1. UNCHANGED <<saved, sent, got>>
  BY DEF UpdateTaken, UpdateRefused
<1>2. \A u \in updates : u.n # 0 /\ \A v \in updates \ {u} : v.n # u.n
  BY DEF StoreInv, UpdatesFit
<1>3. CASE UpdateTaken
  <2>1. PICK u \in updates : /\ u.status = "taken" /\ settings' = u.answer
                             /\ updates' = updates \ {u} /\ Answered(u.n)
    BY <1>3 DEF UpdateTaken
  <2>2. ~astray' => settings' = saved
    BY <2>1 DEF Answered, StoreInv, UpdatesFit, CallFits
  <2>3. \A v \in updates' : CallFits(v)'
    BY <1>1, <1>2, <2>1 DEF Answered, StoreInv, UpdatesFit, CallFits
  <2>4. got = NotLoaded \/ 0 \in belated' \/ got = saved
    BY <1>2, <2>1 DEF Answered, StoreInv
  <2> QED
    BY <1>1, <2>1, <2>2, <2>3, <2>4 DEF StoreInv, UpdatesFit
<1>4. CASE UpdateRefused
  <2>1. PICK u \in updates : /\ u.status = "refused" /\ settings' = Rollback(u)
                             /\ updates' = Orphaned(updates \ {u}) /\ Answered(u.n)
    BY <1>4 DEF UpdateRefused
  <2>2. ~astray' => settings' \in {NotLoaded, saved}
    BY <2>1 DEF Answered, StoreInv, UpdatesFit, CallFits, Rollback
  <2>3. UpdatesFit'
    <3>1. \A v \in updates \ {u} : v.n \in belated => v.n \in belated'
      BY <1>2, <2>1 DEF Answered
    <3> QED
      BY <1>1, <2>1, <3>1, OrphanedCallsFit DEF StoreInv
  <2>4. got = NotLoaded \/ 0 \in belated' \/ got = saved
    BY <1>2, <2>1 DEF Answered, StoreInv
  <2> QED
    BY <1>1, <2>2, <2>3, <2>4 DEF StoreInv
<1> QED
  BY <1>3, <1>4

\* settings_get, and its answer.
LEMMA LoadingKeepsTheStore ==
  ASSUME StoreInv, settings_get \/ load
  PROVE  StoreInv'
<1>1. UNCHANGED <<saved, sent, updates>>
  BY DEF settings_get, load
<1>2. \A u \in updates : u.n # 0
  BY DEF StoreInv, UpdatesFit
<1>3. \A u \in updates : u.n \in belated => u.n \in belated'
  BY <1>2 DEF settings_get, load, Loaded, LoadFailed, Answered
<1>4. UpdatesFit'
  BY <1>1, <1>3 DEF StoreInv, UpdatesFit, CallFits
<1>5. CASE settings_get
  BY <1>1, <1>4, <1>5 DEF settings_get, StoreInv
<1>6. CASE load
  <2>1. got' = NotLoaded
    BY <1>6 DEF load
  <2>2. updates' = {} /\ ~astray' => settings' \in {NotLoaded, saved'}
    <3>1. CASE Loaded
      BY <1>1, <3>1 DEF Loaded, Answered, StoreInv
    <3>2. CASE LoadFailed
      BY <1>1, <3>2 DEF LoadFailed, StoreInv
    <3> QED
      BY <1>6, <3>1, <3>2 DEF load
  <2> QED
    BY <1>1, <1>4, <2>1, <2>2 DEF StoreInv
<1> QED
  BY <1>5, <1>6

LEMMA StoreStep ==
  ASSUME StoreInv, [SettingsNext]_settingsVars
  PROVE  StoreInv'
<1>1. CASE UNCHANGED settingsVars
  BY <1>1 DEF settingsVars, StoreInv, UpdatesFit, CallFits
<1>2. CASE OpenSettings \/ Edit
  BY <1>2 DEF OpenSettings, Edit, StoreInv, UpdatesFit, CallFits
<1>3. CASE CloseSettings \/ SettingsScreen
  BY <1>3, OrphaningKeeps DEF CloseSettings, SettingsScreen
<1>4. CASE settings_get \/ load
  BY <1>4, LoadingKeepsTheStore
<1>5. CASE handleSave
  BY <1>5, SendingKeeps DEF handleSave
<1>6. CASE handleReset
  BY <1>6, SendingKeeps DEF handleReset
<1>7. CASE resetAll
  BY <1>7, SendingKeeps DEF resetAll
<1> QED
  BY <1>1, <1>2, <1>3, <1>4, <1>5, <1>6, <1>7, VerdictKeepsTheStore, AnswersKeepTheStore
     DEF SettingsNext

LEMMA QuietWhenFollowing == StoreInv => QuietStoreIsSaved
BY DEF StoreInv, QuietStoreIsSaved

\* However saves, resets, refusals and the load overlap, the optimistic copy,
\* its replacement and its roll-back leave the store with what the backend has,
\* unless the answer that came last was one that another save had overtaken
\* (store/settings.ts, the panels of views/settings).
THEOREM QuietStoreFollows == SettingsSpec => []QuietStoreIsSaved
<1>1. SettingsInit => StoreInv
  BY DEF SettingsInit, StoreInv, UpdatesFit
<1>2. StoreInv /\ [SettingsNext /\ UNCHANGED shortcutVars]_<<settingsVars, shortcutVars>> => StoreInv'
  BY StoreStep
<1> QED
  BY <1>1, <1>2, QuietWhenFollowing, PTL DEF SettingsSpec

-----------------------------------------------------------------------------
(* The types of the settings screen.                                       *)

Kept == [Setting -> SUBSET {"own"}]
Loadable(s) == s # NotLoaded => s \in Kept
PatchFits(p) == DOMAIN p \subseteq Setting /\ \A s \in DOMAIN p : p[s] \in SUBSET {"own"}

\* A panel may hold a value that is refused, where one can be put in.
DraftFits(p, d) ==
  DOMAIN d = PANELS[p] /\ \A s \in PANELS[p] : d[s] \in Value /\ (s \notin Validated => d[s] \in SUBSET {"own"})

UpdateFits(u) ==
  /\ IsUpdate(u) /\ u.status \in {"sent", "taken", "refused"}
  /\ PatchFits(u.patch) /\ Loadable(u.previous) /\ Loadable(u.answer)

StoreTyped ==
  /\ saved \in Kept /\ Loadable(settings) /\ Loadable(got)
  /\ \A u \in updates : UpdateFits(u)

ScreenTyped ==
  /\ loading \in BOOLEAN /\ failed \in BOOLEAN /\ shown \in BOOLEAN /\ busy \in BOOLEAN
  /\ panel \in Visited
  /\ Showing => DraftFits(panel, draft)
  /\ ~Showing => draft = <<>>

LEMMA PanelsEditSettings ==
  ASSUME NEW p \in Visited
  PROVE  PANELS[p] \subseteq Setting
BY SettingsAssumption DEF Setting

LEMMA OrphansFit ==
  ASSUME NEW us, \A u \in us : UpdateFits(u)
  PROVE  \A u \in Orphaned(us) : UpdateFits(u)
<1>1. PICK no : no = FALSE
  OBVIOUS
<1>2. Orphaned(us) = {[u EXCEPT !.mine = no] : u \in us}
  BY <1>1, Zenon DEF Orphaned
<1>3. SUFFICES ASSUME NEW u \in us PROVE UpdateFits([u EXCEPT !.mine = no])
  BY <1>2
<1>4. [u EXCEPT !.mine = no] =
        [n |-> u.n, patch |-> u.patch, previous |-> u.previous, mine |-> no,
         status |-> u.status, answer |-> u.answer]
  BY DEF UpdateFits, IsUpdate
<1> QED
  BY <1>4 DEF UpdateFits, IsUpdate

\* What a panel takes from the store is in order.
LEMMA SeedFits ==
  ASSUME NEW p \in Visited, NEW s, Loadable(s)
  PROVE  DraftFits(p, Seed(p, s))
<1>1. PANELS[p] \subseteq Setting
  BY PanelsEditSettings
<1>2. \A f \in Setting : DEFAULT_SETTINGS[f] \in SUBSET {"own"}
  BY DEF DEFAULT_SETTINGS
<1>3. \A f \in PANELS[p] : Seed(p, s)[f] \in SUBSET {"own"}
  BY <1>1, <1>2 DEF Seed, Loadable, Kept
<1>4. DOMAIN Seed(p, s) = PANELS[p]
  BY DEF Seed
<1>5. SUBSET {"own"} \subseteq Value
  BY DEF Value
<1> HIDE DEF Seed
<1> QED
  BY <1>3, <1>4, <1>5 DEF DraftFits

LEMMA PatchesMerge ==
  ASSUME NEW base \in Kept, NEW patch, PatchFits(patch)
  PROVE  Shallow(base, patch) \in Kept /\ settingsUpdate(base, patch) \in Kept
BY DEF PatchFits, Kept, Shallow, settingsUpdate

\* An update that is sent leaves the store in order.
LEMMA PatchSendingFits ==
  ASSUME StoreTyped, NEW patch, PatchFits(patch), NEW mine, update(patch, mine)
  PROVE  StoreTyped'
<1> DEFINE u == [n |-> sent + 1, patch |-> patch, previous |-> settings,
                 mine |-> mine, status |-> "sent", answer |-> settings]
<1>1. /\ updates' = updates \cup {u} /\ saved' = saved /\ got' = got
      /\ settings' = IF settings = NotLoaded THEN NotLoaded ELSE Shallow(settings, patch)
  BY DEF update
<1>2. UpdateFits(u)
  BY DEF UpdateFits, IsUpdate, StoreTyped
<1> HIDE DEF u
<1>3. Loadable(settings')
  BY <1>1, PatchesMerge DEF StoreTyped, Loadable
<1> QED
  BY <1>1, <1>2, <1>3 DEF StoreTyped

LEMMA VerdictFits ==
  ASSUME StoreTyped, BackendUpdates
  PROVE  StoreTyped'
<1>1. PICK u \in updates :
        \/ /\ saved' = settingsUpdate(saved, u.patch)
           /\ updates' = (updates \ {u}) \cup {[u EXCEPT !.status = "taken", !.answer = saved']}
        \/ /\ updates' = (updates \ {u}) \cup {[u EXCEPT !.status = "refused"]}
           /\ saved' = saved
  BY DEF BackendUpdates
<1>2. UpdateFits(u) /\ settings' = settings /\ got' = got
  BY DEF StoreTyped, BackendUpdates
<1>3. CASE updates' = (updates \ {u}) \cup {[u EXCEPT !.status = "refused"]} /\ saved' = saved
  <2>1. UpdateFits([u EXCEPT !.status = "refused"])
    <3>1. [u EXCEPT !.status = "refused"]
            = [n |-> u.n, patch |-> u.patch, previous |-> u.previous,
               mine |-> u.mine, status |-> "refused", answer |-> u.answer]
      BY <1>2 DEF UpdateFits, IsUpdate
    <3> QED
      BY <1>2, <3>1 DEF UpdateFits, IsUpdate
  <2> QED
    BY <1>2, <1>3, <2>1 DEF StoreTyped
<1>4. CASE /\ saved' = settingsUpdate(saved, u.patch)
           /\ updates' = (updates \ {u}) \cup {[u EXCEPT !.status = "taken", !.answer = saved']}
  <2>1. saved' \in Kept
    BY <1>2, <1>4, PatchesMerge DEF StoreTyped, UpdateFits
  <2>2. UpdateFits([u EXCEPT !.status = "taken", !.answer = saved'])
    <3> DEFINE v == [n |-> u.n, patch |-> u.patch, previous |-> u.previous,
                     mine |-> u.mine, status |-> "taken", answer |-> saved']
    <3>1. [u EXCEPT !.status = "taken"]
            = [n |-> u.n, patch |-> u.patch, previous |-> u.previous,
               mine |-> u.mine, status |-> "taken", answer |-> u.answer]
      BY <1>2 DEF UpdateFits, IsUpdate
    <3>2. [[n |-> u.n, patch |-> u.patch, previous |-> u.previous,
            mine |-> u.mine, status |-> "taken", answer |-> u.answer] EXCEPT !.answer = saved'] = v
      OBVIOUS
    <3>3. UpdateFits(v)
      BY <1>2, <2>1 DEF UpdateFits, IsUpdate, Loadable
    <3> HIDE DEF v
    <3>4. [u EXCEPT !.status = "taken", !.answer = saved'] = v
      BY <3>1, <3>2, Zenon
    <3> QED
      BY <3>3, <3>4
  <2> QED
    BY <1>2, <1>4, <2>1, <2>2 DEF StoreTyped
<1> QED
  BY <1>1, <1>3, <1>4

\* What a panel would send is free of values that are refused.
LEMMA DraftIsAPatch ==
  ASSUME NEW p \in Visited, NEW d, DraftFits(p, d), ~Refused(p, d)
  PROVE  PatchFits(d)
<1>1. \A s \in DOMAIN d \cap Validated : Wrong \notin d[s]
  BY DEF Refused
<1>2. \A s \in DOMAIN d : d[s] \in SUBSET {"own"}
  BY <1>1 DEF DraftFits, Value
<1> QED
  BY <1>2, PanelsEditSettings DEF DraftFits, PatchFits

LEMMA StoreTypedStep ==
  ASSUME StoreTyped, ScreenTyped, [SettingsNext]_settingsVars
  PROVE  StoreTyped'
<1>1. CASE UNCHANGED settingsVars
  BY <1>1 DEF settingsVars, StoreTyped, Kept, Loadable
<1>2. CASE OpenSettings \/ Edit
  BY <1>2 DEF OpenSettings, Edit, StoreTyped
<1>3. CASE CloseSettings \/ SettingsScreen
  <2>1. updates' = Orphaned(updates) /\ UNCHANGED <<saved, settings, got>>
    BY <1>3 DEF CloseSettings, SettingsScreen
  <2> QED
    BY <2>1, OrphansFit DEF StoreTyped
<1>4. CASE settings_get \/ load
  BY <1>4 DEF settings_get, load, Loaded, LoadFailed, StoreTyped, Loadable
<1>5. CASE handleSave
  <2>1. PatchFits(draft)
    BY <1>5, DraftIsAPatch DEF handleSave, ScreenTyped
  <2> QED
    BY <1>5, <2>1, PatchSendingFits DEF handleSave
<1>6. CASE handleReset
  <2>1. PatchFits([s \in PANELS[panel] |-> {}])
    BY PanelsEditSettings DEF ScreenTyped, PatchFits
  <2> QED
    BY <1>6, <2>1, PatchSendingFits DEF handleReset
<1>7. CASE resetAll
  <2>1. PatchFits(DEFAULT_SETTINGS)
    BY DEF PatchFits, DEFAULT_SETTINGS
  <2> QED
    BY <1>7, <2>1, PatchSendingFits DEF resetAll
<1>8. CASE UpdateTaken
  BY <1>8 DEF UpdateTaken, StoreTyped, UpdateFits
<1>9. CASE UpdateRefused
  <2>1. PICK u \in updates : settings' = Rollback(u) /\ updates' = Orphaned(updates \ {u})
    BY <1>9 DEF UpdateRefused
  <2>2. \A v \in updates' : UpdateFits(v)
    BY <2>1, OrphansFit DEF StoreTyped
  <2>3. saved' = saved /\ got' = got
    BY <1>9 DEF UpdateRefused
  <2> QED
    BY <2>1, <2>2, <2>3 DEF StoreTyped, UpdateFits, Rollback
<1> QED
  BY <1>1, <1>2, <1>3, <1>4, <1>5, <1>6, <1>7, <1>8, <1>9, VerdictFits DEF SettingsNext

LEMMA ScreenTypedStep ==
  ASSUME StoreTyped, ScreenTyped, [SettingsNext]_settingsVars, StoreTyped'
  PROVE  ScreenTyped'
<1> USE DEF Showing
<1>0. /\ \A p \in Visited : DraftFits(p, Seed(p, settings))
      /\ \A p \in Visited : DraftFits(p, Seed(p, settings'))
  BY SeedFits DEF StoreTyped
<1>1. CASE UNCHANGED settingsVars
  BY <1>1 DEF settingsVars, screenVars, ScreenTyped, DraftFits
<1>2. CASE OpenSettings
  BY <1>0, <1>2 DEF OpenSettings, ScreenTyped
<1>3. CASE CloseSettings
  BY <1>3 DEF CloseSettings, ScreenTyped
<1>4. CASE load
  BY <1>0, <1>4 DEF load, Loaded, LoadFailed, ScreenTyped
<1>5. CASE SettingsScreen
  BY <1>0, <1>5 DEF SettingsScreen, ScreenTyped
<1>6. CASE Edit
  <2>1. PICK s \in DOMAIN draft, v \in Value :
          (v = {Wrong} => s \in Validated) /\ draft' = [draft EXCEPT ![s] = v]
    BY <1>6 DEF Edit
  <2>2. DraftFits(panel, draft)
    BY <1>6 DEF Edit, ScreenTyped
  <2>3. DraftFits(panel, draft')
    BY <2>1, <2>2 DEF DraftFits, Value
  <2> QED
    BY <1>6, <2>3 DEF Edit, ScreenTyped
<1>7. CASE handleSave
  BY <1>7 DEF handleSave, update, ScreenTyped
<1>8. CASE handleReset
  <2>1. DraftFits(panel, [s \in PANELS[panel] |-> {}])
    BY DEF DraftFits, Value
  <2> QED
    BY <1>8, <2>1 DEF handleReset, update, ScreenTyped
<1>9. CASE resetAll
  BY <1>0, <1>9 DEF resetAll, update, ScreenTyped
<1>10. CASE BackendUpdates
  BY <1>10 DEF BackendUpdates, screenVars, ScreenTyped
<1>11. CASE UpdateTaken
  BY <1>11 DEF UpdateTaken, ScreenTyped
<1>12. CASE UpdateRefused
  BY <1>12 DEF UpdateRefused, ScreenTyped
<1>13. CASE settings_get
  BY <1>13 DEF settings_get, screenVars, ScreenTyped
<1> QED
  BY <1>1, <1>2, <1>3, <1>4, <1>5, <1>6, <1>7, <1>8, <1>9, <1>10, <1>11, <1>12, <1>13 DEF SettingsNext

\* What is kept of the answers that are overtaken.
OvertakenTyped == belated \subseteq Nat /\ astray \in BOOLEAN

LEMMA OvertakenTypedStep ==
  ASSUME StoreInv, OvertakenTyped, [SettingsNext]_settingsVars
  PROVE  OvertakenTyped'
<1>1. /\ sent \in Nat /\ \A u \in updates : u.n \in Nat
      /\ belated \subseteq Nat /\ astray \in BOOLEAN
  BY DEF StoreInv, UpdatesFit, OvertakenTyped
<1>2. CASE UNCHANGED settingsVars \/ OpenSettings \/ CloseSettings \/ SettingsScreen \/ Edit
  BY <1>1, <1>2
     DEF settingsVars, OpenSettings, CloseSettings, SettingsScreen, Edit, OvertakenTyped
<1>3. CASE settings_get \/ load
  <2>1. belated' \subseteq belated
    BY <1>3 DEF settings_get, load, Loaded, LoadFailed, Answered
  <2>2. astray' \in BOOLEAN
    <3>1. CASE settings_get
      BY <1>1, <3>1 DEF settings_get
    <3>2. CASE Answered(0)
      BY <3>2 DEF Answered
    <3>3. CASE LoadFailed
      BY <1>1, <3>3 DEF LoadFailed
    <3> QED
      BY <1>3, <3>1, <3>2, <3>3 DEF load, Loaded
  <2> QED
    BY <1>1, <2>1, <2>2 DEF OvertakenTyped
<1>4. ASSUME NEW patch, NEW mine, update(patch, mine) PROVE OvertakenTyped'
  <2>1. astray' = astray /\ (belated' = belated \/ belated' = belated \cup {sent + 1})
    BY <1>4, Zenon DEF update
  <2>2. sent + 1 \in Nat
    BY <1>1
  <2> QED
    BY <1>1, <2>1, <2>2, Zenon DEF OvertakenTyped
<1>5. CASE BackendUpdates
  BY <1>1, <1>5 DEF BackendUpdates, OvertakenTyped
<1>6. CASE UpdateTaken \/ UpdateRefused
  <2>1. PICK n : Answered(n)
    BY <1>6 DEF UpdateTaken, UpdateRefused
  <2>2. astray' \in BOOLEAN
    BY <2>1 DEF Answered
  <2>3. belated' \subseteq belated
    BY <2>1 DEF Answered
  <2> QED
    BY <1>1, <2>2, <2>3 DEF OvertakenTyped
<1>7. handleSave \/ handleReset \/ resetAll => \E patch, mine : update(patch, mine)
  BY DEF handleSave, handleReset, resetAll
<1> QED
  BY <1>2, <1>3, <1>4, <1>5, <1>6, <1>7 DEF SettingsNext

\* The store by itself: the shortcuts it looks at may be used meanwhile.
SettingsRun == SettingsInit /\ [][SettingsNext]_settingsVars

LEMMA SettingsTypesAlways == SettingsRun => []SettingsTypeOK
<1> DEFINE Typed == StoreInv /\ StoreTyped /\ ScreenTyped /\ OvertakenTyped
<1>1. SettingsInit => Typed
  <2> SUFFICES ASSUME SettingsInit PROVE Typed
    OBVIOUS
  <2>1. StoreInv /\ OvertakenTyped
    BY DEF SettingsInit, StoreInv, UpdatesFit, OvertakenTyped
  <2>2. StoreTyped /\ ScreenTyped
    BY SettingsAssumption
       DEF SettingsInit, StoreTyped, ScreenTyped, Kept, Loadable, DEFAULT_SETTINGS, Showing
  <2> QED
    BY <2>1, <2>2
<1>2. Typed /\ [SettingsNext]_settingsVars => Typed'
  BY StoreStep, StoreTypedStep, ScreenTypedStep, OvertakenTypedStep
<1>3. Typed => SettingsTypeOK
  BY DEF StoreTyped, ScreenTyped, OvertakenTyped, Kept, Loadable, UpdateFits, DraftFits,
         SettingsTypeOK
<1> HIDE DEF Typed
<1> QED
  BY <1>1, <1>2, <1>3, PTL DEF SettingsRun

-----------------------------------------------------------------------------
(* The commands and the palette.                                           *)

IsAList(s) == s \in Seq({s[i] : i \in DOMAIN s})

\* Lists written out, and one list after another.
LEMMA WrittenLists ==
  ASSUME NEW a, NEW b, NEW c, NEW d, NEW e, NEW f
  PROVE  /\ IsAList(<<a>>) /\ IsAList(<<a, b>>) /\ IsAList(<<a, b, c>>)
         /\ IsAList(<<a, b, c, d, e>>) /\ IsAList(<<a, b, c, d, e, f>>)
  BY DEF IsAList

LEMMA JoinedLists ==
  ASSUME NEW s, NEW t, IsAList(s), IsAList(t) PROVE IsAList(s \o t)
<1> DEFINE S == {s[i] : i \in DOMAIN s} \cup {t[i] : i \in DOMAIN t}
<1>1. s \in Seq(S) /\ t \in Seq(S)
  <2>1. \A i \in 1 .. Len(s) : s[i] \in S
    BY DEF IsAList
  <2>2. \A i \in 1 .. Len(t) : t[i] \in S
    BY DEF IsAList
  <2> HIDE DEF S
  <2> QED
    BY <2>1, <2>2 DEF IsAList
<1> HIDE DEF S
<1>2. s \o t \in Seq(S)
  BY <1>1
<1> DEFINE u == s \o t
<1>3. u \in Seq(S)
  BY <1>2
<1> HIDE DEF u
<1>4. IsAList(u)
  BY <1>3 DEF IsAList
<1> QED
  BY <1>4 DEF u

\* What the shipped modules register is a list of commands.
LEMMA RegistryIsAList == Registry \in Seq(Commands)
<1>1. IsAList(ClipboardCommands) /\ IsAList(ObjectCommands) /\ IsAList(RefreshCommand)
  BY WrittenLists, Zenon DEF ClipboardCommands, ObjectCommands, RefreshCommand
<1>2. IsAList(ToolbarCommands) /\ IsAList(GoCommands) /\ IsAList(ViewCommands)
  BY WrittenLists, Zenon DEF ToolbarCommands, GoCommands, ViewCommands
<1>3. IsAList(DefinitionCommands) /\ IsAList(AppCommands)
  BY <1>1, <1>2, WrittenLists, JoinedLists, Zenon DEF DefinitionCommands, AppCommands
<1>4. IsAList(Registry)
  BY <1>2, <1>3, JoinedLists, Zenon DEF Registry
<1> QED
  BY <1>4 DEF IsAList, Commands

\* What the palette lists for a query is every command that matches it, once.
LEMMA FilteredIsAList ==
  ASSUME NEW q \in QueryText
  PROVE  /\ filterCommands(q) \in Seq(Commands)
         /\ q # "" => /\ DOMAIN filterCommands(q) = 1 .. Cardinality(Matches(q))
                      /\ \A r \in DOMAIN filterCommands(q) :
                           \E i \in Matches(q) : /\ Rank(i, q) = r
                                                 /\ filterCommands(q)[r] = Registry[i]
<1> DEFINE S == Matches(q)
           n == Cardinality(S)
           score(i) == FuzzyScore(Registry[i].id, q)
           before(i) == {j \in S : RanksBefore(j, i, q)}
           rank == [i \in S |-> Rank(i, q)]
<1>0. /\ S \in SUBSET (1 .. Len(Registry)) /\ Len(Registry) \in Nat
      /\ \A i \in S : i \in Nat /\ Registry[i] \in Commands
  BY RegistryIsAList DEF Matches
<1>1. IsFiniteSet(S) /\ n \in Nat
  <2>1. 1 \in Int /\ Len(Registry) \in Int
    BY <1>0
  <2>2. IsFiniteSet(1 .. Len(Registry))
    BY <2>1, FS_Interval
  <2> QED
    BY <1>0, <2>2, FS_Subset, FS_CardinalityType
<1>2. \A i \in S : score(i) \in Int
  <2>1. \A c \in Commands : FuzzyScore(c.id, q) \in -1 .. 3
    BY ShortcutAssumption, Zenon
  <2> QED
    BY <1>0, <2>1
<1> HIDE DEF S
<1>3. \A i, j \in S : RanksBefore(i, j, q) <=> (score(i) > score(j) \/ (score(i) = score(j) /\ i < j))
  BY DEF RanksBefore
<1> HIDE DEF score
<1>4. /\ \A i \in S : ~RanksBefore(i, i, q)
      /\ \A i, j, k \in S : RanksBefore(i, j, q) /\ RanksBefore(j, k, q) => RanksBefore(i, k, q)
      /\ \A i, j \in S : i = j \/ RanksBefore(i, j, q) \/ RanksBefore(j, i, q)
  BY <1>0, <1>2, <1>3
<1>5. ASSUME NEW i \in S
      PROVE  /\ IsFiniteSet(before(i)) /\ Cardinality(before(i)) \in Nat
             /\ 1 + Cardinality(before(i)) \in 1 .. n
  <2>1. IsFiniteSet(S \ {i}) /\ Cardinality(S \ {i}) = n - 1
    BY <1>1, FS_RemoveElement
  <2>2. before(i) \in SUBSET (S \ {i})
    BY <1>4
  <2> HIDE DEF before
  <2>3. IsFiniteSet(before(i)) /\ Cardinality(before(i)) <= Cardinality(S \ {i})
    BY <2>1, <2>2, FS_Subset
  <2>4. Cardinality(before(i)) \in Nat
    BY <2>3, FS_CardinalityType
  <2> HIDE DEF n
  <2> QED
    BY <1>1, <2>1, <2>3, <2>4
<1>6. ASSUME NEW i \in S, NEW j \in S, RanksBefore(i, j, q)
      PROVE  Cardinality(before(i)) < Cardinality(before(j))
  <2>1. before(i) \in SUBSET before(j) /\ i \in before(j) /\ i \notin before(i)
    BY <1>4, <1>6
  <2> HIDE DEF before
  <2>2. Cardinality(before(i)) <= Cardinality(before(j))
    BY <1>5, <2>1, FS_Subset
  <2>3. Cardinality(before(j)) = Cardinality(before(i)) => before(j) = before(i)
    BY <1>5, <2>1, FS_Subset
  <2>4. Cardinality(before(i)) \in Nat /\ Cardinality(before(j)) \in Nat
    BY <1>5
  <2> QED
    BY <2>1, <2>2, <2>3, <2>4
<1>7. \A i \in S : rank[i] = 1 + Cardinality(before(i))
  BY DEF Rank, S
<1> HIDE DEF before
<1>8. /\ rank \in [S -> 1 .. n]
      /\ \A i, j \in S : rank[i] = rank[j] => i = j
  <2> HIDE DEF n
  <2>1. \A i \in S : rank[i] \in 1 .. n
    BY <1>5, <1>7
  <2>2. rank \in [S -> 1 .. n]
    BY <2>1
  <2> HIDE DEF rank
  <2>3. \A i, j \in S : RanksBefore(i, j, q) => rank[i] # rank[j]
    BY <1>5, <1>6, <1>7
  <2> QED
    BY <1>4, <2>2, <2>3
<1> HIDE DEF rank
<1>9. rank \in Injection(S, 1 .. n)
  BY <1>8, Fun_IsInj
<1>10. IsFiniteSet(1 .. n) /\ Cardinality(1 .. n) = n
  <2> HIDE DEF n
  <2>1. 1 \in Int /\ n \in Int
    BY <1>1
  <2>2. IsFiniteSet(1 .. n) /\ Cardinality(1 .. n) = IF 1 > n THEN 0 ELSE n - 1 + 1
    BY <2>1, FS_Interval
  <2> QED
    BY <1>1, <2>2
<1>11. Cardinality(S) = Cardinality(1 .. n)
  BY <1>10
<1>12. rank \in Surjection(S, 1 .. n)
  <2> HIDE DEF n
  <2> QED
    BY <1>9, <1>10, <1>11, FS_Injection
<1>13. \A r \in 1 .. n : \E i \in S : Rank(i, q) = r
  <2>1. \A r \in 1 .. n : \E i \in S : rank[i] = r
    BY <1>12, Fun_SurjectionProperties
  <2> QED
    BY <2>1 DEF rank
<1>14. CASE q = ""
  BY <1>14, RegistryIsAList DEF filterCommands
<1>15. CASE q # ""
  <2> DEFINE filtered == [r \in 1 .. n |-> Registry[CHOOSE i \in S : Rank(i, q) = r]]
  <2>1. filterCommands(q) = filtered
    BY <1>15 DEF filterCommands, S
  <2>2. \A r \in 1 .. n : \E i \in S : Rank(i, q) = r /\ filtered[r] = Registry[i]
    BY <1>13
  <2>3. \A r \in 1 .. n : filtered[r] \in Commands
    BY <1>0, <2>2
  <2> HIDE DEF n
  <2>4. filtered \in [1 .. n -> Commands] /\ DOMAIN filtered = 1 .. n
    BY <2>3
  <2>5. filtered \in Seq(Commands)
    BY <1>1, <2>4, SeqDef
  <2> QED
    BY <1>15, <2>1, <2>2, <2>4, <2>5 DEF n, S
<1> QED
  BY <1>14, <1>15

PaletteRecord == [open : BOOLEAN, query : QueryText, focused : Nat, results : Seq(Commands)]

\* The open palette lists what its query matches, with a row highlighted
\* whenever there is a row.
PaletteFits ==
  /\ palette \in PaletteRecord
  /\ palette.open => /\ palette.results = filterCommands(palette.query)
                     /\ palette.results # <<>> => palette.focused \in DOMAIN palette.results

ShortcutsInv ==
  /\ platform \in Platform
  /\ editing \in BOOLEAN
  /\ PaletteFits
  /\ ran # NothingRan => \E c \in Commands : c.id = ran.id

LEMMA PaletteOf ==
  ASSUME NEW b \in BOOLEAN, NEW q \in QueryText, NEW n \in Nat, NEW s \in Seq(Commands)
  PROVE  [open |-> b, query |-> q, focused |-> n, results |-> s] \in PaletteRecord
  BY Zenon DEF PaletteRecord

\* The palette with every field written out.
LEMMA PaletteFields ==
  ASSUME NEW p \in PaletteRecord
  PROVE  /\ p = [open |-> p.open, query |-> p.query, focused |-> p.focused, results |-> p.results]
         /\ p.open \in BOOLEAN /\ p.query \in QueryText /\ p.focused \in Nat
         /\ p.results \in Seq(Commands)
  BY DEF PaletteRecord

LEMMA SomethingListed ==
  ASSUME NEW s \in Seq(Commands), s # <<>>
  PROVE  Len(s) \in Nat \ {0} /\ DOMAIN s = 1 .. Len(s) /\ 1 \in DOMAIN s
  OBVIOUS

LEMMA ClosedOpens ==
  ASSUME NEW c \in PaletteRecord, NEW d, d = [c EXCEPT !.open = TRUE]
  PROVE  d = [open |-> TRUE, query |-> c.query, focused |-> c.focused, results |-> c.results]
  BY DEF PaletteRecord

LEMMA PaletteOpens == openPalette => PaletteFits'
<1> SUFFICES ASSUME openPalette PROVE PaletteFits'
  OBVIOUS
<1>1. "" \in QueryText
  BY ShortcutAssumption, Zenon
<1> DEFINE none == ""
           s == filterCommands(none)
           opened == [open |-> TRUE, query |-> none, focused |-> 1, results |-> s]
<1>2. none \in QueryText
  BY <1>1, Zenon
<1>3. s \in Seq(Commands)
  <2> HIDE DEF none
  <2> QED
    BY <1>2, FilteredIsAList
<1>4. palette' = opened
  <2>1. Closed = [open |-> FALSE, query |-> none, focused |-> 1, results |-> s]
    BY Zenon DEF Closed
  <2> HIDE DEF none, s
  <2>2. Closed \in PaletteRecord
    BY <1>2, <1>3, <2>1, PaletteOf
  <2>3. Closed.query = none /\ Closed.focused = 1 /\ Closed.results = s
    BY <2>1
  <2>4. palette' = [Closed EXCEPT !.open = TRUE]
    BY DEF openPalette
  <2> HIDE DEF opened
  <2> QED
    BY <2>2, <2>3, <2>4, ClosedOpens DEF opened
<1> HIDE DEF none
<1>5. opened \in PaletteRecord
  <2> HIDE DEF s
  <2> QED
    BY <1>2, <1>3, PaletteOf
<1>6. opened.results = filterCommands(opened.query)
  OBVIOUS
<1>7. opened.results # <<>> => opened.focused \in DOMAIN opened.results
  <2> HIDE DEF s
  <2> QED
    BY <1>3, SomethingListed
<1> HIDE DEF opened
<1> QED
  BY <1>4, <1>5, <1>6, <1>7 DEF PaletteFits

LEMMA PaletteCloses ==
  ASSUME PaletteFits, palette' = [palette EXCEPT !.open = FALSE, !.query = "", !.focused = 1]
  PROVE  PaletteFits'
<1>1. "" \in QueryText
  BY ShortcutAssumption, Zenon
<1> DEFINE none == ""
           p == palette
           closed == [open |-> FALSE, query |-> none, focused |-> 1, results |-> p.results]
<1>2. palette' = [[[p EXCEPT !.open = FALSE] EXCEPT !.query = none] EXCEPT !.focused = 1]
  BY Zenon
<1>3. none \in QueryText
  BY <1>1, Zenon
<1> HIDE DEF none
<1>4. p \in PaletteRecord
  BY DEF PaletteFits
<1> HIDE DEF p
<1>5. palette' = closed
  BY <1>2, <1>4 DEF PaletteRecord
<1>6. closed \in PaletteRecord
  BY <1>3, <1>4, PaletteFields, PaletteOf
<1>7. closed.open = FALSE
  OBVIOUS
<1> HIDE DEF closed
<1> QED
  BY <1>5, <1>6, <1>7 DEF PaletteFits

LEMMA QueryTyped == ASSUME ShortcutsInv, setQuery PROVE PaletteFits'
<1>1. PICK q \in QueryText :
        palette' = [palette EXCEPT !.query = q, !.focused = 1, !.results = filterCommands(q)]
  BY DEF setQuery
<1> DEFINE s == filterCommands(q)
           searched == [open |-> palette.open, query |-> q, focused |-> 1, results |-> s]
<1>2. palette \in PaletteRecord /\ s \in Seq(Commands)
  BY FilteredIsAList DEF ShortcutsInv, PaletteFits
<1>3. palette' = searched
  <2> HIDE DEF s
  <2>1. palette' = [[[palette EXCEPT !.query = q] EXCEPT !.focused = 1] EXCEPT !.results = s]
    BY <1>1 DEF s
  <2> QED
    BY <1>2, <2>1 DEF PaletteRecord
<1>4. searched.results = filterCommands(searched.query)
  OBVIOUS
<1>5. searched.results # <<>> => searched.focused \in DOMAIN searched.results
  <2> HIDE DEF s
  <2> QED
    BY <1>2, SomethingListed
<1>6. searched \in PaletteRecord
  <2> HIDE DEF s
  <2> QED
    BY <1>2, PaletteFields, PaletteOf
<1> HIDE DEF searched
<1> QED
  BY <1>3, <1>4, <1>5, <1>6 DEF PaletteFits

LEMMA HighlightMoves ==
  ASSUME PaletteFits, NEW i \in DOMAIN palette.results, palette' = [palette EXCEPT !.focused = i]
  PROVE  PaletteFits'
<1> DEFINE moved == [open |-> palette.open, query |-> palette.query, focused |-> i,
                     results |-> palette.results]
<1>1. palette \in PaletteRecord /\ palette.results \in Seq(Commands)
  BY PaletteFields DEF PaletteFits
<1>2. i \in Nat
  BY <1>1
<1>3. palette' = moved
  BY <1>1 DEF PaletteRecord
<1>4. moved \in PaletteRecord
  BY <1>1, <1>2, PaletteFields, PaletteOf
<1>5. /\ moved.open = palette.open /\ moved.results = palette.results
      /\ moved.query = palette.query /\ moved.focused = i
  OBVIOUS
<1> HIDE DEF moved
<1> QED
  BY <1>3, <1>4, <1>5 DEF PaletteFits

LEMMA ArrowsGoRound ==
  ASSUME NEW n \in Nat \ {0}, NEW f \in 1 .. n
  PROVE  (f % n) + 1 \in 1 .. n /\ ((f + n - 2) % n) + 1 \in 1 .. n
<1>1. \A a \in Int : a % n \in 0 .. n - 1
  OBVIOUS
<1> QED
  BY <1>1

LEMMA ShortcutsStep == ShortcutsInv /\ [ShortcutsNext]_shortcutVars => ShortcutsInv'
<1> SUFFICES ASSUME ShortcutsInv, [ShortcutsNext]_shortcutVars PROVE ShortcutsInv'
  OBVIOUS
<1>1. CASE UNCHANGED shortcutVars
  BY <1>1 DEF ShortcutsInv, PaletteFits, shortcutVars
<1>2. CASE MoveFocus
  BY <1>2 DEF MoveFocus, ShortcutsInv, PaletteFits
<1>3. CASE KeyDown
  <2>1. PICK c \in Bound, i \in DOMAIN Registry : ran'.id = Registry[i].id
    <3>1. PICK c \in Bound :
            \E i \in Dispatched(platform, editing, Keystroke(platform, c)) :
              ran' = [key |-> Keystroke(platform, c).key, held |-> Keystroke(platform, c).held,
                      id |-> Registry[i].id]
      BY <1>3, Zenon DEF KeyDown
    <3>2. PICK i \in Dispatched(platform, editing, Keystroke(platform, c)) :
              ran' = [key |-> Keystroke(platform, c).key, held |-> Keystroke(platform, c).held,
                      id |-> Registry[i].id]
      BY <3>1, Zenon
    <3>3. i \in DOMAIN Registry
      BY Zenon DEF Dispatched
    <3> QED
      BY <3>2, <3>3
  <2>2. UNCHANGED <<platform, editing, palette>>
    BY <1>3, Zenon DEF KeyDown
  <2>3. Registry[i] \in Commands
    BY <2>1, Zenon DEF Commands
  <2> QED
    BY <2>1, <2>2, <2>3 DEF ShortcutsInv, PaletteFits
<1>4. CASE openPalette
  BY <1>4, PaletteOpens DEF openPalette, ShortcutsInv
<1>5. CASE closePalette
  BY <1>5, PaletteCloses, Zenon DEF closePalette, ShortcutsInv
<1>6. CASE setQuery
  BY <1>6, QueryTyped DEF setQuery, ShortcutsInv
<1>7. CASE MoveHighlight
  <2>1. palette.results \in Seq(Commands) /\ palette.results # <<>> /\ palette.open
    BY <1>7, PaletteFields DEF MoveHighlight, ShortcutsInv, PaletteFits
  <2> DEFINE n == Len(palette.results)
  <2>2. n \in Nat \ {0} /\ DOMAIN palette.results = 1 .. n
    BY <2>1, SomethingListed
  <2>3. palette.focused \in 1 .. n
    BY <2>1, <2>2 DEF ShortcutsInv, PaletteFits
  <2> HIDE DEF n
  <2>4. PICK next \in {(palette.focused % n) + 1, ((palette.focused + n - 2) % n) + 1} :
          palette' = [palette EXCEPT !.focused = next]
    BY <1>7 DEF MoveHighlight, n
  <2>5. next \in DOMAIN palette.results
    BY <2>2, <2>3, <2>4, ArrowsGoRound
  <2>6. PaletteFits'
    BY <2>4, <2>5, HighlightMoves DEF ShortcutsInv
  <2> QED
    BY <1>7, <2>6 DEF MoveHighlight, ShortcutsInv
<1>8. CASE CommandPalette
  BY <1>8, HighlightMoves DEF CommandPalette, ShortcutsInv
<1>9. CASE executeFocused
  <2>1. PaletteFits'
    BY <1>9, PaletteCloses, Zenon DEF executeFocused, ShortcutsInv
  <2> DEFINE c == palette.results[palette.focused]
  <2>2. c \in Commands
    BY <1>9, PaletteFields DEF executeFocused, ShortcutsInv, PaletteFits
  <2> HIDE DEF c
  <2>3. ran'.id = c.id
    <3>1. ran' = [NothingRan EXCEPT !.id = c.id]
      BY <1>9, Zenon DEF executeFocused, c
    <3>2. "id" \in DOMAIN NothingRan
      BY Zenon DEF NothingRan
    <3> QED
      BY <3>1, <3>2
  <2> QED
    BY <1>9, <2>1, <2>2, <2>3, Zenon DEF executeFocused, ShortcutsInv
<1> QED
  BY <1>1, <1>2, <1>3, <1>4, <1>5, <1>6, <1>7, <1>8, <1>9 DEF ShortcutsNext

LEMMA ShortcutsFit == ShortcutsSpec => []ShortcutsInv
<1>1. ShortcutsInit => ShortcutsInv
  <2> SUFFICES ASSUME ShortcutsInit PROVE ShortcutsInv
    OBVIOUS
  <2>1. "" \in QueryText
    BY ShortcutAssumption, Zenon
  <2> DEFINE none == ""
             s == filterCommands(none)
             closed == [open |-> FALSE, query |-> none, focused |-> 1, results |-> s]
  <2>2. palette = closed
    BY Zenon DEF ShortcutsInit, Closed
  <2>3. none \in QueryText
    BY <2>1, Zenon
  <2> HIDE DEF none
  <2>4. s \in Seq(Commands)
    BY <2>3, FilteredIsAList
  <2> HIDE DEF s
  <2>5. closed \in PaletteRecord /\ closed.open = FALSE
    BY <2>3, <2>4, PaletteOf
  <2> HIDE DEF closed
  <2>6. PaletteFits
    BY <2>2, <2>5 DEF PaletteFits
  <2>7. platform \in Platform /\ editing = FALSE /\ ran = NothingRan
    BY Zenon DEF ShortcutsInit
  <2> QED
    BY <2>6, <2>7 DEF ShortcutsInv
<1> QED
  BY <1>1, ShortcutsStep, PTL DEF ShortcutsSpec

LEMMA ShortcutsTypesAlways == ShortcutsSpec => []ShortcutsTypeOK
<1>1. ShortcutsInv => ShortcutsTypeOK
  <2> SUFFICES ASSUME ShortcutsInv PROVE ShortcutsTypeOK
    OBVIOUS
  <2>1. /\ palette.open \in BOOLEAN /\ palette.query \in QueryText
        /\ palette.results \in Seq(Commands)
    BY PaletteFields DEF ShortcutsInv, PaletteFits
  <2>2. \A i \in DOMAIN palette.results : palette.results[i] \in Commands
    BY <2>1
  <2> QED
    BY <2>1, <2>2, Zenon DEF ShortcutsInv, ShortcutsTypeOK
<1> QED
  BY <1>1, ShortcutsFit, PTL

\* The palette (store/command_palette.ts) after any keystrokes, with any query
\* and any scores: a row is highlighted whenever there is one, and Enter runs
\* a command that the text in the input matches.
THEOREM EnterRunsWhatMatches == ShortcutsSpec => []EnterRunsAMatch
<1>1. ShortcutsInv => EnterRunsAMatch
  <2> SUFFICES ASSUME ShortcutsInv, palette.open, palette.results # <<>>
               PROVE  /\ palette.focused \in DOMAIN palette.results
                      /\ palette.query # "" =>
                           FuzzyScore(palette.results[palette.focused].id, palette.query) >= 0
    BY Zenon DEF EnterRunsAMatch
  <2> DEFINE q == palette.query
             f == palette.focused
  <2>1. /\ f \in DOMAIN palette.results /\ palette.results = filterCommands(q)
        /\ q \in QueryText
    BY PaletteFields DEF ShortcutsInv, PaletteFits
  <2>2. ASSUME q # "" PROVE FuzzyScore(palette.results[f].id, q) >= 0
    <3>1. \A r \in DOMAIN filterCommands(q) :
            \E i \in Matches(q) : Rank(i, q) = r /\ filterCommands(q)[r] = Registry[i]
      BY <2>1, <2>2, FilteredIsAList, Zenon
    <3>2. PICK i \in Matches(q) : palette.results[f] = Registry[i]
      BY <2>1, <3>1
    <3> QED
      BY <3>2 DEF Matches
  <2> QED
    BY <2>1, <2>2, Zenon
<1> QED
  BY <1>1, ShortcutsFit, PTL

-----------------------------------------------------------------------------
(* The parts side by side.                                                 *)

PartsStart ==
  /\ PreviewInit
  /\ EditorInit
  /\ ListingInit
  /\ PaneInit
  /\ TrailInit
  /\ NavigationInit
  /\ FilterInit
  /\ SearchInit
  /\ ValidationInit
  /\ ProfileEditorInit
  /\ ShortcutsInit
  /\ SettingsInit

PartsStep ==
  /\ [PreviewNext]_previewVars
  /\ [EditorNext]_editorVars
  /\ [ListingNext]_listingVars
  /\ [PaneNext]_paneVars
  /\ [TrailNext]_trailVars
  /\ [NavigationNext]_navigationVars
  /\ [FilterNext]_filterVars
  /\ [SearchNext]_searchVars
  /\ [ValidationNext]_validationVars
  /\ [ProfileEditorNext]_profileEditorVars
  /\ [ShortcutsNext]_shortcutVars
  /\ [SettingsNext]_settingsVars

LEMMA PartsMoveAlone == [WorkspaceNext]_workspaceVars => PartsStep
<1> SUFFICES ASSUME [WorkspaceNext]_workspaceVars PROVE PartsStep
  OBVIOUS
<1>0. CASE UNCHANGED workspaceVars
  BY <1>0, Zenon DEF workspaceVars, PartsStep
<1>1. CASE PreviewNext /\ UNCHANGED <<part, editorVars, listingVars, paneVars, trailVars, navigationVars, filterVars, searchVars, validationVars, profileEditorVars, shortcutVars, settingsVars>>
  BY <1>1, Zenon DEF PartsStep
<1>2. CASE EditorNext /\ UNCHANGED <<part, previewVars, listingVars, paneVars, trailVars, navigationVars, filterVars, searchVars, validationVars, profileEditorVars, shortcutVars, settingsVars>>
  BY <1>2, Zenon DEF PartsStep
<1>3. CASE ListingNext /\ UNCHANGED <<part, previewVars, editorVars, paneVars, trailVars, navigationVars, filterVars, searchVars, validationVars, profileEditorVars, shortcutVars, settingsVars>>
  BY <1>3, Zenon DEF PartsStep
<1>4. CASE PaneNext /\ UNCHANGED <<part, previewVars, editorVars, listingVars, trailVars, navigationVars, filterVars, searchVars, validationVars, profileEditorVars, shortcutVars, settingsVars>>
  BY <1>4, Zenon DEF PartsStep
<1>5. CASE TrailNext /\ UNCHANGED <<part, previewVars, editorVars, listingVars, paneVars, navigationVars, filterVars, searchVars, validationVars, profileEditorVars, shortcutVars, settingsVars>>
  BY <1>5, Zenon DEF PartsStep
<1>6. CASE NavigationNext /\ UNCHANGED <<part, previewVars, editorVars, listingVars, paneVars, trailVars, filterVars, searchVars, validationVars, profileEditorVars, shortcutVars, settingsVars>>
  BY <1>6, Zenon DEF PartsStep
<1>7. CASE FilterNext /\ UNCHANGED <<part, previewVars, editorVars, listingVars, paneVars, trailVars, navigationVars, searchVars, validationVars, profileEditorVars, shortcutVars, settingsVars>>
  BY <1>7, Zenon DEF PartsStep
<1>8. CASE SearchNext /\ UNCHANGED <<part, previewVars, editorVars, listingVars, paneVars, trailVars, navigationVars, filterVars, validationVars, profileEditorVars, shortcutVars, settingsVars>>
  BY <1>8, Zenon DEF PartsStep
<1>9. CASE ValidationNext /\ UNCHANGED <<part, previewVars, editorVars, listingVars, paneVars, trailVars, navigationVars, filterVars, searchVars, profileEditorVars, shortcutVars, settingsVars>>
  BY <1>9, Zenon DEF PartsStep
<1>10. CASE ProfileEditorNext /\ UNCHANGED <<part, previewVars, editorVars, listingVars, paneVars, trailVars, navigationVars, filterVars, searchVars, validationVars, shortcutVars, settingsVars>>
  BY <1>10, Zenon DEF PartsStep
<1>11. CASE ShortcutsNext /\ UNCHANGED <<part, previewVars, editorVars, listingVars, paneVars, trailVars, navigationVars, filterVars, searchVars, validationVars, profileEditorVars, settingsVars>>
  BY <1>11, Zenon DEF PartsStep
<1>12. CASE SettingsNext /\ UNCHANGED <<part, previewVars, editorVars, listingVars, paneVars, trailVars, navigationVars, filterVars, searchVars, validationVars, profileEditorVars, shortcutVars>>
  BY <1>12, Zenon DEF PartsStep
<1> QED
  BY <1>0, <1>1, <1>2, <1>3, <1>4, <1>5, <1>6, <1>7, <1>8, <1>9, <1>10, <1>11, <1>12 DEF WorkspaceNext

\* A behaviour of the run is a behaviour of every part: nothing a part does
\* reaches into the state of another one.
THEOREM WorkspaceIsItsParts ==
  WorkspaceSpec => /\ PreviewSpec /\ EditorSpec /\ ListingSpec /\ PaneSpec
                   /\ TrailSpec /\ NavigationSpec /\ FilterSpec /\ SearchSpec
                   /\ ValidationSpec /\ ProfileEditorSpec /\ ShortcutsSpec /\ SettingsRun
<1>1. WorkspaceInit => PartsStart
  BY DEF WorkspaceInit, PartsStart
<1> QED
  BY <1>1, PartsMoveAlone, PTL
     DEF WorkspaceSpec, PartsStart, PartsStep, PreviewSpec, EditorSpec, ListingSpec, PaneSpec, TrailSpec, NavigationSpec, FilterSpec, SearchSpec, ValidationSpec, ProfileEditorSpec, ShortcutsSpec, SettingsRun

\* Whichever part a behaviour of the run moves, its state keeps its type: for
\* any objects, entries, profiles, queries and bounds.
THEOREM WorkspaceTypes == WorkspaceSpec => []WorkspaceTypeOK
<1>1. /\ PreviewTypeOK /\ EditorTypeOK /\ ListingTypeOK /\ PaneTypeOK
      /\ TrailTypeOK /\ NavigationTypeOK /\ FilterTypeOK /\ SearchTypeOK
      /\ ValidationTypeOK /\ ProfileEditorTypeOK /\ ShortcutsTypeOK /\ SettingsTypeOK
      => WorkspaceTypeOK
  BY DEF WorkspaceTypeOK
<1> QED
  BY <1>1, WorkspaceIsItsParts, PreviewTypesAlways, EditorTypeCorrect, ListingTypesAlways,
     PaneTypesAlways, TrailTypesAlways, NavigationTypesAlways, FilterTypesAlways,
     SearchTypesAlways, ValidationTypesAlways, EditorTypesAlways, ShortcutsTypesAlways,
     SettingsTypesAlways, PTL

\* The other invariants of the run, for every instance of it in which no
\* playing element fails (the retry after a failure is not cancelled).
THEOREM WorkspaceIsTrue ==
  ASSUME ~MediaFails
  PROVE  WorkspaceSpec => /\ [](ShownIsSelected /\ TokensReturned)
                          /\ [](QuietListingIsTrue /\ TrailsAreTrue)
                          /\ [](SpinnerCanStop /\ FilterSettles)
                          /\ [](GateIsTrue /\ QuietStoreIsSaved)
<1>1. SettingsRun => []QuietStoreIsSaved
  <2>1. SettingsInit => StoreInv
    BY DEF SettingsInit, StoreInv, UpdatesFit
  <2>2. StoreInv /\ [SettingsNext]_settingsVars => StoreInv'
    BY StoreStep
  <2> QED
    BY <2>1, <2>2, QuietWhenFollowing, PTL DEF SettingsRun
<1> QED
  BY <1>1, WorkspaceIsItsParts, PaneShowsSelected, TokensComeBack, QuietListingFollows,
     TrailsStayTrue, SpinnerAlwaysCanStop, FilterAlwaysSettles, GateTellsTheTruth, PTL

\* What no step of the run does, for every instance.
THEOREM WorkspaceStepsAreSafe ==
  WorkspaceSpec => NoBlindOverwrite /\ InactivePaneIsLeftAlone /\ HistoryIsATrail /\ TypedIsKept
BY WorkspaceIsItsParts, NothingIsOverwrittenBlindly, InactivePanesStay, HistoriesAreTrails,
   TypedStays, PTL

=============================================================================
