------------------------------ MODULE Notices -------------------------------
(***************************************************************************)
(* How the interface tells the user what went wrong: the policy that maps  *)
(* an error to where it is shown (lib/errors.ts), the list of notices      *)
(* (store/notifications.ts), the Notifications Center and its chip in the  *)
(* status bar, and the toasts.  The chip counts the notices that are newer *)
(* than the last opening of the center; the center shares the main pane    *)
(* with the Activity Center, one of them at a time (store/ui.ts).          *)
(*                                                                         *)
(* No two events happen in one millisecond: the clock moves with each.     *)
(***************************************************************************)
EXTENDS Naturals, FiniteSets

CONSTANTS MaxClock      \* bound: events that are stamped

ASSUME NoticesAssumption == MaxClock \in Nat

VARIABLES
  notices,    \* the store
  toasts,     \* the stamps of the toasts that are shown
  inline,     \* errors left to an inline slot of the caller
  notesPane,  \* which full-pane view is open, and the center's filter
  lastSeen,   \* notificationsLastSeenAt
  clock

noticesVars == <<notices, toasts, inline, notesPane, lastSeen, clock>>

Context == {"background", "userInitiated"}

AppErrorKind ==
  {"Cancelled", "Network", "Internal", "RateLimited", "Auth", "AccessDenied", "Validation",
   "Locked", "NotFound", "Conflict", "Unsupported", "ProviderSpecific"}

Placement == {"silent", "panel", "panel+toast", "panel+inline", "inline"}

Severity == {"info", "warning", "error", "success"}

\* "seen" is not in the code: whether the center has displayed it.
Notice == [at : 1 .. MaxClock, severity : Severity, transfer : BOOLEAN, seen : BOOLEAN]

NoticesTypeOK ==
  /\ \A n \in notices : n \in Notice
  /\ toasts \subseteq 1 .. MaxClock
  /\ inline \in 0 .. MaxClock
  /\ notesPane \in [open : {"list", "notifications", "activity"}, filter : {"all"} \cup Severity]
  /\ lastSeen \in 0 .. MaxClock /\ clock \in 0 .. MaxClock

NoticesInit ==
  /\ notices = {} /\ toasts = {} /\ inline = 0
  /\ notesPane = [open |-> "list", filter |-> "all"]
  /\ lastSeen = 0 /\ clock = 0

-----------------------------------------------------------------------------
(* The policy.                                                             *)

Present(kind, context) ==
  CASE kind = "Cancelled" -> [placement |-> "silent", severity |-> "info"]
    [] kind \in {"Network", "RateLimited", "Conflict", "Unsupported"} ->
         [placement |-> "panel+toast", severity |-> "warning"]
    [] kind \in {"Internal", "ProviderSpecific"} ->
         [placement |-> "panel+toast", severity |-> "error"]
    [] kind \in {"Auth", "AccessDenied"} ->
         [placement |-> IF context = "background" THEN "panel" ELSE "panel+toast",
          severity |-> "error"]
    [] kind = "Validation" ->
         [placement |-> IF context = "userInitiated" THEN "inline" ELSE "panel+inline",
          severity |-> "error"]
    [] kind = "Locked"   -> [placement |-> "panel+inline", severity |-> "warning"]
    [] kind = "NotFound" -> [placement |-> "panel+inline", severity |-> "error"]

NonTransferEntries(among) == {n \in among : ~n.transfer}

MatchesSeverity(n, filter) == filter \in {"all", n.severity}

\* The entries the center displays: seen from now on.
Displayed(among, pane) ==
  {[n EXCEPT !.seen = n.seen \/ (/\ pane.open = "notifications"
                                 /\ n \in NonTransferEntries(among)
                                 /\ MatchesSeverity(n, pane.filter))] : n \in among}

\* The store puts it first, the toaster shows it for five seconds.
Dispatch(n, placement) ==
  /\ clock < MaxClock /\ clock' = clock + 1
  /\ notices' = IF placement \in {"silent", "inline"} THEN notices
                ELSE Displayed(notices \cup {n}, notesPane)
  /\ toasts' = IF placement = "panel+toast" THEN toasts \cup {n.at} ELSE toasts
  /\ inline' = IF placement = "inline" THEN inline + 1 ELSE inline
  /\ UNCHANGED <<notesPane, lastSeen>>

NoticeNow(severity, transfer) ==
  [at |-> clock + 1, severity |-> severity, transfer |-> transfer, seen |-> FALSE]

SurfaceError ==
  \E kind \in AppErrorKind, context \in Context, transfer \in BOOLEAN :
    LET policy == Present(kind, context) IN
    /\ policy.placement # "silent"
    /\ Dispatch(NoticeNow(policy.severity, transfer), policy.placement)

\* What is no AppError is shown as an error, whoever asked.
SurfaceUnknownError ==
  \E transfer \in BOOLEAN : Dispatch(NoticeNow("error", transfer), "panel+toast")

\* notification:new: the backend tells of transfers only.
NotificationNew ==
  \E severity \in Severity : Dispatch(NoticeNow(severity, TRUE), "panel")

-----------------------------------------------------------------------------
(* The user.                                                               *)

Pane(open) == [open |-> open, filter |-> "all"]

\* Opening the center stamps the moment; its filter starts at "all".
ToggleNotificationsCenter ==
  /\ clock < MaxClock /\ clock' = clock + 1
  /\ notesPane' = Pane(IF notesPane.open = "notifications" THEN "list" ELSE "notifications")
  /\ lastSeen' = IF notesPane.open = "notifications" THEN lastSeen ELSE clock + 1
  /\ notices' = Displayed(notices, notesPane')
  /\ UNCHANGED <<toasts, inline>>

\* Mutant: either destination counts as having looked at the notices.
ActivityCountsAsLooking ==
  /\ notesPane' = Pane(IF notesPane.open = "activity" THEN "list" ELSE "activity")
  /\ lastSeen' = clock
  /\ UNCHANGED <<notices, toasts, inline, clock>>

\* The other destination takes the pane.
ActivityTakesPane ==
  /\ notesPane' = Pane(IF notesPane.open = "activity" THEN "list" ELSE "activity")
  /\ UNCHANGED <<notices, toasts, inline, lastSeen, clock>>

\* The filters and the search of the center.
NotificationsCenter ==
  /\ notesPane.open = "notifications"
  /\ \E filter \in {"all"} \cup Severity :
       /\ notesPane' = [notesPane EXCEPT !.filter = filter]
       /\ notices' = Displayed(notices, notesPane')
  /\ UNCHANGED <<toasts, inline, lastSeen, clock>>

\* The row's button; ids are made of the time.
NotificationRow(n) ==
  /\ notesPane.open = "notifications"
  /\ n \in NonTransferEntries(notices) /\ MatchesSeverity(n, notesPane.filter)
  /\ notices' = {m \in notices : m.at # n.at}
  /\ UNCHANGED <<toasts, inline, notesPane, lastSeen, clock>>

\* "Clear all" clears what the filter hides too.
ClearAll ==
  /\ notesPane.open = "notifications" /\ NonTransferEntries(notices) # {}
  /\ notices' = {}
  /\ UNCHANGED <<toasts, inline, notesPane, lastSeen, clock>>

\* A toast is dismissed or its time is up.
ToastItem(at) ==
  /\ toasts' = toasts \ {at}
  /\ UNCHANGED <<notices, inline, notesPane, lastSeen, clock>>

\* The number on the chip.
NotificationsChip == Cardinality({n \in NonTransferEntries(notices) : n.at > lastSeen})

NoticesNext ==
  \/ SurfaceError \/ SurfaceUnknownError \/ NotificationNew
  \/ ToggleNotificationsCenter \/ ActivityTakesPane \/ NotificationsCenter \/ ClearAll
  \/ \E n \in notices : NotificationRow(n)
  \/ \E at \in toasts : ToastItem(at)

NoticesSpec == NoticesInit /\ [][NoticesNext]_noticesVars

-----------------------------------------------------------------------------
(* Properties.                                                             *)

\* A notice the center has never displayed is counted by the chip: whatever
\* opens, closes or takes the pane, and whatever the filter hides, no notice
\* passes for seen that was not.
UnseenIsCounted ==
  Cardinality({n \in NonTransferEntries(notices) : ~n.seen}) <= NotificationsChip
=============================================================================
