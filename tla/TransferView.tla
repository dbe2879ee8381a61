---------------------------- MODULE TransferView ----------------------------
(***************************************************************************)
(* What the user sees of the transfers: the store of rows                  *)
(* (store/transfers.ts), the bridge that applies the backend's events to   *)
(* it (query/client.ts), the places that start transfers and seed rows     *)
(* (file.ts, Toolbar.tsx, DropZone.tsx), the panel, the groups, the rows, the       *)
(* Activity Center and the chip of the status bar.                         *)
(*                                                                         *)
(* A command's answer and the events come over different channels, so the  *)
(* events of a transfer may come before the answer that names it.  Of the  *)
(* backend the model has what it announces; what it fails to announce is   *)
(* the subject of TransferQueue.                                           *)
(***************************************************************************)
EXTENDS Sequences, FiniteSets, Naturals

CONSTANTS
  Transfer,   \* the transfers of the session
  MaxBus      \* bound: events under way at once

VARIABLES
  jobs,      \* what the backend has announced of each transfer
  bus,       \* the events the webview has not handled yet, oldest first
  answers,   \* the answers under way
  rows,      \* the store: [Transfer -> row]
  asked,     \* the transfers the user asked to cancel
  panel,     \* panelOpen, panelMinimized, and whether it came up by itself
  center     \* whether the Activity Center is open

transferVars == <<jobs, bus, answers, rows, asked, panel, center>>

Active == {"queued", "running"}
Completed == {"done", "failed", "canceled"}

\* A row.  "batch" names the gesture that started it by the set of its
\* transfers; a placeholder, which has neither a key nor a batch, has {}.
\* "late" is whether an event of the transfer came before its answer.
Row == [state : Active \cup Completed, batch : SUBSET Transfer, late : BOOLEAN]

NoRow == [state |-> "none"]
Rows == {t \in Transfer : rows[t] # NoRow}

\* An answer under way: the transfers it names, those an event of which came
\* first, and who waits for it.
Answer == [ids : SUBSET Transfer, late : SUBSET Transfer, by : {"command", "view"}]

TransferViewTypeOK ==
  /\ jobs \in [Transfer -> {"none"} \cup Active \cup Completed]
  /\ bus \in Seq([id : Transfer, what : {"progress", "running"} \cup Completed])
  /\ answers \subseteq Answer
  /\ rows \in [Transfer -> Row \cup {NoRow}]
  /\ asked \subseteq Transfer
  /\ panel \in [open : BOOLEAN, minimized : BOOLEAN, surfaced : BOOLEAN]
  /\ center \in BOOLEAN

TransferViewInit ==
  /\ jobs = [t \in Transfer |-> "none"]
  /\ bus = <<>>
  /\ answers = {}
  /\ rows = [t \in Transfer |-> NoRow]
  /\ asked = {}
  /\ panel = [open |-> FALSE, minimized |-> FALSE, surfaced |-> FALSE]
  /\ center = FALSE

-----------------------------------------------------------------------------
(* Starting transfers.                                                     *)

Upsert(t, row) == rows' = [rows EXCEPT ![t] = row]

\* transfer_download_many and transfer_upload_many stop at the first spec
\* that cannot be enqueued: those before it run, and the call is rejected.
Start(s, rejected, by) ==
  /\ \A t \in s : jobs[t] = "none"
  /\ jobs' = [t \in Transfer |-> IF t \in s THEN "queued" ELSE jobs[t]]
  /\ answers' = IF rejected THEN answers ELSE answers \cup {[ids |-> s, late |-> {}, by |-> by]}
  /\ UNCHANGED <<bus, rows, asked, panel, center>>

\* The command file.download: the objects and folders of a selection, listed
\* and confirmed as in BulkDownload.  For a single object it is HandleDownload.
FileDownload(s, rejected) == Start(s, rejected, "command")

\* The toolbar: the selected object, or everything under a prefix.
HandleDownload(s, rejected) == Start(s, rejected, "view")

\* The toolbar's file dialog, and files dropped on the listing.
HandleUpload(s, rejected) == Start(s, rejected, "view")
HandleDrop(s, rejected) == Start(s, rejected, "view")

\* The Retry button: a new transfer, whose id nobody seeds.
Retry(t, new) ==
  /\ rows[t] # NoRow /\ rows[t].state \in {"failed", "canceled"}
  /\ Start({new}, TRUE, "view")

\* The command opens the panel once it has seeded its rows.
OpenPanel == panel' = [panel EXCEPT !.open = TRUE, !.minimized = FALSE]

\* Mutant: what was accepted is shown as running.
SeedTransfersRunning(a) ==
  /\ answers' = answers \ {a}
  /\ rows' = [t \in Transfer |->
                IF t \in a.ids THEN [state |-> "running", batch |-> a.ids, late |-> t \in a.late]
                ELSE rows[t]]
  /\ IF a.by = "command" THEN OpenPanel ELSE UNCHANGED panel
  /\ UNCHANGED <<jobs, bus, asked, center>>

\* seedTransfers: every row is written as queued, whatever was there.
SeedTransfers(a) ==
  /\ answers' = answers \ {a}
  /\ rows' = [t \in Transfer |->
                IF t \in a.ids THEN [state |-> "queued", batch |-> a.ids, late |-> t \in a.late]
                ELSE rows[t]]
  /\ IF a.by = "command" THEN OpenPanel ELSE UNCHANGED panel
  /\ UNCHANGED <<jobs, bus, asked, center>>

-----------------------------------------------------------------------------
(* The backend.                                                            *)

Announce(t, what, state) ==
  /\ Len(bus) < MaxBus
  /\ bus' = Append(bus, [id |-> t, what |-> what])
  /\ jobs' = [jobs EXCEPT ![t] = state]
  /\ UNCHANGED <<answers, rows, asked, panel, center>>

JobRuns(t) == jobs[t] = "queued" /\ Announce(t, "running", "running")

JobProgresses(t) == jobs[t] = "running" /\ Announce(t, "progress", "running")

JobEnds(t) ==
  /\ jobs[t] = "running"
  /\ \E end \in {"done", "failed"} \cup (IF t \in asked THEN {"canceled"} ELSE {}) :
       Announce(t, end, end)

-----------------------------------------------------------------------------
(* The bridge.                                                             *)

\* A transfer without a row gets a placeholder: running, a download, with no
\* name.
ApplyProgressEvent(t) ==
  Upsert(t, IF rows[t] # NoRow THEN rows[t]
            ELSE [state |-> "running", batch |-> {}, late |-> TRUE])

\* Mutant: a failure is left to the notifications.
ApplyStateEventUnlessFailed(t, state) ==
  Upsert(t, IF rows[t] = NoRow \/ state = "failed" THEN rows[t]
            ELSE [rows[t] EXCEPT !.state = state])

\* A transfer without a row is left without one.
ApplyStateEvent(t, state) ==
  Upsert(t, IF rows[t] = NoRow THEN NoRow
            ELSE [rows[t] EXCEPT !.state = state])

OpenPanelMinimized ==
  panel' = [open |-> TRUE, minimized |-> panel.minimized \/ ~panel.open, surfaced |-> TRUE]

\* installEventBridge: the handler of transfer:progress or transfer:state.
Deliver ==
  /\ bus # <<>>
  /\ bus' = Tail(bus)
  /\ LET e == Head(bus) IN
     /\ answers' = {IF e.id \in a.ids THEN [a EXCEPT !.late = @ \cup {e.id}] ELSE a : a \in answers}
     /\ IF e.what = "progress"
        THEN ApplyProgressEvent(e.id) /\ UNCHANGED panel
        ELSE /\ ApplyStateEvent(e.id, e.what)
             /\ IF e.what = "running" THEN OpenPanelMinimized ELSE UNCHANGED panel
  /\ UNCHANGED <<jobs, asked, center>>

-----------------------------------------------------------------------------
(* The panel, the groups and the rows.                                     *)

\* groupByBatch: the batches of two rows or more; the others are shown by
\* themselves.
GroupByBatch(shown) ==
  {g \in {{u \in shown : rows[u].batch = rows[t].batch} : t \in shown} :
     Cardinality(g) > 1 /\ \A t \in g : rows[t].batch # {}}

\* The panel is hidden while the Activity Center is open; minimized it is a
\* pill.  It shows the active and the completed rows separately.
TransferManager ==
  IF center \/ ~panel.open \/ panel.minimized THEN {}
  ELSE {{t \in Rows : rows[t].state \in Active}, {t \in Rows : rows[t].state \in Completed}}

\* matchesFilter.
MatchesFilter(t, filter) ==
  CASE filter = "all"       -> TRUE
    [] filter = "active"    -> rows[t].state \in Active
    [] filter = "completed" -> rows[t].state = "done"
    [] filter = "failed"    -> rows[t].state \in {"failed", "canceled"}

ActivityCenter ==
  IF ~center THEN {}
  ELSE {{t \in Rows : MatchesFilter(t, f)} : f \in {"all", "active", "completed", "failed"}}

Lists == TransferManager \cup ActivityCenter

Cancels(s) ==
  /\ s # {} /\ ~(s \subseteq asked)
  /\ asked' = asked \cup s
  /\ UNCHANGED <<jobs, bus, answers, rows, panel, center>>

\* TransferRow: Cancel is offered for an active row.
Cancel(t) ==
  /\ \E list \in Lists : t \in list
  /\ rows[t].state \in Active
  /\ Cancels({t})

\* TransferGroup: "Cancel all" asks for every active row of the group.
CancelAll ==
  \E list \in Lists : \E g \in GroupByBatch(list) :
    Cancels({t \in g : rows[t].state \in Active})

ClearCompleted ==
  /\ \E list \in Lists : \E t \in list : rows[t].state \in Completed
  /\ rows' = [t \in Transfer |->
                IF rows[t] # NoRow /\ rows[t].state \in Completed THEN NoRow ELSE rows[t]]
  /\ UNCHANGED <<jobs, bus, answers, asked, panel, center>>

TogglePanel ==
  /\ panel' = [panel EXCEPT !.open = ~@]
  /\ UNCHANGED <<jobs, bus, answers, rows, asked, center>>

SetMinimized ==
  /\ panel.open
  /\ panel' = [panel EXCEPT !.minimized = ~@]
  /\ UNCHANGED <<jobs, bus, answers, rows, asked, center>>

\* toggleActivityCenter: from the chip, the panel or the keyboard.
ToggleActivityCenter ==
  /\ center' = ~center
  /\ UNCHANGED <<jobs, bus, answers, rows, asked, panel>>

\* The tone of the chip, without the flash of new work.
ActivityChip == IF \E t \in Rows : rows[t].state \in Active THEN "active" ELSE "idle"

TransferViewNext ==
  \/ \E s \in SUBSET Transfer \ {{}}, rejected \in BOOLEAN :
       \/ FileDownload(s, rejected) \/ HandleDownload(s, rejected)
       \/ HandleUpload(s, rejected) \/ HandleDrop(s, rejected)
  \/ \E a \in answers : SeedTransfers(a)
  \/ \E t \in Transfer :
       \/ \E new \in Transfer : Retry(t, new)
       \/ JobRuns(t) \/ JobProgresses(t) \/ JobEnds(t)
       \/ Cancel(t)
  \/ Deliver
  \/ CancelAll \/ ClearCompleted \/ TogglePanel \/ SetMinimized
  \/ ToggleActivityCenter

\* The webview goes on handling what it is sent.
TransferViewFairness ==
  WF_transferVars(Deliver) /\ WF_transferVars(\E a \in answers : SeedTransfers(a))

TransferViewSpec == TransferViewInit /\ [][TransferViewNext]_transferVars /\ TransferViewFairness

-----------------------------------------------------------------------------
(* Properties.                                                             *)

Pending(t) == (\E a \in answers : t \in a.ids) \/ (\E i \in DOMAIN bus : bus[i].id = t)

\* A row seeded after an event of its transfer: the seed has put it back to
\* "queued", and what the event said is lost.
Overtaken(t) == rows[t].late /\ rows[t].state = "queued"

\* Once the webview has handled everything, a row tells what the backend
\* announced last, or is an overtaken one that stands as queued; so unless
\* one does, the chip is idle when every transfer has ended.
SettledRowsAgree ==
  /\ \A t \in Rows : ~Pending(t) => rows[t].state = jobs[t] \/ Overtaken(t)
  /\ (\A t \in Rows : ~Pending(t) /\ ~Overtaken(t) /\ jobs[t] \in Completed) => ActivityChip = "idle"

\* A row never runs ahead of the backend, whatever overtakes what: what it
\* calls finished has finished that way, and a row the backend has not begun
\* is not called running.
RowsDoNotRunAhead ==
  \A t \in Rows :
    /\ jobs[t] # "none"
    /\ rows[t].state \in Completed => rows[t].state = jobs[t]
    /\ rows[t].state = "running" => jobs[t] # "queued"

\* The rows, as the panel, the Activity Center and the chip show them, are
\* never ahead of the backend, and as soon as nothing is under way they are
\* with it, save those that an answer overtaken by its events left queued.
RowsAgree == SettledRowsAgree /\ RowsDoNotRunAhead

\* The end of every transfer reaches its row, unless the row was cleared or
\* stands as queued after an answer that came late.
RowsSettle ==
  \A t \in Transfer :
    jobs[t] \in Completed ~> (rows[t] = NoRow \/ rows[t].state \in Completed \/ Overtaken(t))

\* The panel comes up "on the first running transition", and not again, "to
\* avoid re-opening a panel the user has explicitly closed".
PanelStaysClosed ==
  [][panel.surfaced /\ ~panel.open => (Deliver => ~panel'.open)]_transferVars
=============================================================================
