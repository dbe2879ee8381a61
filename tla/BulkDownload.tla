---------------------------- MODULE BulkDownload ----------------------------
(***************************************************************************)
(* The Download command of several objects or folders: it lists what is    *)
(* below the selected folders while a dialog is open that counts along,    *)
(* and starts when the user confirms (commands/definitions/file.ts,        *)
(* views/transfers/BulkDownloadHost.tsx, BulkDownloadConfirm.tsx).  There  *)
(* is one dialog; a command keeps a handle to it and a promise of the      *)
(* user's decision, and goes on listing whatever becomes of the dialog.    *)
(***************************************************************************)
EXTENDS Naturals

CONSTANTS
  Command,    \* the runs of file.download
  Nobody,
  MaxFiles    \* bound: the files below what was selected

ASSUME BulkAssumption == Nobody \notin Command /\ MaxFiles \in Nat

VARIABLES
  downloads,  \* [Command -> its phase, what it has listed, the decision]
  dialog      \* the request the host shows

bulkVars == <<downloads, dialog>>

\* An estimate is the number of files and whose they are; counting while
\* there is none.
Estimate == [of : Command, files : 0 .. MaxFiles]
Counting == [of |-> Nobody, files |-> 0]

Closed == [of |-> Nobody, estimate |-> Counting, error |-> FALSE]

BulkTypeOK ==
  /\ downloads \in [Command -> [phase : {"none", "listing", "listed", "started", "empty", "dropped"},
                                files : 0 .. MaxFiles, failed : BOOLEAN,
                                decision : {"none", "confirmed", "canceled"},
                                shown : Estimate \cup {Counting}]]
  /\ dialog \in [of : Command \cup {Nobody}, estimate : Estimate \cup {Counting}, error : BOOLEAN]
  /\ dialog.of = Nobody => dialog = Closed

BulkInit ==
  /\ downloads = [c \in Command |-> [phase |-> "none", files |-> 0, failed |-> FALSE,
                                     decision |-> "none", shown |-> Counting]]
  /\ dialog = Closed

-----------------------------------------------------------------------------
(* The host.                                                               *)

\* resolve(confirmed) of the request that is shown; a promise is resolved once.
Resolve(how) ==
  [c \in Command |->
     IF c = dialog.of
     THEN [downloads[c] EXCEPT !.decision = how, !.shown = dialog.estimate]
     ELSE downloads[c]]

\* Mutant: the patch is applied whether or not a request is shown.
UpdateAlways(estimate, failed) == [dialog EXCEPT !.estimate = estimate, !.error = failed]

\* update patches the request that is shown.
Update(estimate, failed) ==
  IF dialog = Closed THEN dialog ELSE [dialog EXCEPT !.estimate = estimate, !.error = failed]

Close(how) ==
  /\ downloads' = Resolve(how)
  /\ dialog' = Closed

\* The buttons of BulkDownloadConfirm.
Confirm ==
  /\ dialog # Closed
  /\ dialog.estimate # Counting /\ ~dialog.error /\ dialog.estimate.files > 0
  /\ Close("confirmed")

CancelDialog == dialog # Closed /\ Close("canceled")

-----------------------------------------------------------------------------
(* The command.                                                            *)

\* Mutant: the request that was shown is dropped without an answer.
RequestDropping(c) ==
  /\ downloads[c].phase = "none"
  /\ downloads' = [downloads EXCEPT ![c].phase = "listing"]
  /\ dialog' = [Closed EXCEPT !.of = c]

\* The destination was picked: the request that was shown is answered no,
\* and the dialog is this command's.
Request(c) ==
  /\ downloads[c].phase = "none"
  /\ downloads' = [Resolve("canceled") EXCEPT ![c].phase = "listing"]
  /\ dialog' = [Closed EXCEPT !.of = c]

\* A page of the listing, or an object that was selected by itself.
ListPage(c) ==
  /\ downloads[c].phase = "listing" /\ downloads[c].files < MaxFiles
  /\ downloads' = [downloads EXCEPT ![c].files = @ + 1]
  /\ UNCHANGED dialog

\* The last page, or an error: the dialog is told.
Listed(c) ==
  /\ downloads[c].phase = "listing"
  /\ \E failed \in BOOLEAN :
       /\ downloads' = [downloads EXCEPT ![c].phase = "listed", ![c].failed = failed]
       /\ dialog' = Update([of |-> c, files |-> downloads[c].files], failed)

\* The decision is awaited when everything is listed.
Decided(c) ==
  /\ downloads[c].phase = "listed" /\ downloads[c].decision # "none"
  /\ downloads' = [downloads EXCEPT ![c].phase =
                     IF downloads[c].decision = "canceled" THEN "dropped"
                     ELSE IF downloads[c].files = 0 THEN "empty"
                     ELSE "started"]
  /\ UNCHANGED dialog

BulkNext ==
  \/ Confirm \/ CancelDialog
  \/ \E c \in Command : Request(c) \/ ListPage(c) \/ Listed(c) \/ Decided(c)

BulkSpec == BulkInit /\ [][BulkNext]_bulkVars

-----------------------------------------------------------------------------
(* Properties.                                                             *)

\* No command waits for a decision nobody can make: while it is undecided,
\* the dialog that is shown is its own.
NobodyWaitsForever ==
  \A c \in Command :
    (downloads[c].phase \in {"listing", "listed"} /\ downloads[c].decision = "none")
      <=> dialog.of = c

\* "The dialog gates Confirm until we report a non-null estimate, so there is
\* no race between listing and the user clicking Start": what is started was
\* listed to the end, and is what the dialog showed.
ConfirmedWasListed ==
  \A c \in Command :
    downloads[c].phase = "started" => /\ ~downloads[c].failed
                                      /\ downloads[c].shown = [of |-> c, files |-> downloads[c].files]
=============================================================================
