---------------------------- MODULE MCTransfersUi ----------------------------
(***************************************************************************)
(* What the frontend shows of work that runs in the backend, on small      *)
(* instances: the transfers, the dialog of a bulk download, the locks in   *)
(* the context menu, the notifications.  These components share no state,  *)
(* so a behaviour picks one of them (`part') and runs it while the others  *)
(* stay as they start.                                                     *)
(***************************************************************************)
EXTENDS TransferView, BulkDownload, LockMenu, Notices

VARIABLE part

MCOpName == [o \in Op |-> o]

TransfersUiInit ==
    /\ part \in {"transfers", "bulk", "locks", "notices"}
    /\ TransferViewInit /\ BulkInit /\ LockMenuInit /\ NoticesInit

TransfersUiNext ==
    \/ /\ part = "transfers" /\ TransferViewNext
       /\ UNCHANGED <<part, bulkVars, lockMenuVars, noticesVars>>
    \/ /\ part = "bulk" /\ BulkNext
       /\ UNCHANGED <<part, transferVars, lockMenuVars, noticesVars>>
    \/ /\ part = "locks" /\ LockMenuNext
       /\ UNCHANGED <<part, transferVars, bulkVars, noticesVars>>
    \/ /\ part = "notices" /\ NoticesNext
       /\ UNCHANGED <<part, transferVars, bulkVars, lockMenuVars>>

TransfersUiSpec ==
    /\ TransfersUiInit
    /\ [][TransfersUiNext]_<<part, transferVars, bulkVars, lockMenuVars, noticesVars>>
    /\ TransferViewFairness

\* Every component's state is of its type.
TransfersUiTypeOK ==
    /\ part = "transfers" => TransferViewTypeOK
    /\ part = "bulk" => BulkTypeOK
    /\ part = "locks" => LockMenuTypeOK
    /\ part = "notices" => NoticesTypeOK
=============================================================================
