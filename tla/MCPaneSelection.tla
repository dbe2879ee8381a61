--------------------------- MODULE MCPaneSelection ---------------------------
(***************************************************************************)
(* A folder "d" with an object "y", beside an object "x", and the panes    *)
(* that list them.                                                         *)
(***************************************************************************)
EXTENDS PaneSelection, TLC

MCWithin == "d" :> "root" @@ "x" :> "root" @@ "y" :> "d"
MCOrderOf == "d" :> 1 @@ "x" :> 2 @@ "y" :> 3
=============================================================================
