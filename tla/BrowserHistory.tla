--------------------------- MODULE BrowserHistory ---------------------------
(***************************************************************************)
(* What Back and Forward promise in one pane: the visited locations form a *)
(* trail; a visit drops what is ahead and goes to the end, Back and        *)
(* Forward move along the trail and change nothing in it.                  *)
(***************************************************************************)
EXTENDS Naturals, Sequences

CONSTANT Location

VARIABLES trail, position

historyVars == <<trail, position>>

HistoryInit == trail = <<>> /\ position = 0

\* Never the location the pane is already at.
Visit ==
  /\ position' = position + 1
  /\ \E l \in Location :
       /\ position > 0 => trail[position] # l
       /\ trail' = Append(SubSeq(trail, 1, position), l)

GoBack == position > 1 /\ position' = position - 1 /\ UNCHANGED trail

GoForward == position < Len(trail) /\ position' = position + 1 /\ UNCHANGED trail

HistoryNext == GoBack \/ GoForward \/ Visit

HistorySpec == HistoryInit /\ [][HistoryNext]_historyVars
=============================================================================
