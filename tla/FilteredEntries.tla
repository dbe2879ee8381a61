-------------------------- MODULE FilteredEntries --------------------------
(***************************************************************************)
(* What a view shows of a listing when the pane has a filter:              *)
(* views/modes/useFilteredEntries.ts.  A listing up to a thousand entries  *)
(* is filtered while it is rendered; a larger one after a pause in the     *)
(* typing, by a worker that answers in the order it was asked              *)
(* (workers/fuzzy.worker.ts).                                              *)
(***************************************************************************)
EXTENDS Naturals, Sequences

CONSTANTS
  Listing,       \* the listings a view can be given
  Huge,          \* those above MAIN_THREAD_THRESHOLD
  FilterText,    \* what can be typed, the empty text aside
  MaxRenders     \* bound: changes of the listing or of the filter

ASSUME FilterAssumption == Huge \subseteq Listing /\ MaxRenders \in Nat

VARIABLES
  entries,       \* the listing given to the view
  typed,         \* the filter of the active pane
  workerResult,  \* what the worker answered last, or the listing itself
  timer,         \* the request waiting for the pause, or none
  worker,        \* the requests the worker has, and has answered, in order
  requestIdRef   \* number of the last request

filterVars == <<entries, typed, workerResult, timer, worker, requestIdRef>>

NoFilter == ""
NoTimer == [requestId |-> 0]

\* fuzzyFilter: the entries of a listing that match a text, best first.
fuzzyFilter(l, text) == [items |-> l, query |-> text]

Filtered == [items : Listing, query : FilterText \cup {NoFilter}]
FilterRequest == [requestId : 1 .. MaxRenders, items : Listing, query : FilterText]

FilterTypeOK ==
  /\ entries \in Listing /\ typed \in FilterText \cup {NoFilter}
  /\ workerResult \in Filtered
  /\ timer \in FilterRequest \cup {NoTimer}
  /\ worker \in Seq(FilterRequest) /\ requestIdRef \in 0 .. MaxRenders

FilterInit ==
  /\ entries \in Listing /\ typed = NoFilter
  /\ workerResult = fuzzyFilter(entries, NoFilter)
  /\ timer = NoTimer /\ worker = <<>> /\ requestIdRef = 0

\* The path without the worker.
Cheap(l, text) == text = NoFilter \/ l \notin Huge

ShownRows == IF Cheap(entries, typed) THEN fuzzyFilter(entries, typed) ELSE workerResult

\* Mutant: a timer that runs is not replaced.
useFilteredResultOnce(l, text) ==
  /\ <<l, text>> # <<entries, typed>> /\ requestIdRef < MaxRenders
  /\ entries' = l /\ typed' = text
  /\ workerResult' = IF l = entries THEN workerResult ELSE fuzzyFilter(l, NoFilter)
  /\ IF Cheap(l, text) \/ timer # NoTimer
       THEN UNCHANGED <<timer, requestIdRef>>
       ELSE /\ requestIdRef' = requestIdRef + 1
            /\ timer' = [requestId |-> requestIdRef', items |-> l, query |-> text]
  /\ UNCHANGED worker

\* A render with another listing or filter, and its effects: the result is
\* the listing itself again when that changed, the timer is cleared, and a
\* request is armed unless the path without the worker took it.
useFilteredResult(l, text) ==
  /\ <<l, text>> # <<entries, typed>> /\ requestIdRef < MaxRenders
  /\ entries' = l /\ typed' = text
  /\ workerResult' = IF l = entries THEN workerResult ELSE fuzzyFilter(l, NoFilter)
  /\ IF Cheap(l, text)
       THEN timer' = NoTimer /\ UNCHANGED requestIdRef
       ELSE /\ requestIdRef' = requestIdRef + 1
            /\ timer' = [requestId |-> requestIdRef', items |-> l, query |-> text]
  /\ UNCHANGED worker

\* DEBOUNCE_MS have passed.
TimerFires ==
  /\ timer # NoTimer
  /\ worker' = Append(worker, timer) /\ timer' = NoTimer
  /\ UNCHANGED <<entries, typed, workerResult, requestIdRef>>

\* The worker's answer: dropped unless it is to the last request.
runFuzzyFilter ==
  /\ worker # <<>> /\ worker' = Tail(worker)
  /\ workerResult' = IF Head(worker).requestId # requestIdRef THEN workerResult
                     ELSE fuzzyFilter(Head(worker).items, Head(worker).query)
  /\ UNCHANGED <<entries, typed, timer, requestIdRef>>

FilterNext ==
  \/ \E l \in Listing, text \in FilterText \cup {NoFilter} : useFilteredResult(l, text)
  \/ TimerFires \/ runFuzzyFilter

FilterSpec == FilterInit /\ [][FilterNext]_filterVars

-----------------------------------------------------------------------------
\* Once the timer and the worker owe nothing the rows are those of this
\* listing that match this filter, whatever came and went in between.
FilterSettles == timer = NoTimer /\ worker = <<>> => ShownRows = fuzzyFilter(entries, typed)

\* "Reset the worker result when the underlying entries change identity -
\* otherwise a stale filtered view sticks around after navigation": no row of
\* another listing is shown.  The code does not have this: see the README.
RowsAreOfThisListing == ShownRows.items = entries
=============================================================================
