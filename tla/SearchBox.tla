----------------------------- MODULE SearchBox -----------------------------
(***************************************************************************)
(* The search overlay of a pane, views/search/SearchBox.tsx: every         *)
(* keystroke and every change of mode is an asynchronous call of its own,  *)
(* and the calls share two references, the id of the running search and    *)
(* the function that stops listening to it.  The walk over the bucket is   *)
(* the backend's; its pages arrive in the order they were sent.            *)
(***************************************************************************)
EXTENDS Naturals, Sequences, FiniteSets

CONSTANTS
  Query,         \* what can be typed, the empty text aside
  MaxCalls,      \* bound: keystrokes, changes of mode, presses of Cancel
  MaxPages       \* bound: pages of one walk

ASSUME SearchAssumption == MaxCalls \in Nat /\ MaxPages \in Nat \ {0}

VARIABLES
  box,          \* the overlay: what it shows and its two references
  searchCalls,  \* [call -> the asynchronous handler it runs, and how far it got]
  hearing,      \* the searches whose listener is attached
  walks,        \* the backend: [call -> its walk]
  pages         \* events on their way

searchVars == <<box, searchCalls, hearing, walks, pages>>

CallId == 1 .. MaxCalls
NoCall == 0
NoText == ""

FreshCall == [runs |-> "nothing", text |-> NoText, phase |-> "unused", stops |-> NoCall]

\* What is shown: the hits of a text, found by the filter or by a walk.
Shows(by, text, count) == [by |-> by, text |-> text, count |-> count]
NoHits == Shows("nobody", NoText, 0)

SearchTypeOK ==
  /\ box \in [open : BOOLEAN, mode : {"filter", "bucket"}, text : Query \cup {NoText},
              hits : [by : {"nobody", "filter", "walk"}, text : Query \cup {NoText},
                      count : 0 .. MaxPages],
              running : BOOLEAN, rid : CallId \cup {NoCall}, unlisten : CallId \cup {NoCall}]
  /\ searchCalls \in [CallId -> [runs : {"nothing", "empty", "filter", "bucket", "goodbye"},
                                 text : Query \cup {NoText},
                                 phase : {"unused", "cancelling", "landed", "listening",
                                          "filtering", "over"},
                                 stops : CallId \cup {NoCall}]]
  /\ hearing \subseteq CallId
  /\ walks \in [CallId -> [state : {"none", "asked", "refused", "walking", "ended"},
                           stop : BOOLEAN, sent : 0 .. MaxPages, heard : 0 .. MaxPages]]

SearchInit ==
  /\ box = [open |-> TRUE, mode |-> "filter", text |-> NoText, hits |-> NoHits,
            running |-> FALSE, rid |-> NoCall, unlisten |-> NoCall]
  /\ searchCalls = [c \in CallId |-> FreshCall]
  /\ hearing = {} /\ pages = <<>>
  /\ walks = [c \in CallId |-> [state |-> "none", stop |-> FALSE, sent |-> 0, heard |-> 0]]

-----------------------------------------------------------------------------
(* The handlers, up to their first await.                                  *)

\* A fresh call: the ids are given in order.
NextCall(c) ==
  /\ box.open /\ searchCalls[c].phase = "unused"
  /\ \A d \in CallId : d < c => searchCalls[d].phase # "unused"

\* The prefix search from the point where nothing runs any more.
Begin(b, c) == [b EXCEPT !.rid = c, !.hits = NoHits, !.running = TRUE]

\* Mutant: the references are cleared, the spinner is left to the listener.
ClearedSpinning(b) == [b EXCEPT !.rid = NoCall, !.unlisten = NoCall]

\* cancelRunningSearch after its await, or at once when no search is known:
\* it clears the references as they are by now.
Cleared(b) == [b EXCEPT !.rid = NoCall, !.unlisten = NoCall, !.running = FALSE]

\* A change of mode then empties the results, whatever it goes on with.
Emptied(b) == [Cleared(b) EXCEPT !.hits = NoHits]

\* What call c does once cancelRunningSearch is through: nothing (the Cancel
\* button), a change of mode with no text or to the filter, or the search.
GoOn(c, runs, text, b) ==
  /\ box' = CASE runs = "bucket" -> Begin(Cleared(b), c)
              [] runs \in {"empty", "filter"} -> Emptied(b)
              [] OTHER -> Cleared(b)
  /\ hearing' = hearing \ {b.unlisten}
  /\ searchCalls' = [searchCalls EXCEPT ![c] =
       [runs |-> runs, text |-> text, stops |-> NoCall,
        phase |-> CASE runs = "bucket" -> "listening" [] runs = "filter" -> "filtering"
                    [] OTHER -> "over"]]

cancelRunningSearch(c, runs, text, b) ==
  IF b.rid = NoCall THEN GoOn(c, runs, text, b)
  ELSE /\ box' = b /\ UNCHANGED hearing
       /\ searchCalls' = [searchCalls EXCEPT ![c] =
            [runs |-> runs, text |-> text, phase |-> "cancelling", stops |-> b.rid]]

handleQueryChange(c, text) ==
  /\ NextCall(c) /\ text # box.text
  /\ IF box.mode = "filter"
       THEN /\ box' = [box EXCEPT !.text = text]
            /\ searchCalls' = [searchCalls EXCEPT ![c] =
                 [FreshCall EXCEPT !.runs = "filter", !.text = text, !.phase = "filtering"]]
            /\ UNCHANGED hearing
       ELSE cancelRunningSearch(c, "bucket", text, [box EXCEPT !.text = text])
  /\ UNCHANGED <<walks, pages>>

handleModeChange(c) ==
  /\ NextCall(c)
  /\ LET mode == IF box.mode = "filter" THEN "bucket" ELSE "filter"
     IN cancelRunningSearch(c, IF box.text = NoText THEN "empty" ELSE mode, box.text,
                            [box EXCEPT !.mode = mode])
  /\ UNCHANGED <<walks, pages>>

\* The button is there while a search runs.
CancelButton(c) ==
  /\ NextCall(c) /\ box.running
  /\ cancelRunningSearch(c, "nothing", NoText, box)
  /\ UNCHANGED <<walks, pages>>

\* Escape or the cross: the cleanup stops the listener it knows of and asks
\* for the search it knows of to be cancelled, and waits for nothing.
CloseSearch(c) ==
  /\ NextCall(c)
  /\ box' = [box EXCEPT !.open = FALSE]
  /\ hearing' = hearing \ {box.unlisten}
  /\ searchCalls' = [searchCalls EXCEPT ![c] =
       [FreshCall EXCEPT !.runs = "goodbye", !.stops = box.rid,
                      !.phase = IF box.rid = NoCall THEN "over" ELSE "cancelling"]]
  /\ UNCHANGED <<walks, pages>>

-----------------------------------------------------------------------------
(* The handlers, after an await.                                           *)

\* searchCancel reaches the backend: it stops a walk it knows.
searchCancel(c) ==
  LET s == searchCalls[c].stops IN
  /\ searchCalls[c].phase = "cancelling"
  /\ walks' = [walks EXCEPT ![s].stop = @ \/ walks[s].state = "walking"]
  /\ searchCalls' = [searchCalls EXCEPT ![c].phase =
                       IF searchCalls[c].runs = "goodbye" THEN "over" ELSE "landed"]
  /\ UNCHANGED <<box, hearing, pages>>

\* ...and has answered.
CancelAnswers(c) ==
  /\ searchCalls[c].phase = "landed"
  /\ GoOn(c, searchCalls[c].runs, searchCalls[c].text, box)
  /\ UNCHANGED <<walks, pages>>

\* listen has attached the listener: the reference to the one before is
\* overwritten, and the walk is asked for.
ListenAnswers(c) ==
  /\ searchCalls[c].phase = "listening"
  /\ searchCalls' = [searchCalls EXCEPT ![c].phase = "over"]
  /\ hearing' = hearing \cup {c}
  /\ box' = [box EXCEPT !.unlisten = c]
  /\ walks' = [walks EXCEPT ![c].state = "asked"]
  /\ UNCHANGED pages

\* runLocalFilter: whatever the mode and the text are by now.
runLocalFilter(c) ==
  /\ searchCalls[c].phase = "filtering"
  /\ searchCalls' = [searchCalls EXCEPT ![c].phase = "over"]
  /\ box' = [box EXCEPT !.hits = Shows("filter", searchCalls[c].text, 0)]
  /\ UNCHANGED <<hearing, walks, pages>>

\* The call is refused: the profile is not validated, the region is wrong.
SearchFails(c) ==
  /\ walks[c].state = "refused"
  /\ walks' = [walks EXCEPT ![c].state = "ended"]
  /\ box' = [box EXCEPT !.running = FALSE]
  /\ UNCHANGED <<searchCalls, hearing, pages>>

\* A page: the listener of its search, if attached, adds it up; the last one
\* stops whichever listener is referenced.
PageArrives ==
  /\ pages # <<>> /\ pages' = Tail(pages)
  /\ LET p == Head(pages) IN
     IF p.of \notin hearing THEN UNCHANGED <<box, hearing, walks>>
     ELSE /\ walks' = [walks EXCEPT ![p.of].heard = @ + p.hits]
          /\ box' = [box EXCEPT
               !.hits = Shows("walk", searchCalls[p.of].text, walks'[p.of].heard),
               !.running = @ /\ ~ p.isFinal,
               !.rid = IF p.isFinal THEN NoCall ELSE @,
               !.unlisten = IF p.isFinal THEN NoCall ELSE @]
          /\ hearing' = IF p.isFinal THEN hearing \ {box.unlisten} ELSE hearing
  /\ UNCHANGED searchCalls

-----------------------------------------------------------------------------
(* The backend.                                                            *)

searchPrefix(c) ==
  /\ walks[c].state = "asked"
  /\ \E s \in {"walking", "refused"} : walks' = [walks EXCEPT ![c].state = s]
  /\ UNCHANGED <<box, searchCalls, hearing, pages>>

\* A page of hits, the last or not; an empty last one when it was stopped or
\* the listing failed.
WalkSends(c) ==
  /\ walks[c].state = "walking"
  /\ \E hits \in {0, 1}, isFinal \in BOOLEAN :
       /\ walks[c].stop => isFinal /\ hits = 0
       /\ hits = 1 => walks[c].sent < MaxPages
       /\ hits = 0 => isFinal
       /\ pages' = Append(pages, [of |-> c, hits |-> hits, isFinal |-> isFinal])
       /\ walks' = [walks EXCEPT ![c].sent = @ + hits,
                                 ![c].state = IF isFinal THEN "ended" ELSE @]
  /\ UNCHANGED <<box, searchCalls, hearing>>

SearchNext ==
  \/ PageArrives
  \/ \E c \in CallId :
       \/ \E q \in Query \cup {NoText} : handleQueryChange(c, q)
       \/ handleModeChange(c) \/ CancelButton(c) \/ CloseSearch(c)
       \/ searchCancel(c) \/ CancelAnswers(c) \/ ListenAnswers(c) \/ runLocalFilter(c)
       \/ SearchFails(c) \/ searchPrefix(c) \/ WalkSends(c)

SearchSpec == SearchInit /\ [][SearchNext]_searchVars

-----------------------------------------------------------------------------
\* A search that can still tell the overlay that it is over.
CanStillEnd(c) ==
  \/ searchCalls[c].phase = "listening"
  \/ walks[c].state \in {"asked", "refused"}
  \/ /\ c \in hearing
     /\ walks[c].state = "walking" \/ \E i \in DOMAIN pages : pages[i].of = c /\ pages[i].isFinal

\* "Searching..." is only up while some search can still take it down: however
\* the calls overtake one another, replace each other's listener and cancel
\* each other's search, no page that would end it goes unheard.
SpinnerCanStop == box.open /\ box.running => \E c \in CallId : CanStillEnd(c)

SearchIsQuiet ==
  /\ pages = <<>>
  /\ \A c \in CallId : /\ searchCalls[c].phase \in {"unused", "over"}
                       /\ walks[c].state \in {"none", "ended"}

\* At rest the overlay shows hits of the text that is in it.
\* The code does not have this: see the README.
HitsAreOfTheText ==
  box.open /\ SearchIsQuiet /\ box.hits.by # "nobody" => box.hits.text = box.text

\* "A Cancel button aborts the walk": when no handler runs any more and the
\* spinner is down, no walk goes on.  The code does not have this either.
StoppedIsStopped ==
  box.open /\ ~ box.running /\ (\A c \in CallId : searchCalls[c].phase \in {"unused", "over"})
  => \A c \in CallId : walks[c].state = "walking" => walks[c].stop

\* Once the overlay is closed and at rest no listener of its is left.
\* The code does not have this either.
NoListenerStays == ~ box.open /\ SearchIsQuiet => hearing = {}
=============================================================================
