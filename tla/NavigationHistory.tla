------------------------- MODULE NavigationHistory -------------------------
(***************************************************************************)
(* How a pane goes from place to place and back: the tracker of            *)
(* store/history.ts, which watches the store of the panes and keeps two    *)
(* stacks for each, and everything that sets a location: the breadcrumb,   *)
(* Up, the buckets, a folder, a typed path, bookmarks, recent places,      *)
(* profiles.  A prefix is the sequence of its segments; an empty segment   *)
(* is the doubled slash in "a//b/".                                        *)
(***************************************************************************)
EXTENDS Naturals, Sequences, FiniteSets, SequencesExt

CONSTANTS
  Bucket,         \* the buckets of the profile
  Prefix,         \* the folders that exist in each, as sequences of segments
  NoBucket,       \* no bucket: the location is the list of them
  NoLocation,     \* no location: nothing was restored from the last session
  MaxVisits       \* bound: changes of location

ASSUME NavigationAssumption ==
  /\ <<>> \in Prefix /\ \A p \in Prefix : p = <<>> \/ Front(p) \in Prefix
  /\ NoBucket \notin Bucket /\ MaxVisits \in Nat

VARIABLES
  whereIs,      \* [pane that exists -> its location]
  focused,      \* the active pane
  histories,    \* what the tracker keeps: [pane -> back, forward, last]
  visits        \* how many changes there were

navigationVars == <<whereIs, focused, histories, visits>>

Panes == {"main", "second"}

At(bucket, prefix) == [bucket |-> bucket, prefix |-> prefix]

Buckets == At(NoBucket, <<>>)

\* The places there are.
S3Location == {Buckets} \cup {At(b, p) : b \in Bucket, p \in Prefix}

\* The first n parts of a path, as the breadcrumb joins them.
Crumb(prefix, n) ==
  LET parts == SelectSeq(prefix, LAMBDA s : s # "")
  IN [i \in 1 .. 2 * n - 1 |-> IF i % 2 = 1 THEN parts[(i + 1) \div 2] ELSE ""]

Parts(prefix) == Len(SelectSeq(prefix, LAMBDA s : s # ""))

\* The places a pane can be sent to.
Location ==
  S3Location \cup
  UNION {{At(b, SubSeq(Crumb(p, Parts(p)), 1, n)) : n \in 1 .. 2 * Parts(p) - 1} :
            b \in Bucket, p \in Prefix}

\* A path has so many parts, and no place is none.
ASSUME PlacesAssumption ==
  (\A p \in Prefix : Parts(p) \in Nat) /\ NoLocation \notin Location

NoHistory == [back |-> <<>>, forward |-> <<>>, last |-> NoLocation]

NavigationTypeOK ==
  /\ DOMAIN whereIs \in {{"main"}, Panes} /\ focused \in DOMAIN whereIs
  /\ \A p \in DOMAIN whereIs : whereIs[p] \in Location \cup {NoLocation}
  /\ \A p \in Panes : /\ histories[p].last \in Location \cup {NoLocation}
                      /\ ToSet(histories[p].back \o histories[p].forward) \subseteq Location
  /\ visits \in 0 .. MaxVisits

\* The last location is restored before the tracker starts.
NavigationInit ==
  /\ \E l \in S3Location \cup {NoLocation} : whereIs = [p \in {"main"} |-> l]
  /\ focused = "main" /\ visits = 0
  /\ histories = [p \in Panes |-> NoHistory]

-----------------------------------------------------------------------------
(* The tracker.                                                            *)

\* Mutant: a new place does not end the way forward.
installHistoryTrackerKeeping(hs, locations) ==
  [p \in Panes |->
     IF p \notin DOMAIN locations \/ hs[p].last = locations[p] THEN hs[p]
     ELSE [back    |-> IF hs[p].last = NoLocation THEN hs[p].back ELSE Append(hs[p].back, hs[p].last),
           forward |-> hs[p].forward,
           last    |-> locations[p]]]

\* Any change of the store: a pane that is elsewhere than last seen has
\* been navigated.
installHistoryTracker(hs, locations) ==
  [p \in Panes |->
     IF p \notin DOMAIN locations \/ hs[p].last = locations[p] THEN hs[p]
     ELSE [back    |-> IF hs[p].last = NoLocation THEN hs[p].back ELSE Append(hs[p].back, hs[p].last),
           forward |-> IF hs[p].last = NoLocation THEN hs[p].forward ELSE <<>>,
           last    |-> locations[p]]]

\* setLocation from anywhere but the tracker.
GoTo(location) ==
  /\ visits < MaxVisits /\ visits' = visits + 1
  /\ whereIs' = [whereIs EXCEPT ![focused] = location]
  /\ histories' = installHistoryTracker(histories, whereIs')
  /\ UNCHANGED focused

\* Back and Forward move between the stacks; the tracker looks away.
back ==
  LET h == histories[focused] IN
  /\ h.back # <<>>
  /\ visits < MaxVisits /\ visits' = visits + 1
  /\ histories' = [histories EXCEPT ![focused] =
       [back |-> Front(h.back), forward |-> Append(h.forward, h.last), last |-> Last(h.back)]]
  /\ whereIs' = [whereIs EXCEPT ![focused] = Last(h.back)]
  /\ UNCHANGED focused

forward ==
  LET h == histories[focused] IN
  /\ h.forward # <<>>
  /\ visits < MaxVisits /\ visits' = visits + 1
  /\ histories' = [histories EXCEPT ![focused] =
       [back |-> Append(h.back, h.last), forward |-> Front(h.forward), last |-> Last(h.forward)]]
  /\ whereIs' = [whereIs EXCEPT ![focused] = Last(h.forward)]
  /\ UNCHANGED focused

-----------------------------------------------------------------------------
(* Who goes where.                                                         *)

Here == whereIs[focused]

InBucket == Here # NoLocation /\ Here.bucket # NoBucket

\* A folder of the listing.
OpenFolder(p) ==
  /\ InBucket /\ p # <<>> /\ Front(p) = Here.prefix
  /\ GoTo(At(Here.bucket, p))

\* The command: above the root of a bucket is the list of buckets.
NavUp ==
  /\ InBucket
  /\ GoTo(IF Here.prefix = <<>> THEN Buckets ELSE At(Here.bucket, Front(Here.prefix)))

\* Backspace in a list: the root of the bucket is the end.
ParentPrefix == InBucket /\ Here.prefix # <<>> /\ GoTo(At(Here.bucket, Front(Here.prefix)))

\* The segments of the breadcrumb: profile, bucket, and each folder.
buildSegments ==
  {Buckets} \cup
  (IF InBucket THEN {At(Here.bucket, <<>>)} \cup
                    {At(Here.bucket, Crumb(Here.prefix, n)) : n \in 1 .. Parts(Here.prefix)}
   ELSE {})

\* More than four of them are collapsed to the first and the last two.
collapseSegments ==
  LET n == Parts(Here.prefix) IN
  IF InBucket /\ n + 2 > 4
  THEN {Buckets, At(Here.bucket, <<>>)} \cup {At(Here.bucket, Crumb(Here.prefix, i)) : i \in {n - 1, n}}
  ELSE buildSegments

Breadcrumb(l) == Here # NoLocation /\ l \in collapseSegments /\ GoTo(l)

\* A path typed into the breadcrumb; the user types one that exists.
parsePath(l) == Here # NoLocation /\ l.bucket # NoBucket /\ GoTo(l)

BucketListView(b) == Here = Buckets /\ GoTo(At(b, <<>>))

\* The sidebar: a bookmark or a recent place, and a profile.
Bookmark(l) == l.bucket # NoBucket /\ GoTo(l)

ProfileRow == GoTo(Buckets)

-----------------------------------------------------------------------------
(* The panes.                                                              *)

\* The dual view splits the pane; the store has changed.
SplitPane ==
  /\ DOMAIN whereIs = {"main"} /\ InBucket
  /\ whereIs' = [p \in Panes |-> whereIs["main"]]
  /\ histories' = installHistoryTracker(histories, whereIs')
  /\ UNCHANGED <<focused, visits>>

\* Another pane is activated, a row is selected, a filter typed.
OtherChange ==
  /\ focused' \in DOMAIN whereIs
  /\ histories' = installHistoryTracker(histories, whereIs)
  /\ UNCHANGED <<whereIs, visits>>

NavigationNext ==
  \/ back \/ forward \/ NavUp \/ ParentPrefix \/ ProfileRow \/ SplitPane \/ OtherChange
  \/ \E p \in Prefix : OpenFolder(p)
  \/ \E b \in Bucket : BucketListView(b)
  \/ \E l \in Location : Breadcrumb(l)
  \/ \E l \in S3Location : parsePath(l) \/ Bookmark(l)

NavigationSpec == NavigationInit /\ [][NavigationNext]_navigationVars

-----------------------------------------------------------------------------
(* Properties.                                                             *)

\* The trail of a pane, from the oldest location to the newest.
TrailOf(p) ==
  LET h == histories[p] IN
  IF h.last = NoLocation THEN <<>> ELSE h.back \o <<h.last>> \o Reverse(h.forward)

PositionOf(p) == IF histories[p].last = NoLocation THEN 0 ELSE Len(histories[p].back) + 1

MainHistory == INSTANCE BrowserHistory WITH trail <- TrailOf("main"), position <- PositionOf("main")
SecondHistory == INSTANCE BrowserHistory WITH trail <- TrailOf("second"), position <- PositionOf("second")

\* Each pane has the history of a browser window: two stacks that are fed
\* by watching another store, and fed around it by Back and Forward, are
\* one trail with a position in it.
HistoryIsATrail == MainHistory!HistorySpec /\ SecondHistory!HistorySpec

\* Where the tracker believes a pane to be is where it is: Back does not
\* leave a place the user never saw.
HistoryKnowsWhereItIs ==
  \A p \in DOMAIN whereIs :
    histories[p].last # NoLocation => histories[p].last = whereIs[p]

\* "Each segment is a button that calls `usePanesStore.setLocation(...)`":
\* the panes are at places that exist.
EveryLocationExists ==
  \A p \in DOMAIN whereIs : whereIs[p] \in S3Location \cup {NoLocation}
=============================================================================
