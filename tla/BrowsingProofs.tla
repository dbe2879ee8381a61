--------------------------- MODULE BrowsingProofs ----------------------------
(***************************************************************************)
(* What a pane shows of where it is stays true, for any buckets, folders,  *)
(* entries, panes, listings and searches.  The parts share no step: each   *)
(* has a section with an invariant of its own.                             *)
(*                                                                         *)
(* History: the trail of a pane reads its two stacks as one sequence       *)
(* (AcrossThePlace), so moving the current location from one stack to the  *)
(* other leaves the trail as it is, and what the tracker does to a pane    *)
(* that is elsewhere is a visit.  The tracker sees a pane elsewhere only   *)
(* when it has been sent there (HistoryFits).                              *)
(*                                                                         *)
(* Filter and search: the last thing that was asked for, or the end of     *)
(* what runs, is on its way for as long as the screen does not show it.    *)
(*                                                                         *)
(* Tree and columns: the path of the columns goes down folder by folder,   *)
(* so no folder is in two columns, and a column or a branch that is not    *)
(* what its folder holds has a listing to come.                            *)
(***************************************************************************)
EXTENDS NavigationHistory, FilteredEntries, SearchBox, FolderTrails, PaneSelection,
        OptimisticListing, FunctionTheorems, FiniteSetTheorems, SequenceTheorems, TLAPS

-----------------------------------------------------------------------------
(* Queues.                                                                 *)

LEMMA QueueAppend ==
  ASSUME NEW E, NEW q \in Seq(E), NEW e \in E
  PROVE  /\ Append(q, e) \in Seq(E) /\ Len(Append(q, e)) = Len(q) + 1
         /\ \A i \in 1 .. Len(q) : Append(q, e)[i] = q[i]
         /\ Append(q, e)[Len(q) + 1] = e
BY AppendProperties

LEMMA QueueTail ==
  ASSUME NEW E, NEW q \in Seq(E), q # <<>>
  PROVE  /\ Head(q) \in E /\ Head(q) = q[1] /\ Tail(q) \in Seq(E)
         /\ Len(q) \in Nat /\ Len(q) > 0 /\ Len(Tail(q)) = Len(q) - 1
         /\ \A i \in 1 .. Len(q) - 1 : Tail(q)[i] = q[i + 1]
BY HeadTailProperties, EmptySeq

-----------------------------------------------------------------------------
(* One pane: its two stacks and its trail.                                 *)

PaneHistory ==
  [back : Seq(Location), forward : Seq(Location), last : Location \cup {NoLocation}]

\* Before its first location a pane has no history.
Sound(h) ==
  /\ h \in PaneHistory
  /\ h.last = NoLocation => h.back = <<>> /\ h.forward = <<>>

Trail(h) == IF h.last = NoLocation THEN <<>> ELSE h.back \o <<h.last>> \o Reverse(h.forward)

Position(h) == IF h.last = NoLocation THEN 0 ELSE Len(h.back) + 1

\* What BrowserHistory allows, of one record and the next.
OneMorePlace(h, g) ==
  /\ Position(g) = Position(h) + 1
  /\ \E l \in Location :
       /\ Position(h) > 0 => Trail(h)[Position(h)] # l
       /\ Trail(g) = Append(SubSeq(Trail(h), 1, Position(h)), l)

WentBack(h, g) == Position(h) > 1 /\ Position(g) = Position(h) - 1 /\ Trail(g) = Trail(h)

WentForward(h, g) ==
  Position(h) < Len(Trail(h)) /\ Position(g) = Position(h) + 1 /\ Trail(g) = Trail(h)

PaneStep(h, g) == g = h \/ OneMorePlace(h, g) \/ WentBack(h, g) \/ WentForward(h, g)

LEMMA ReverseReads ==
  ASSUME NEW s \in Seq(Location)
  PROVE  /\ Reverse(s) \in Seq(Location) /\ Len(Reverse(s)) = Len(s)
         /\ \A i \in 1 .. Len(s) : Reverse(s)[i] = s[Len(s) + 1 - i]
  <1>1. Len(s) \in Nat /\ \A i \in 1 .. Len(s) : s[i] \in Location
    BY LenProperties, ElementOfSeq
  <1>2. \A i \in 1 .. Len(s) :
          Len(s) - i + 1 \in 1 .. Len(s) /\ Len(s) - i + 1 = Len(s) + 1 - i
    BY <1>1
  <1>3. Reverse(s) = [i \in 1 .. Len(s) |-> s[Len(s) - i + 1]]
    BY DEF Reverse
  <1>4. Reverse(s) \in [1 .. Len(s) -> Location]
    BY <1>1, <1>2, <1>3
  <1>5. Reverse(s) \in Seq(Location)
    BY <1>1, <1>4
  <1>6. Len(Reverse(s)) = Len(s)
    BY <1>1, <1>4, <1>5, LenProperties
  <1> QED
    BY <1>2, <1>3, <1>5, <1>6

LEMMA ReverseAppend ==
  ASSUME NEW s \in Seq(Location), NEW l \in Location
  PROVE  Reverse(Append(s, l)) = <<l>> \o Reverse(s)
  <1> DEFINE a == Append(s, l)
             r == Reverse(a)
             q == Reverse(s)
             n == Len(s)
  <1>1. n \in Nat
    BY LenProperties
  <1>2. /\ a \in Seq(Location) /\ Len(a) = n + 1 /\ a[n + 1] = l
        /\ \A i \in 1 .. n : a[i] = s[i]
    BY AppendProperties
  <1>3. /\ q \in Seq(Location) /\ Len(q) = n
        /\ \A i \in 1 .. n : q[i] = s[n + 1 - i]
    BY ReverseReads
  <1> HIDE DEF a
  <1>4. /\ r \in Seq(Location) /\ Len(r) = Len(a)
        /\ \A i \in 1 .. Len(a) : r[i] = a[Len(a) + 1 - i]
    BY <1>2, ReverseReads
  <1>5. <<l>> \in Seq(Location) /\ Len(<<l>>) = 1 /\ <<l>>[1] = l
    OBVIOUS
  <1> DEFINE c == <<l>> \o q
  <1>6. /\ c \in Seq(Location) /\ Len(c) = 1 + Len(q)
        /\ \A i \in 1 .. 1 + Len(q) : c[i] = IF i <= 1 THEN <<l>>[i] ELSE q[i - 1]
    <2> HIDE DEF q
    <2>1. /\ c \in Seq(Location) /\ Len(c) = Len(<<l>>) + Len(q)
          /\ \A i \in 1 .. Len(<<l>>) + Len(q) :
               c[i] = IF i <= Len(<<l>>) THEN <<l>>[i] ELSE q[i - Len(<<l>>)]
      BY <1>3, <1>5, ConcatProperties
    <2> QED
      BY <1>5, <2>1
  <1> HIDE DEF c, q, r, n
  <1>7. ASSUME NEW i \in 1 .. Len(r)
        PROVE  r[i] = c[i]
    <2>1. i \in 1 .. n + 1 /\ r[i] = a[n + 2 - i]
      BY <1>1, <1>2, <1>4
    <2>2. CASE i = 1
      BY <1>1, <1>2, <1>3, <1>5, <1>6, <2>1, <2>2
    <2>3. CASE i # 1
      <3>1. i - 1 \in 1 .. n /\ n + 2 - i \in 1 .. n /\ n + 1 - (i - 1) = n + 2 - i
        BY <1>1, <2>1, <2>3
      <3>2. c[i] = q[i - 1]
        BY <1>1, <1>3, <1>6, <2>1, <2>3
      <3>3. q[i - 1] = s[n + 1 - (i - 1)]
        BY <1>3, <3>1
      <3> QED
        BY <1>2, <2>1, <3>1, <3>2, <3>3
    <2> QED
      BY <2>2, <2>3
  <1>8. Len(r) = Len(c)
    BY <1>1, <1>2, <1>3, <1>4, <1>6
  <1>9. r = c
    BY <1>4, <1>6, <1>7, <1>8, SeqEqual
  <1> QED
    BY <1>9 DEF r, c, q, a

\* The trail is the way here, the place, and the way forward from its top.
Across(b, l, f) == b \o <<l>> \o Reverse(f)

\* A place that goes from one stack to the other leaves the trail alone.
LEMMA AcrossThePlace ==
  ASSUME NEW b \in Seq(Location), NEW f \in Seq(Location),
         NEW k \in Location, NEW l \in Location
  PROVE  Across(Append(b, k), l, f) = Across(b, k, Append(f, l))
  <1>1. <<k>> \in Seq(Location) /\ <<l>> \in Seq(Location) /\ Reverse(f) \in Seq(Location)
    BY ReverseReads
  <1>2. Append(b, k) = b \o <<k>>
    BY AppendIsConcat
  <1>3. Reverse(Append(f, l)) = <<l>> \o Reverse(f)
    BY ReverseAppend
  <1> DEFINE bk == b \o <<k>>
             r == Reverse(f)
  <1>4. bk \in Seq(Location)
    BY <1>1, ConcatProperties
  <1> HIDE DEF r
  <1>5. (bk \o <<l>>) \o r = bk \o (<<l>> \o r)
    <2> HIDE DEF bk
    <2> QED
      BY <1>1, <1>4, ConcatAssociative DEF r
  <1> QED
    BY <1>2, <1>3, <1>5 DEF Across, r

LEMMA AcrossTypes ==
  ASSUME NEW b \in Seq(Location), NEW f \in Seq(Location), NEW l \in Location
  PROVE  /\ Across(b, l, f) \in Seq(Location)
         /\ Len(b) \in Nat /\ Len(f) \in Nat
         /\ Len(Across(b, l, f)) = Len(b) + 1 + Len(f)
         /\ Across(b, l, f)[Len(b) + 1] = l
         /\ SubSeq(Across(b, l, f), 1, Len(b) + 1) = Append(b, l)
         /\ Across(b, l, <<>>) = Append(b, l)
  <1> DEFINE a == Append(b, l)
             r == Reverse(f)
             t == a \o r
             n == Len(b) + 1
  <1>1. Len(b) \in Nat /\ Len(f) \in Nat
    BY LenProperties
  <1>2. a \in Seq(Location) /\ Len(a) = n /\ a[n] = l /\ a = b \o <<l>>
    BY AppendProperties, AppendIsConcat
  <1>3. r \in Seq(Location) /\ Len(r) = Len(f)
    BY ReverseReads
  <1>4. Across(b, l, f) = t
    BY <1>2 DEF Across
  <1>5. Across(b, l, <<>>) = a
    <2>1. <<>> \in Seq(Location) /\ Len(<<>>) = 0
      BY EmptySeq
    <2>2. Reverse(<<>>) \in Seq(Location) /\ Len(Reverse(<<>>)) = 0
      BY <2>1, ReverseReads
    <2>3. Reverse(<<>>) = <<>>
      BY <2>2, EmptySeq
    <2>4. Across(b, l, <<>>) = a \o <<>>
      BY <1>2, <2>3 DEF Across
    <2> HIDE DEF a
    <2> QED
      BY <1>2, <2>4, ConcatEmptySeq
  <1>6. a \in Seq(Location) /\ Len(a) = n /\ a[n] = l
    BY <1>2
  <1> HIDE DEF a, r, n
  <1>7. n \in Nat /\ n >= 1 /\ n = Len(b) + 1
    BY <1>1 DEF n
  <1>8. /\ t \in Seq(Location) /\ Len(t) = Len(a) + Len(r)
        /\ \A i \in 1 .. Len(a) + Len(r) : t[i] = IF i <= Len(a) THEN a[i] ELSE r[i - Len(a)]
    BY <1>3, <1>6, ConcatProperties
  <1>9. SubSeq(t, 1, n) = SubSeq(a, 1, n)
    BY <1>3, <1>6, <1>7, SubSeqOfConcat1
  <1>10. SubSeq(a, 1, n) = a
    BY <1>6, SubSeqFull
  <1>11. Len(t) = n + Len(f) /\ t[n] = l
    BY <1>1, <1>3, <1>6, <1>7, <1>8
  <1> QED
    BY <1>1, <1>4, <1>5, <1>7, <1>8, <1>9, <1>10, <1>11 DEF n, a

LEMMA AppendEnds ==
  ASSUME NEW s \in Seq(Location), NEW l \in Location
  PROVE  Front(Append(s, l)) = s /\ Last(Append(s, l)) = l
  <1> DEFINE a == Append(s, l)
             n == Len(s)
             q == SubSeq(a, 1, n)
  <1>1. n \in Nat
    BY LenProperties
  <1>2. /\ Len(a) = n + 1 /\ a[n + 1] = l
        /\ \A i \in 1 .. n : a[i] = s[i] /\ a[i] \in Location
    BY AppendProperties, ElementOfSeq
  <1> HIDE DEF a
  <1>3. q \in Seq(Location) /\ Len(q) = n /\ \A i \in 1 .. n : q[i] = s[i]
    <2>1. /\ SubSeq(a, 1, n) \in Seq(Location)
          /\ Len(SubSeq(a, 1, n)) = IF 1 <= n THEN n - 1 + 1 ELSE 0
          /\ \A i \in 1 .. n - 1 + 1 : SubSeq(a, 1, n)[i] = a[1 + i - 1]
      BY <1>1, <1>2, SubSeqProperties
    <2> QED
      BY <1>1, <1>2, <2>1
  <1> HIDE DEF q
  <1>4. q = s
    BY <1>3, SeqEqual
  <1>5. Len(a) - 1 = n
    BY <1>1, <1>2
  <1>6. Front(a) = q /\ Last(a) = l
    BY <1>2, <1>5 DEF Front, Last, q
  <1> QED
    BY <1>4, <1>6 DEF a

LEMMA TrailIsAcross ==
  ASSUME NEW h, h.last # NoLocation
  PROVE  Trail(h) = Across(h.back, h.last, h.forward) /\ Position(h) = Len(h.back) + 1
  BY DEF Trail, Across, Position

LEMMA SoundTrail ==
  ASSUME NEW h, Sound(h), h.last # NoLocation
  PROVE  /\ Len(h.back) \in Nat /\ Len(h.forward) \in Nat
         /\ Position(h) = Len(h.back) + 1
         /\ Len(Trail(h)) = Len(h.back) + 1 + Len(h.forward)
         /\ Trail(h)[Len(h.back) + 1] = h.last
         /\ SubSeq(Trail(h), 1, Len(h.back) + 1) = Append(h.back, h.last)
         /\ h.forward = <<>> => Trail(h) = Append(h.back, h.last)
  <1> DEFINE b == h.back
             l == h.last
             f == h.forward
  <1>1. b \in Seq(Location) /\ f \in Seq(Location) /\ l \in Location
    BY DEF Sound, PaneHistory
  <1>2. Trail(h) = Across(b, l, f) /\ Position(h) = Len(b) + 1
    BY TrailIsAcross
  <1> HIDE DEF b, l, f
  <1>3. /\ Len(b) \in Nat /\ Len(f) \in Nat
        /\ Len(Across(b, l, f)) = Len(b) + 1 + Len(f)
        /\ Across(b, l, f)[Len(b) + 1] = l
        /\ SubSeq(Across(b, l, f), 1, Len(b) + 1) = Append(b, l)
        /\ Across(b, l, <<>>) = Append(b, l)
    BY <1>1, AcrossTypes
  <1>4. /\ Len(Trail(h)) = Len(b) + 1 + Len(f)
        /\ Trail(h)[Len(b) + 1] = l
        /\ SubSeq(Trail(h), 1, Len(b) + 1) = Append(b, l)
        /\ f = <<>> => Trail(h) = Append(b, l)
    BY <1>2, <1>3
  <1> QED
    BY <1>2, <1>3, <1>4 DEF b, l, f

LEMMA SoundParts ==
  ASSUME NEW h, Sound(h)
  PROVE  /\ h.back \in Seq(Location) /\ h.forward \in Seq(Location)
         /\ h.last \in Location \cup {NoLocation}
         /\ h.back # <<>> \/ h.forward # <<>> => h.last \in Location
  BY DEF Sound, PaneHistory

\* Back, and Forward, of one pane.
LEMMA BackIsAStep ==
  ASSUME NEW h, Sound(h), h.back # <<>>, NEW g,
         g = [back |-> Front(h.back), forward |-> Append(h.forward, h.last), last |-> Last(h.back)]
  PROVE  Sound(g) /\ WentBack(h, g) /\ g.last = Last(h.back) /\ g.last \in Location
  <1>1. h.back \in Seq(Location) /\ h.forward \in Seq(Location) /\ h.last \in Location
    BY SoundParts
  <1>2. PICK b \in Seq(Location), k \in Location : h.back = Append(b, k)
    BY <1>1, SequenceEmptyOrAppend
  <1>3. g.back = b /\ g.last = k
    BY <1>2, AppendEnds
  <1>4. g.forward = Append(h.forward, h.last) /\ g.forward \in Seq(Location)
    BY <1>1, AppendProperties
  <1>5. Sound(g) /\ g.last # NoLocation /\ h.last # NoLocation
    BY <1>1, <1>3, <1>4, PlacesAssumption DEF Sound, PaneHistory
  <1>6. Trail(g) = Trail(h)
    <2>1. Trail(h) = Across(Append(b, k), h.last, h.forward)
      BY <1>2, <1>5, TrailIsAcross
    <2>2. Trail(g) = Across(b, k, Append(h.forward, h.last))
      BY <1>3, <1>4, <1>5, TrailIsAcross
    <2> QED
      BY <1>1, <2>1, <2>2, AcrossThePlace
  <1>7. Len(h.back) = Len(b) + 1 /\ Len(b) \in Nat
    BY <1>2, AppendProperties, LenProperties
  <1>8. Position(h) = Len(h.back) + 1 /\ Position(g) = Len(b) + 1
    BY <1>3, <1>5, TrailIsAcross
  <1> QED
    BY <1>3, <1>5, <1>6, <1>7, <1>8 DEF WentBack

LEMMA ForwardIsAStep ==
  ASSUME NEW h, Sound(h), h.forward # <<>>, NEW g,
         g = [back |-> Append(h.back, h.last), forward |-> Front(h.forward), last |-> Last(h.forward)]
  PROVE  Sound(g) /\ WentForward(h, g) /\ g.last = Last(h.forward) /\ g.last \in Location
  <1>1. h.back \in Seq(Location) /\ h.forward \in Seq(Location) /\ h.last \in Location
    BY SoundParts
  <1>2. PICK f \in Seq(Location), k \in Location : h.forward = Append(f, k)
    BY <1>1, SequenceEmptyOrAppend
  <1>3. g.forward = f /\ g.last = k
    BY <1>2, AppendEnds
  <1>4. g.back = Append(h.back, h.last) /\ g.back \in Seq(Location)
    BY <1>1, AppendProperties
  <1>5. Sound(g) /\ g.last # NoLocation /\ h.last # NoLocation
    BY <1>1, <1>3, <1>4, PlacesAssumption DEF Sound, PaneHistory
  <1>6. Trail(g) = Trail(h)
    <2>1. Trail(h) = Across(h.back, h.last, Append(f, k))
      BY <1>2, <1>5, TrailIsAcross
    <2>2. Trail(g) = Across(Append(h.back, h.last), k, f)
      BY <1>3, <1>4, <1>5, TrailIsAcross
    <2> QED
      BY <1>1, <2>1, <2>2, AcrossThePlace
  <1>7. /\ Len(h.forward) = Len(f) + 1 /\ Len(f) \in Nat
        /\ Len(g.back) = Len(h.back) + 1 /\ Len(h.back) \in Nat
    BY <1>1, <1>2, <1>4, AppendProperties, LenProperties
  <1>8. /\ Position(h) = Len(h.back) + 1 /\ Position(g) = Len(g.back) + 1
        /\ Len(Trail(h)) = Len(h.back) + 1 + Len(h.forward)
    BY <1>5, SoundTrail, TrailIsAcross
  <1>9. Position(h) < Len(Trail(h)) /\ Position(g) = Position(h) + 1
    <2> DEFINE n == Len(h.back)
               m == Len(h.forward)
               q == Len(g.back)
    <2>1. /\ m = Len(f) + 1 /\ Len(f) \in Nat /\ n \in Nat /\ q = n + 1
          /\ Position(h) = n + 1 /\ Position(g) = q + 1 /\ Len(Trail(h)) = n + 1 + m
      BY <1>7, <1>8
    <2> HIDE DEF n, m, q
    <2> QED
      BY <2>1
  <1> QED
    BY <1>3, <1>5, <1>6, <1>9 DEF WentForward

\* What the tracker makes of the history of a pane it sees at a location.
Tracked(h, l) ==
  IF h.last = l THEN h
  ELSE [back    |-> IF h.last = NoLocation THEN h.back ELSE Append(h.back, h.last),
        forward |-> IF h.last = NoLocation THEN h.forward ELSE <<>>,
        last    |-> l]

LEMMA TrackedIsAStep ==
  ASSUME NEW h, Sound(h), NEW l \in Location
  PROVE  Sound(Tracked(h, l)) /\ PaneStep(h, Tracked(h, l)) /\ Tracked(h, l).last = l
  <1>1. CASE h.last = l
    BY <1>1 DEF Tracked, PaneStep
  <1>2. CASE h.last # l /\ h.last = NoLocation
    <2> DEFINE g == [back |-> <<>>, forward |-> <<>>, last |-> l]
    <2>1. h.back = <<>> /\ h.forward = <<>> /\ Tracked(h, l) = g
      BY <1>2 DEF Sound, Tracked
    <2>2. <<>> \in Seq(Location) /\ Len(<<>>) = 0
      BY EmptySeq
    <2>3. g.last # NoLocation /\ g.back = <<>> /\ g.forward = <<>> /\ g.last = l
      BY PlacesAssumption
    <2>4. Sound(g)
      BY <2>2, <2>3 DEF Sound, PaneHistory
    <2> HIDE DEF g
    <2>5. Trail(g) = Append(<<>>, l) /\ Position(g) = 1
      <3>1. Trail(g) = Append(g.back, g.last) /\ Position(g) = Len(g.back) + 1
        BY <2>3, <2>4, SoundTrail
      <3>2. Len(g.back) = 0
        BY <2>2, <2>3
      <3> QED
        BY <2>3, <3>1, <3>2
    <2>6. Trail(h) = <<>> /\ Position(h) = 0
      BY <1>2 DEF Trail, Position
    <2>7. SubSeq(Trail(h), 1, Position(h)) = <<>>
      BY <2>6, SubSeqEmpty
    <2>8. OneMorePlace(h, g)
      BY <2>5, <2>6, <2>7 DEF OneMorePlace
    <2> QED
      BY <2>1, <2>3, <2>4, <2>8 DEF PaneStep
  <1>3. CASE h.last # l /\ h.last # NoLocation
    <2> DEFINE g == [back |-> Append(h.back, h.last), forward |-> <<>>, last |-> l]
    <2>1. Tracked(h, l) = g
      BY <1>3 DEF Tracked
    <2>2. h.back \in Seq(Location) /\ h.forward \in Seq(Location) /\ h.last \in Location
      BY <1>3, SoundParts
    <2>3. /\ g.last # NoLocation /\ g.last = l /\ g.forward = <<>>
          /\ g.back = Append(h.back, h.last) /\ g.back \in Seq(Location)
          /\ Len(g.back) = Len(h.back) + 1
      BY <2>2, PlacesAssumption, AppendProperties
    <2>4. Sound(g)
      BY <2>3, EmptySeq DEF Sound, PaneHistory
    <2> HIDE DEF g
    <2>5. Trail(g) = Append(g.back, l) /\ Position(g) = Len(g.back) + 1
      BY <2>3, <2>4, SoundTrail
    <2>6. /\ Position(h) = Len(h.back) + 1 /\ Trail(h)[Position(h)] = h.last
          /\ SubSeq(Trail(h), 1, Position(h)) = g.back
      BY <1>3, <2>3, SoundTrail
    <2>7. OneMorePlace(h, g)
      BY <1>3, <2>3, <2>5, <2>6 DEF OneMorePlace
    <2> QED
      BY <2>1, <2>3, <2>4, <2>7 DEF PaneStep
  <1> QED
    BY <1>1, <1>2, <1>3

-----------------------------------------------------------------------------
(* All panes.                                                              *)

HistoryFits ==
  /\ histories \in [Panes -> PaneHistory] /\ \A p \in Panes : Sound(histories[p])
  /\ DOMAIN whereIs \subseteq Panes /\ focused \in DOMAIN whereIs
  /\ whereIs \in [DOMAIN whereIs -> Location \cup {NoLocation}]
  /\ \A p \in Panes :
       histories[p].last # NoLocation => p \in DOMAIN whereIs /\ whereIs[p] = histories[p].last

Steps == \A p \in Panes : PaneStep(histories[p], histories'[p])

LEMMA HistoryFitsInit == NavigationInit => HistoryFits
  <1> SUFFICES ASSUME NavigationInit
               PROVE  HistoryFits
    OBVIOUS
  <1>1. NoHistory \in PaneHistory /\ Sound(NoHistory) /\ NoHistory.last = NoLocation
    BY EmptySeq DEF NoHistory, PaneHistory, Sound
  <1>2. S3Location \subseteq Location
    BY DEF Location
  <1>3. PICK l \in S3Location \cup {NoLocation} : whereIs = [p \in {"main"} |-> l]
    BY DEF NavigationInit
  <1>4. histories = [p \in Panes |-> NoHistory] /\ focused = "main"
    BY DEF NavigationInit
  <1> QED
    BY <1>1, <1>2, <1>3, <1>4 DEF HistoryFits, Panes

\* The tracker, when the panes are where they were, or were sent to a place.
LEMMA TrackerStep ==
  ASSUME HistoryFits, NEW w,
         DOMAIN whereIs \subseteq DOMAIN w, DOMAIN w \subseteq Panes,
         w = [p \in DOMAIN w |-> w[p]],
         \A p \in DOMAIN w : w[p] \in Location \/ (p \in DOMAIN whereIs /\ w[p] = whereIs[p]),
         histories' = installHistoryTracker(histories, w), whereIs' = w, focused' \in DOMAIN w
  PROVE  HistoryFits' /\ Steps
  <1>1. \A p \in Panes : histories[p] \in PaneHistory /\ Sound(histories[p])
    BY DEF HistoryFits
  <1>2. ASSUME NEW p \in DOMAIN w, w[p] \in Location
        PROVE  /\ Sound(histories'[p]) /\ PaneStep(histories[p], histories'[p])
               /\ histories'[p].last = w[p]
    <2>1. histories'[p] = Tracked(histories[p], w[p])
      BY DEF installHistoryTracker, Tracked
    <2> QED
      BY <1>1, <1>2, <2>1, TrackedIsAStep
  <1>3. ASSUME NEW p \in DOMAIN w, w[p] \notin Location
        PROVE  histories'[p] = histories[p] /\ histories[p].last = w[p] /\ w[p] = NoLocation
    <2>1. p \in DOMAIN whereIs /\ w[p] = whereIs[p] /\ whereIs[p] = NoLocation
      BY <1>3 DEF HistoryFits
    <2>2. histories[p].last = NoLocation
      BY <2>1 DEF HistoryFits
    <2> QED
      BY <2>1, <2>2 DEF installHistoryTracker
  <1>4. ASSUME NEW p \in Panes, p \notin DOMAIN w
        PROVE  histories'[p] = histories[p] /\ histories[p].last = NoLocation
    BY <1>4 DEF HistoryFits, installHistoryTracker
  <1>5. ASSUME NEW p \in Panes
        PROVE  /\ Sound(histories'[p]) /\ PaneStep(histories[p], histories'[p])
               /\ histories'[p].last # NoLocation => p \in DOMAIN w /\ w[p] = histories'[p].last
    BY <1>1, <1>2, <1>3, <1>4 DEF PaneStep
  <1>6. histories' \in [Panes -> PaneHistory]
    <2>1. histories' = [p \in Panes |-> histories'[p]]
      BY DEF installHistoryTracker
    <2> QED
      BY <1>5, <2>1 DEF Sound
  <1>7. w \in [DOMAIN w -> Location \cup {NoLocation}]
    BY <1>3
  <1> QED
    BY <1>5, <1>6, <1>7 DEF HistoryFits, Steps

LEMMA GoToStep ==
  ASSUME HistoryFits, NEW l \in Location, GoTo(l)
  PROVE  HistoryFits' /\ Steps
  <1> DEFINE w == [whereIs EXCEPT ![focused] = l]
  <1>1. whereIs' = w /\ histories' = installHistoryTracker(histories, w) /\ focused' = focused
    BY DEF GoTo
  <1>2. /\ DOMAIN w = DOMAIN whereIs /\ w = [p \in DOMAIN w |-> w[p]]
        /\ \A p \in DOMAIN w : w[p] \in Location \/ (p \in DOMAIN whereIs /\ w[p] = whereIs[p])
    BY DEF HistoryFits
  <1>3. DOMAIN whereIs \subseteq Panes /\ focused \in DOMAIN whereIs
    BY DEF HistoryFits
  <1> HIDE DEF w
  <1> QED
    BY <1>1, <1>2, <1>3, TrackerStep

\* A step of one pane along its trail; the tracker looks away.
LEMMA AlongStep ==
  ASSUME HistoryFits, NEW g,
         Sound(g), PaneStep(histories[focused], g), g.last \in Location,
         histories' = [histories EXCEPT ![focused] = g],
         whereIs' = [whereIs EXCEPT ![focused] = g.last], focused' = focused
  PROVE  HistoryFits' /\ Steps
  <1>1. focused \in Panes /\ focused \in DOMAIN whereIs /\ g \in PaneHistory
    BY DEF HistoryFits, Sound
  <1>2. /\ histories' \in [Panes -> PaneHistory]
        /\ histories'[focused] = g
        /\ \A p \in Panes \ {focused} : histories'[p] = histories[p]
    BY <1>1 DEF HistoryFits
  <1>3. /\ DOMAIN whereIs' = DOMAIN whereIs /\ whereIs'[focused] = g.last
        /\ whereIs' \in [DOMAIN whereIs -> Location \cup {NoLocation}]
        /\ \A p \in DOMAIN whereIs \ {focused} : whereIs'[p] = whereIs[p]
    BY <1>1 DEF HistoryFits
  <1>4. HistoryFits'
    BY <1>1, <1>2, <1>3 DEF HistoryFits
  <1>5. Steps
    BY <1>2 DEF Steps, PaneStep
  <1> QED
    BY <1>4, <1>5

\* What contains a place is a place.
LEMMA FolderAbove ==
  ASSUME NEW l \in Location, l.bucket # NoBucket, l.prefix # <<>>
  PROVE  At(l.bucket, Front(l.prefix)) \in Location
  <1>1. CASE l \in S3Location
    <2>1. l.bucket \in Bucket /\ l.prefix \in Prefix
      BY <1>1 DEF S3Location, Buckets, At
    <2> QED
      BY <2>1, NavigationAssumption DEF Location, S3Location
  <1>2. CASE l \notin S3Location
    <2>1. PICK b \in Bucket, p \in Prefix :
            \E n \in 1 .. 2 * Parts(p) - 1 : l = At(b, SubSeq(Crumb(p, Parts(p)), 1, n))
      BY <1>2 DEF Location
    <2>2. PICK n \in 1 .. 2 * Parts(p) - 1 : l = At(b, SubSeq(Crumb(p, Parts(p)), 1, n))
      BY <2>1
    <2> DEFINE c == Crumb(p, Parts(p))
    <2>3. l.bucket = b /\ l.prefix = SubSeq(c, 1, n)
      BY <2>2 DEF At
    <2>4. Parts(p) \in Nat
      BY PlacesAssumption
    <2> HIDE DEF c
    <2>5. n \in Nat /\ n >= 1 /\ n <= 2 * Parts(p) - 1
      BY <2>4
    <2>6. Front(SubSeq(c, 1, n)) = SubSeq(c, 1, n - 1)
      <3> DEFINE S == {c[i] : i \in 1 .. n}
                 s == SubSeq(c, 1, n)
                 f == SubSeq(s, 1, n - 1)
                 d == SubSeq(c, 1, n - 1)
      <3>1. /\ s \in Seq(S) /\ Len(s) = n
            /\ \A i \in 1 .. n : s[i] = c[i] /\ s[i] \in S
        <4>1. \A i \in 1 .. n : c[i] \in S
          OBVIOUS
        <4> HIDE DEF S
        <4>2. /\ SubSeq(c, 1, n) \in Seq(S)
              /\ Len(SubSeq(c, 1, n)) = IF 1 <= n THEN n - 1 + 1 ELSE 0
              /\ \A i \in 1 .. n - 1 + 1 : SubSeq(c, 1, n)[i] = c[1 + i - 1]
          BY <2>5, <4>1, SubSeqProperties
        <4> QED
          BY <2>5, <4>1, <4>2
      <3>2. /\ d \in Seq(S) /\ Len(d) = n - 1
            /\ \A i \in 1 .. n - 1 : d[i] = c[i]
        <4>1. \A i \in 1 .. n - 1 : c[i] \in S
          BY <2>5
        <4> HIDE DEF S
        <4>2. /\ SubSeq(c, 1, n - 1) \in Seq(S)
              /\ Len(SubSeq(c, 1, n - 1)) = IF 1 <= n - 1 THEN n - 1 - 1 + 1 ELSE 0
              /\ \A i \in 1 .. n - 1 - 1 + 1 : SubSeq(c, 1, n - 1)[i] = c[1 + i - 1]
          BY <2>5, <4>1, SubSeqProperties
        <4> QED
          BY <2>5, <4>2
      <3> HIDE DEF s, S
      <3>3. /\ f \in Seq(S) /\ Len(f) = n - 1
            /\ \A i \in 1 .. n - 1 : f[i] = s[i]
        <4>1. \A i \in 1 .. n - 1 : s[i] \in S
          BY <2>5, <3>1
        <4>2. /\ SubSeq(s, 1, n - 1) \in Seq(S)
              /\ Len(SubSeq(s, 1, n - 1)) = IF 1 <= n - 1 THEN n - 1 - 1 + 1 ELSE 0
              /\ \A i \in 1 .. n - 1 - 1 + 1 : SubSeq(s, 1, n - 1)[i] = s[1 + i - 1]
          BY <2>5, <4>1, SubSeqProperties
        <4> QED
          BY <2>5, <4>2
      <3> HIDE DEF f, d
      <3>4. \A i \in 1 .. n - 1 : f[i] = d[i]
        BY <2>5, <3>1, <3>2, <3>3
      <3>5. f = d
        BY <3>2, <3>3, <3>4, SeqEqual
      <3> QED
        BY <3>1, <3>5 DEF Front, s, f, d
    <2>7. CASE n = 1
      <3>1. SubSeq(c, 1, n - 1) = <<>>
        BY <2>7, SubSeqEmpty
      <3>2. At(l.bucket, Front(l.prefix)) = At(b, <<>>)
        BY <2>3, <2>6, <3>1
      <3>3. At(b, <<>>) \in S3Location
        BY NavigationAssumption DEF S3Location
      <3> QED
        BY <3>2, <3>3 DEF Location
    <2>8. CASE n # 1
      <3>1. n - 1 \in 1 .. 2 * Parts(p) - 1
        BY <2>4, <2>5, <2>8
      <3>2. At(b, SubSeq(c, 1, n - 1)) \in
              {At(b, SubSeq(c, 1, i)) : i \in 1 .. 2 * Parts(p) - 1}
        BY <3>1
      <3> DEFINE crumbs(x, y) ==
                   {At(x, SubSeq(Crumb(y, Parts(y)), 1, i)) : i \in 1 .. 2 * Parts(y) - 1}
      <3>3. At(b, SubSeq(c, 1, n - 1)) \in crumbs(b, p)
        BY <3>2 DEF c
      <3>4. Location = S3Location \cup UNION {crumbs(x, y) : x \in Bucket, y \in Prefix}
        BY DEF Location
      <3> HIDE DEF crumbs
      <3>5. At(b, SubSeq(c, 1, n - 1)) \in Location
        BY <3>3, <3>4
      <3> QED
        BY <2>3, <2>6, <3>5
    <2> QED
      BY <2>7, <2>8
  <1> QED
    BY <1>1, <1>2

\* Every place that is gone to is a place.
LEMMA EveryStep ==
  ASSUME HistoryFits, NavigationNext
  PROVE  HistoryFits' /\ Steps
  <1>1. S3Location \subseteq Location /\ Buckets \in Location /\ <<>> \in Prefix
    BY NavigationAssumption DEF Location, S3Location
  <1>2. focused \in DOMAIN whereIs /\ focused \in Panes /\ Sound(histories[focused])
    BY DEF HistoryFits
  <1>3. InBucket => Here \in Location /\ Here.bucket # NoBucket
    BY <1>2 DEF InBucket, Here, HistoryFits
  <1>4. InBucket => Here.bucket \in Bucket
    <2>1. \A l \in Location : l.bucket \in Bucket \cup {NoBucket}
      BY DEF Location, S3Location, Buckets, At
    <2> QED
      BY <1>3, <2>1
  <1>5. CASE back
    <2> DEFINE h == histories[focused]
               g == [back |-> Front(h.back), forward |-> Append(h.forward, h.last), last |-> Last(h.back)]
    <2>1. /\ h.back # <<>> /\ histories' = [histories EXCEPT ![focused] = g]
          /\ whereIs' = [whereIs EXCEPT ![focused] = Last(h.back)] /\ focused' = focused
      BY <1>5 DEF back
    <2>2. Sound(g) /\ WentBack(h, g) /\ g.last = Last(h.back) /\ g.last \in Location
      BY <1>2, <2>1, BackIsAStep
    <2> HIDE DEF g
    <2> QED
      BY <2>1, <2>2, AlongStep DEF PaneStep
  <1>6. CASE forward
    <2> DEFINE h == histories[focused]
               g == [back |-> Append(h.back, h.last), forward |-> Front(h.forward), last |-> Last(h.forward)]
    <2>1. /\ h.forward # <<>> /\ histories' = [histories EXCEPT ![focused] = g]
          /\ whereIs' = [whereIs EXCEPT ![focused] = Last(h.forward)] /\ focused' = focused
      BY <1>6 DEF forward
    <2>2. Sound(g) /\ WentForward(h, g) /\ g.last = Last(h.forward) /\ g.last \in Location
      BY <1>2, <2>1, ForwardIsAStep
    <2> HIDE DEF g
    <2> QED
      BY <2>1, <2>2, AlongStep DEF PaneStep
  <1>7. CASE NavUp
    <2>1. Here.prefix # <<>> => At(Here.bucket, Front(Here.prefix)) \in Location
      BY <1>3, <1>7, FolderAbove DEF NavUp
    <2> QED
      BY <1>1, <1>7, <2>1, GoToStep DEF NavUp
  <1>8. CASE ParentPrefix
    <2>1. At(Here.bucket, Front(Here.prefix)) \in Location
      BY <1>3, <1>8, FolderAbove DEF ParentPrefix
    <2> QED
      BY <1>8, <2>1, GoToStep DEF ParentPrefix
  <1>9. CASE ProfileRow
    BY <1>1, <1>9, GoToStep DEF ProfileRow
  <1>10. CASE SplitPane
    <2> DEFINE w == [p \in Panes |-> whereIs["main"]]
    <2>1. /\ whereIs' = w /\ histories' = installHistoryTracker(histories, w) /\ focused' = focused
          /\ DOMAIN whereIs = {"main"} /\ InBucket
      BY <1>10 DEF SplitPane
    <2>2. whereIs["main"] \in Location
      BY <1>2, <1>3, <2>1 DEF Here
    <2>3. /\ DOMAIN w = Panes /\ w = [p \in DOMAIN w |-> w[p]]
          /\ \A p \in DOMAIN w : w[p] \in Location
      BY <2>2
    <2>4. DOMAIN whereIs \subseteq Panes
      BY DEF HistoryFits
    <2> HIDE DEF w
    <2> QED
      BY <1>2, <2>1, <2>3, <2>4, TrackerStep
  <1>11. CASE OtherChange
    <2>1. /\ whereIs' = whereIs /\ histories' = installHistoryTracker(histories, whereIs)
          /\ focused' \in DOMAIN whereIs
      BY <1>11 DEF OtherChange
    <2>2. DOMAIN whereIs \subseteq Panes /\ whereIs = [p \in DOMAIN whereIs |-> whereIs[p]]
      BY DEF HistoryFits
    <2> QED
      BY <2>1, <2>2, TrackerStep
  <1>12. CASE \E p \in Prefix : OpenFolder(p)
    <2>1. PICK p \in Prefix : OpenFolder(p)
      BY <1>12
    <2>2. At(Here.bucket, p) \in Location
      BY <1>4, <2>1 DEF OpenFolder, Location, S3Location
    <2> QED
      BY <2>1, <2>2, GoToStep DEF OpenFolder
  <1>13. CASE \E b \in Bucket : BucketListView(b)
    <2>1. PICK b \in Bucket : BucketListView(b)
      BY <1>13
    <2>2. At(b, <<>>) \in Location
      BY <1>1 DEF Location, S3Location
    <2> QED
      BY <2>1, <2>2, GoToStep DEF BucketListView
  <1>14. CASE \E l \in Location : Breadcrumb(l)
    BY <1>14, GoToStep DEF Breadcrumb
  <1>15. CASE \E l \in S3Location : parsePath(l) \/ Bookmark(l)
    <2>1. PICK l \in S3Location : GoTo(l)
      BY <1>15 DEF parsePath, Bookmark
    <2> QED
      BY <1>1, <2>1, GoToStep
  <1> QED
    BY <1>5, <1>6, <1>7, <1>8, <1>9, <1>10, <1>11, <1>12, <1>13, <1>14, <1>15 DEF NavigationNext

LEMMA HistoryFitsStep ==
  HistoryFits /\ [NavigationNext]_navigationVars => HistoryFits' /\ Steps
  <1> SUFFICES ASSUME HistoryFits, [NavigationNext]_navigationVars
               PROVE  HistoryFits' /\ Steps
    OBVIOUS
  <1>1. CASE NavigationNext
    BY <1>1, EveryStep
  <1>2. CASE UNCHANGED navigationVars
    BY <1>2 DEF navigationVars, HistoryFits, Steps, PaneStep
  <1> QED
    BY <1>1, <1>2

(***************************************************************************)
(* Where the tracker believes a pane to be is where it is, however the     *)
(* stacks are fed and the panes split.                                     *)
(***************************************************************************)
THEOREM HistoryKnowsThePlace == NavigationSpec => []HistoryKnowsWhereItIs
  <1>1. HistoryFits => HistoryKnowsWhereItIs
    BY DEF HistoryFits, HistoryKnowsWhereItIs
  <1> QED
    BY <1>1, HistoryFitsInit, HistoryFitsStep, PTL DEF NavigationSpec

(***************************************************************************)
(* Each pane has the history of a browser window: every step leaves its    *)
(* trail, visits a place, or moves along it.                               *)
(***************************************************************************)
THEOREM HistoriesAreTrails == NavigationSpec => HistoryIsATrail
  <1>1. NavigationInit => MainHistory!HistoryInit /\ SecondHistory!HistoryInit
    BY DEF NavigationInit, MainHistory!HistoryInit, SecondHistory!HistoryInit,
           TrailOf, PositionOf, NoHistory, Panes
  <1>2. Steps => [MainHistory!HistoryNext]_(MainHistory!historyVars)
    <2> SUFFICES ASSUME PaneStep(histories["main"], histories'["main"])
                 PROVE  [MainHistory!HistoryNext]_(MainHistory!historyVars)
      BY DEF Steps, Panes
    <2> QED
      BY DEF PaneStep, OneMorePlace, WentBack, WentForward, Trail, Position, TrailOf, PositionOf,
             MainHistory!HistoryNext, MainHistory!historyVars, MainHistory!Visit,
             MainHistory!GoBack, MainHistory!GoForward
  <1>3. Steps => [SecondHistory!HistoryNext]_(SecondHistory!historyVars)
    <2> SUFFICES ASSUME PaneStep(histories["second"], histories'["second"])
                 PROVE  [SecondHistory!HistoryNext]_(SecondHistory!historyVars)
      BY DEF Steps, Panes
    <2> QED
      BY DEF PaneStep, OneMorePlace, WentBack, WentForward, Trail, Position, TrailOf, PositionOf,
             SecondHistory!HistoryNext, SecondHistory!historyVars, SecondHistory!Visit,
             SecondHistory!GoBack, SecondHistory!GoForward
  <1> QED
    BY <1>1, <1>2, <1>3, HistoryFitsInit, HistoryFitsStep, PTL
       DEF NavigationSpec, HistoryIsATrail, MainHistory!HistorySpec, SecondHistory!HistorySpec

-----------------------------------------------------------------------------
(* The filter.                                                             *)

AnyRequest == [requestId : Nat \ {0}, items : Listing, query : FilterText]

\* The request r is for what is listed and typed now.
Current(r) == fuzzyFilter(r.items, r.query) = fuzzyFilter(entries, typed)

\* A timer has the last request, and the worker none like it.  While the
\* worker is needed, the last request is for what is shown, and it is under
\* way or answered.
FilterInv ==
  /\ requestIdRef \in Nat
  /\ timer \in AnyRequest \cup {NoTimer} /\ worker \in Seq(AnyRequest)
  /\ timer # NoTimer => timer.requestId = requestIdRef
  /\ \A i \in 1 .. Len(worker) :
       /\ worker[i].requestId <= requestIdRef
       /\ timer # NoTimer => worker[i].requestId # requestIdRef
  /\ ~Cheap(entries, typed) =>
       /\ timer # NoTimer => Current(timer)
       /\ \A i \in 1 .. Len(worker) : worker[i].requestId = requestIdRef => Current(worker[i])
       /\ \/ timer # NoTimer
          \/ \E i \in 1 .. Len(worker) : worker[i].requestId = requestIdRef
          \/ workerResult = fuzzyFilter(entries, typed)

LEMMA RenderKeeps ==
  ASSUME FilterInv, NEW l \in Listing, NEW text \in FilterText \cup {NoFilter}, useFilteredResult(l, text)
  PROVE  FilterInv'
<1>1. entries' = l /\ typed' = text /\ worker' = worker
  BY DEF useFilteredResult
<1>2. CASE Cheap(l, text)
  <2>1. timer' = NoTimer /\ requestIdRef' = requestIdRef /\ Cheap(entries, typed)'
    BY <1>1, <1>2 DEF useFilteredResult, Cheap
  <2> QED
    BY <1>1, <2>1 DEF FilterInv
<1>3. CASE ~Cheap(l, text)
  <2> DEFINE r == [requestId |-> requestIdRef + 1, items |-> l, query |-> text]
  <2>1. requestIdRef' = requestIdRef + 1 /\ timer' = r
    BY <1>3 DEF useFilteredResult
  <2>2. /\ r \in AnyRequest /\ r.requestId = requestIdRef + 1
        /\ fuzzyFilter(r.items, r.query) = fuzzyFilter(l, text)
        /\ r # NoTimer
    <3>1. text \in FilterText /\ requestIdRef + 1 \in Nat \ {0}
      BY <1>3 DEF Cheap, FilterInv
    <3> QED
      BY <3>1 DEF AnyRequest, NoTimer
  <2> HIDE DEF r
  <2>3. Current(timer)'
    BY <1>1, <2>1, <2>2 DEF Current
  <2>4. \A i \in 1 .. Len(worker) : worker[i].requestId <= requestIdRef /\ worker[i].requestId \in Nat
    <3>1. \A i \in 1 .. Len(worker) : worker[i] \in AnyRequest
      BY ElementOfSeq DEF FilterInv
    <3> QED
      BY <3>1 DEF FilterInv, AnyRequest
  <2> QED
    BY <1>1, <2>1, <2>2, <2>3, <2>4 DEF FilterInv
<1> QED
  BY <1>2, <1>3

LEMMA TimerKeeps ==
  ASSUME FilterInv, TimerFires
  PROVE  FilterInv'
<1>1. /\ timer # NoTimer /\ worker' = Append(worker, timer) /\ timer' = NoTimer
      /\ UNCHANGED <<entries, typed, workerResult, requestIdRef>>
      /\ (Cheap(entries, typed)' <=> Cheap(entries, typed))
  BY DEF TimerFires, Cheap
<1>2. /\ worker' \in Seq(AnyRequest) /\ Len(worker) \in Nat /\ Len(worker') = Len(worker) + 1
      /\ \A i \in 1 .. Len(worker) : worker'[i] = worker[i]
      /\ worker'[Len(worker) + 1] = timer
  BY <1>1, QueueAppend DEF FilterInv
<1>3. \A r : Current(r)' <=> Current(r)
  BY <1>1 DEF Current
<1>4. \A i \in 1 .. Len(worker') : worker'[i].requestId <= requestIdRef
  BY <1>1, <1>2 DEF FilterInv
<1>5. ASSUME ~Cheap(entries, typed)
      PROVE  /\ \A i \in 1 .. Len(worker') : worker'[i].requestId = requestIdRef => Current(worker'[i])
             /\ \E i \in 1 .. Len(worker') : worker'[i].requestId = requestIdRef
  BY <1>1, <1>2, <1>5 DEF FilterInv
<1> QED
  BY <1>1, <1>2, <1>3, <1>4, <1>5 DEF FilterInv

LEMMA WorkerKeeps ==
  ASSUME FilterInv, runFuzzyFilter
  PROVE  FilterInv'
<1>0. PICK r : r = Head(worker)
  OBVIOUS
<1>1. /\ worker # <<>> /\ worker' = Tail(worker)
      /\ workerResult' = IF r.requestId # requestIdRef THEN workerResult ELSE fuzzyFilter(r.items, r.query)
      /\ UNCHANGED <<entries, typed, timer, requestIdRef>>
      /\ (Cheap(entries, typed)' <=> Cheap(entries, typed))
  BY <1>0 DEF runFuzzyFilter, Cheap
<1>2. /\ r = worker[1] /\ worker' \in Seq(AnyRequest)
      /\ Len(worker) \in Nat /\ Len(worker) > 0 /\ Len(worker') = Len(worker) - 1
      /\ \A i \in 1 .. Len(worker) - 1 : worker'[i] = worker[i + 1]
  BY <1>0, <1>1, QueueTail DEF FilterInv
<1>3. \A s : Current(s)' <=> Current(s)
  BY <1>1 DEF Current
<1>4. \A i \in 1 .. Len(worker') : i + 1 \in 1 .. Len(worker) /\ worker'[i] = worker[i + 1]
  BY <1>2
<1>5. \A i \in 1 .. Len(worker) : i = 1 \/ (i - 1 \in 1 .. Len(worker') /\ worker'[i - 1] = worker[i])
  BY <1>2
<1>6. ASSUME ~Cheap(entries, typed)
      PROVE  \/ timer # NoTimer
             \/ \E i \in 1 .. Len(worker') : worker'[i].requestId = requestIdRef
             \/ workerResult' = fuzzyFilter(entries, typed)
  <2>1. CASE r.requestId = requestIdRef
    BY <1>1, <1>2, <1>6, <2>1 DEF FilterInv, Current
  <2>2. CASE r.requestId # requestIdRef
    BY <1>1, <1>2, <1>5, <1>6, <2>2 DEF FilterInv
  <2> QED
    BY <2>1, <2>2
<1> QED
  BY <1>1, <1>2, <1>3, <1>4, <1>6 DEF FilterInv

LEMMA FilterFits ==
  /\ FilterInit => FilterInv
  /\ FilterInv /\ [FilterNext]_filterVars => FilterInv'
<1>1. FilterInit => FilterInv
  BY DEF FilterInit, FilterInv, Cheap
<1>2. FilterInv /\ [FilterNext]_filterVars => FilterInv'
  <2> SUFFICES ASSUME FilterInv, [FilterNext]_filterVars PROVE FilterInv'
    OBVIOUS
  <2>1. CASE UNCHANGED filterVars
    BY <2>1 DEF filterVars, FilterInv, Cheap, Current
  <2> QED
    BY <2>1, RenderKeeps, TimerKeeps, WorkerKeeps DEF FilterNext
<1> QED
  BY <1>1, <1>2

\* Whatever is typed and listed, and however late the worker answers: when
\* nothing is owed the rows are those that match
\* (views/modes/useFilteredEntries.ts).
THEOREM FilterAlwaysSettles == FilterSpec => []FilterSettles
<1>1. FilterInv => FilterSettles
  BY DEF FilterInv, FilterSettles, ShownRows
<1> QED
  BY <1>1, FilterFits, PTL DEF FilterSpec

-----------------------------------------------------------------------------
(* The search overlay.                                                     *)

IsBox(b) ==
  b = [open |-> b.open, mode |-> b.mode, text |-> b.text, hits |-> b.hits,
       running |-> b.running, rid |-> b.rid, unlisten |-> b.unlisten]

IsCall(c) == searchCalls[c] = [runs |-> searchCalls[c].runs, text |-> searchCalls[c].text,
                               phase |-> searchCalls[c].phase, stops |-> searchCalls[c].stops]

IsWalk(c) == walks[c] = [state |-> walks[c].state, stop |-> walks[c].stop,
                         sent |-> walks[c].sent, heard |-> walks[c].heard]

SearchTypes ==
  /\ IsBox(box)
  /\ searchCalls = [c \in CallId |-> searchCalls[c]] /\ \A c \in CallId : IsCall(c)
  /\ walks = [c \in CallId |-> walks[c]] /\ \A c \in CallId : IsWalk(c)
  /\ pages \in Seq([of : CallId, hits : {0, 1}, isFinal : BOOLEAN])

LastPageComing(c) == \E i \in 1 .. Len(pages) : pages[i].of = c /\ pages[i].isFinal

\* While the spinner turns, the search it turns for is the one that is
\* referenced: it is about to be listened to, or it is, and then it is on its
\* way or its last page is.
SpinnerFits ==
  box.running /\ box.open =>
    /\ box.rid \in CallId
    /\ \/ searchCalls[box.rid].phase = "listening"
       \/ /\ box.rid \in hearing
          /\ \/ walks[box.rid].state \in {"asked", "refused", "walking"}
             \/ LastPageComing(box.rid)

SearchInv == SearchTypes /\ SpinnerFits

\* Where a handler goes on: the spinner is down, or turns for a new search.
LEMMA GoOnKeeps ==
  ASSUME SearchTypes, NEW c \in CallId, NEW runs, NEW text, NEW b, IsBox(b),
         GoOn(c, runs, text, b), UNCHANGED <<walks, pages>>
  PROVE  SearchInv'
<1> DEFINE phase == CASE runs = "bucket" -> "listening" [] runs = "filter" -> "filtering"
                      [] OTHER -> "over"
<1>1. searchCalls' = [searchCalls EXCEPT ![c] =
        [runs |-> runs, text |-> text, stops |-> NoCall, phase |-> phase]]
  BY DEF GoOn
<1>2. runs = "bucket" => phase = "listening"
  OBVIOUS
<1> HIDE DEF phase
<1>3. /\ searchCalls' = [d \in CallId |-> searchCalls'[d]] /\ (\A d \in CallId : IsCall(d))'
      /\ searchCalls'[c].phase = phase
  BY <1>1 DEF SearchTypes, IsCall
<1>4. \/ runs = "bucket" /\ box' = Begin(Cleared(b), c)
      \/ box' = Emptied(b)
      \/ box' = Cleared(b)
  BY DEF GoOn
<1>5. IsBox(box)' /\ (box'.running => runs = "bucket" /\ box'.rid = c)
  BY <1>4 DEF IsBox, Begin, Cleared, Emptied
<1>6. SearchTypes'
  BY <1>3, <1>5 DEF SearchTypes, IsWalk
<1>7. SpinnerFits'
  BY <1>2, <1>3, <1>5 DEF SpinnerFits
<1> QED
  BY <1>6, <1>7 DEF SearchInv

\* A handler's first step, up to its await, by a call that is new: the
\* references stay.
LEMMA NewCallKeeps ==
  ASSUME SearchInv, NEW c \in CallId, searchCalls[c].phase = "unused", NEW call,
         call = [runs |-> call.runs, text |-> call.text, phase |-> call.phase, stops |-> call.stops],
         searchCalls' = [searchCalls EXCEPT ![c] = call],
         IsBox(box)', box'.rid = box.rid, box'.running /\ box'.open => box.running /\ box.open,
         hearing' = hearing \/ ~box'.open, UNCHANGED <<walks, pages>>
  PROVE  SearchInv'
<1>1. /\ searchCalls' = [d \in CallId |-> searchCalls'[d]]
      /\ \A d \in CallId : searchCalls'[d] = IF d = c THEN call ELSE searchCalls[d]
  BY DEF SearchInv, SearchTypes
<1>2. \A d \in CallId : IsCall(d)'
  BY <1>1 DEF SearchInv, SearchTypes, IsCall
<1>3. SearchTypes'
  BY <1>1, <1>2 DEF SearchInv, SearchTypes, IsWalk
<1>4. SpinnerFits'
  BY <1>1 DEF SearchInv, SpinnerFits, LastPageComing
<1> QED
  BY <1>3, <1>4 DEF SearchInv

LEMMA CancelKeeps ==
  ASSUME SearchInv, NEW c \in CallId, searchCalls[c].phase = "unused", NEW runs, NEW text, NEW b,
         IsBox(b), b.rid = box.rid, b.running = box.running, b.open = box.open,
         cancelRunningSearch(c, runs, text, b), UNCHANGED <<walks, pages>>
  PROVE  SearchInv'
<1>1. CASE b.rid = NoCall
  <2>1. GoOn(c, runs, text, b)
    BY <1>1 DEF cancelRunningSearch
  <2> QED
    BY <2>1, GoOnKeeps DEF SearchInv
<1>2. CASE b.rid # NoCall
  <2> DEFINE call == [runs |-> runs, text |-> text, phase |-> "cancelling", stops |-> b.rid]
  <2>1. box' = b /\ hearing' = hearing /\ searchCalls' = [searchCalls EXCEPT ![c] = call]
    BY <1>2 DEF cancelRunningSearch
  <2>2. call = [runs |-> call.runs, text |-> call.text, phase |-> call.phase, stops |-> call.stops]
    OBVIOUS
  <2>3. IsBox(box)'
    BY <2>1 DEF IsBox
  <2> HIDE DEF call
  <2> QED
    BY <2>1, <2>2, <2>3, NewCallKeeps
<1> QED
  BY <1>1, <1>2

\* The user's gestures.
LEMMA GesturesKeep ==
  ASSUME SearchInv, NEW c \in CallId,
         \/ \E q \in Query \cup {NoText} : handleQueryChange(c, q)
         \/ handleModeChange(c) \/ CancelButton(c) \/ CloseSearch(c)
  PROVE  SearchInv'
<1>1. IsBox(box)
  BY DEF SearchInv, SearchTypes
<1>2. CASE \E q \in Query \cup {NoText} : handleQueryChange(c, q)
  <2>1. PICK q \in Query \cup {NoText} : handleQueryChange(c, q)
    BY <1>2
  <2> DEFINE b == [box EXCEPT !.text = q]
  <2>2. /\ IsBox(b) /\ b.rid = box.rid /\ b.running = box.running /\ b.open = box.open
    BY <1>1 DEF IsBox
  <2>3. searchCalls[c].phase = "unused" /\ UNCHANGED <<walks, pages>>
    BY <2>1 DEF handleQueryChange, NextCall
  <2>4. CASE box.mode = "filter"
    <3> DEFINE call == [runs |-> "filter", text |-> q, phase |-> "filtering", stops |-> NoCall]
    <3>0. [FreshCall EXCEPT !.runs = "filter", !.text = q, !.phase = "filtering"] = call
      <4>1. [FreshCall EXCEPT !.runs = "filter"]
              = [runs |-> "filter", text |-> NoText, phase |-> "unused", stops |-> NoCall]
        BY DEF FreshCall
      <4>2. [[runs |-> "filter", text |-> NoText, phase |-> "unused", stops |-> NoCall]
               EXCEPT !.text = q]
              = [runs |-> "filter", text |-> q, phase |-> "unused", stops |-> NoCall]
        OBVIOUS
      <4>3. [[runs |-> "filter", text |-> q, phase |-> "unused", stops |-> NoCall]
               EXCEPT !.phase = "filtering"] = call
        OBVIOUS
      <4> HIDE DEF call
      <4> QED
        BY <4>1, <4>2, <4>3, Zenon
    <3>1. box' = b /\ searchCalls' = [searchCalls EXCEPT ![c] = call] /\ hearing' = hearing
      BY <2>1, <2>4, <3>0 DEF handleQueryChange
    <3>2. call = [runs |-> call.runs, text |-> call.text, phase |-> call.phase, stops |-> call.stops]
      OBVIOUS
    <3>3. IsBox(box)'
      BY <2>2, <3>1 DEF IsBox
    <3> HIDE DEF call, b
    <3> QED
      BY <2>2, <2>3, <3>1, <3>2, <3>3, NewCallKeeps
  <2>5. CASE box.mode # "filter"
    <3>1. cancelRunningSearch(c, "bucket", q, b)
      BY <2>1, <2>5 DEF handleQueryChange
    <3> HIDE DEF b
    <3> QED
      BY <2>2, <2>3, <3>1, CancelKeeps
  <2> QED
    BY <2>4, <2>5
<1>3. CASE handleModeChange(c)
  <2> DEFINE mode == IF box.mode = "filter" THEN "bucket" ELSE "filter"
             b == [box EXCEPT !.mode = mode]
             runs == IF box.text = NoText THEN "empty" ELSE mode
  <2>1. /\ searchCalls[c].phase = "unused" /\ UNCHANGED <<walks, pages>>
        /\ cancelRunningSearch(c, runs, box.text, b)
    BY <1>3 DEF handleModeChange, NextCall
  <2>2. /\ IsBox(b) /\ b.rid = box.rid /\ b.running = box.running /\ b.open = box.open
    BY <1>1 DEF IsBox
  <2> HIDE DEF b, runs
  <2> QED
    BY <2>1, <2>2, CancelKeeps
<1>4. CASE CancelButton(c)
  BY <1>1, <1>4, CancelKeeps DEF CancelButton, NextCall
<1>5. CASE CloseSearch(c)
  <2> DEFINE phase == IF box.rid = NoCall THEN "over" ELSE "cancelling"
             call == [runs |-> "goodbye", text |-> NoText, phase |-> phase, stops |-> box.rid]
  <2> HIDE DEF phase
  <2>0. [FreshCall EXCEPT !.runs = "goodbye", !.stops = box.rid, !.phase = phase] = call
    <3>1. [FreshCall EXCEPT !.runs = "goodbye"]
            = [runs |-> "goodbye", text |-> NoText, phase |-> "unused", stops |-> NoCall]
      BY DEF FreshCall
    <3>2. [[runs |-> "goodbye", text |-> NoText, phase |-> "unused", stops |-> NoCall]
             EXCEPT !.stops = box.rid]
            = [runs |-> "goodbye", text |-> NoText, phase |-> "unused", stops |-> box.rid]
      OBVIOUS
    <3>3. [[runs |-> "goodbye", text |-> NoText, phase |-> "unused", stops |-> box.rid]
             EXCEPT !.phase = phase] = call
      OBVIOUS
    <3> HIDE DEF call
    <3> QED
      BY <3>1, <3>2, <3>3, Zenon
  <2>1. /\ searchCalls[c].phase = "unused" /\ UNCHANGED <<walks, pages>>
        /\ box' = [box EXCEPT !.open = FALSE] /\ searchCalls' = [searchCalls EXCEPT ![c] = call]
    BY <1>5, <2>0 DEF CloseSearch, NextCall, phase
  <2>2. call = [runs |-> call.runs, text |-> call.text, phase |-> call.phase, stops |-> call.stops]
    OBVIOUS
  <2>3. IsBox(box)' /\ ~box'.open /\ box'.rid = box.rid
    BY <1>1, <2>1 DEF IsBox
  <2> HIDE DEF call
  <2> QED
    BY <2>1, <2>2, <2>3, NewCallKeeps
<1> QED
  BY <1>2, <1>3, <1>4, <1>5

\* A change of one call's phase keeps the types.
LEMMA PhaseChanges ==
  ASSUME SearchTypes, NEW c \in CallId, NEW phase,
         searchCalls' = [searchCalls EXCEPT ![c].phase = phase]
  PROVE  /\ searchCalls' = [d \in CallId |-> searchCalls'[d]] /\ \A d \in CallId : IsCall(d)'
         /\ \A d \in CallId : searchCalls'[d].phase = IF d = c THEN phase ELSE searchCalls[d].phase
BY DEF SearchTypes, IsCall

\* What goes on after an await, and what the backend does.
LEMMA AnswersKeep ==
  ASSUME SearchInv, NEW c \in CallId,
         searchCancel(c) \/ CancelAnswers(c) \/ ListenAnswers(c) \/ runLocalFilter(c) \/ SearchFails(c)
  PROVE  SearchInv'
<1>1. SearchTypes /\ SpinnerFits
  BY DEF SearchInv
<1>2. IsBox(box)
  BY <1>1 DEF SearchTypes
<1>3. CASE searchCancel(c)
  <2>1. PICK phase : phase # "listening" /\ searchCalls' = [searchCalls EXCEPT ![c].phase = phase]
    BY <1>3 DEF searchCancel
  <2>2. /\ UNCHANGED <<box, hearing, pages>> /\ searchCalls[c].phase = "cancelling"
        /\ \E s, stop : walks' = [walks EXCEPT ![s].stop = stop]
    BY <1>3 DEF searchCancel
  <2>3. /\ walks' = [d \in CallId |-> walks'[d]]
        /\ \A d \in CallId : IsWalk(d)' /\ walks'[d].state = walks[d].state
    <3>1. PICK s, stop : walks' = [walks EXCEPT ![s].stop = stop]
      BY <2>2
    <3>2. \A d \in CallId : walks'[d] = IF d = s THEN [walks[d] EXCEPT !.stop = stop] ELSE walks[d]
      BY <1>1, <3>1 DEF SearchTypes
    <3>3. walks' = [d \in CallId |-> walks'[d]]
      BY <1>1, <3>1 DEF SearchTypes
    <3> QED
      BY <1>1, <3>2, <3>3 DEF SearchTypes, IsWalk
  <2>4. /\ searchCalls' = [d \in CallId |-> searchCalls'[d]] /\ \A d \in CallId : IsCall(d)'
        /\ \A d \in CallId : searchCalls'[d].phase = IF d = c THEN phase ELSE searchCalls[d].phase
    BY <1>1, <2>1, PhaseChanges
  <2>5. SearchTypes'
    BY <1>1, <2>2, <2>3, <2>4 DEF SearchTypes, IsBox
  <2>6. SpinnerFits'
    BY <1>1, <2>2, <2>3, <2>4 DEF SpinnerFits, LastPageComing
  <2> QED
    BY <2>5, <2>6 DEF SearchInv
<1>4. CASE CancelAnswers(c)
  BY <1>1, <1>2, <1>4, GoOnKeeps DEF CancelAnswers
<1>5. CASE ListenAnswers(c)
  <2>1. /\ searchCalls' = [searchCalls EXCEPT ![c].phase = "over"]
        /\ hearing' = hearing \cup {c} /\ box' = [box EXCEPT !.unlisten = c]
        /\ walks' = [walks EXCEPT ![c].state = "asked"] /\ pages' = pages
    BY <1>5 DEF ListenAnswers
  <2>2. /\ walks' = [d \in CallId |-> walks'[d]]
        /\ \A d \in CallId : IsWalk(d)' /\ walks'[d].state = IF d = c THEN "asked" ELSE walks[d].state
    BY <1>1, <2>1 DEF SearchTypes, IsWalk
  <2>3. /\ searchCalls' = [d \in CallId |-> searchCalls'[d]] /\ \A d \in CallId : IsCall(d)'
        /\ \A d \in CallId : searchCalls'[d].phase = IF d = c THEN "over" ELSE searchCalls[d].phase
    BY <1>1, <2>1, PhaseChanges
  <2>4. IsBox(box)' /\ box'.rid = box.rid /\ box'.running = box.running /\ box'.open = box.open
    BY <1>2, <2>1 DEF IsBox
  <2>5. SearchTypes'
    BY <1>1, <2>1, <2>2, <2>3, <2>4 DEF SearchTypes
  <2>6. SpinnerFits'
    BY <1>1, <2>1, <2>2, <2>3, <2>4 DEF SpinnerFits, LastPageComing
  <2> QED
    BY <2>5, <2>6 DEF SearchInv
<1>6. CASE runLocalFilter(c)
  <2>1. /\ searchCalls' = [searchCalls EXCEPT ![c].phase = "over"] /\ searchCalls[c].phase = "filtering"
        /\ \E h : box' = [box EXCEPT !.hits = h]
        /\ UNCHANGED <<hearing, walks, pages>>
    BY <1>6 DEF runLocalFilter
  <2>2. /\ searchCalls' = [d \in CallId |-> searchCalls'[d]] /\ \A d \in CallId : IsCall(d)'
        /\ \A d \in CallId : searchCalls'[d].phase = IF d = c THEN "over" ELSE searchCalls[d].phase
    BY <1>1, <2>1, PhaseChanges
  <2>3. IsBox(box)' /\ box'.rid = box.rid /\ box'.running = box.running /\ box'.open = box.open
    BY <1>2, <2>1 DEF IsBox
  <2>4. SearchTypes'
    BY <1>1, <2>1, <2>2, <2>3 DEF SearchTypes, IsWalk
  <2>5. SpinnerFits'
    BY <1>1, <2>1, <2>2, <2>3 DEF SpinnerFits, LastPageComing
  <2> QED
    BY <2>4, <2>5 DEF SearchInv
<1>7. CASE SearchFails(c)
  <2>1. /\ walks' = [walks EXCEPT ![c].state = "ended"] /\ box' = [box EXCEPT !.running = FALSE]
        /\ UNCHANGED <<searchCalls, hearing, pages>>
    BY <1>7 DEF SearchFails
  <2>2. walks' = [d \in CallId |-> walks'[d]] /\ \A d \in CallId : IsWalk(d)'
    BY <1>1, <2>1 DEF SearchTypes, IsWalk
  <2>3. IsBox(box)' /\ ~box'.running
    BY <1>2, <2>1 DEF IsBox
  <2> QED
    BY <1>1, <2>1, <2>2, <2>3 DEF SearchInv, SearchTypes, SpinnerFits, IsCall
<1> QED
  BY <1>3, <1>4, <1>5, <1>6, <1>7

LEMMA WalkKeeps ==
  ASSUME SearchInv, NEW c \in CallId, searchPrefix(c) \/ WalkSends(c)
  PROVE  SearchInv'
<1>1. SearchTypes /\ SpinnerFits
  BY DEF SearchInv
<1>2. CASE searchPrefix(c)
  <2>1. PICK s \in {"walking", "refused"} : walks' = [walks EXCEPT ![c].state = s]
    BY <1>2 DEF searchPrefix
  <2>2. UNCHANGED <<box, searchCalls, hearing, pages>>
    BY <1>2 DEF searchPrefix
  <2>3. /\ walks' = [d \in CallId |-> walks'[d]]
        /\ \A d \in CallId : IsWalk(d)' /\ walks'[d].state = IF d = c THEN s ELSE walks[d].state
    BY <1>1, <2>1 DEF SearchTypes, IsWalk
  <2>4. SearchTypes'
    BY <1>1, <2>2, <2>3 DEF SearchTypes, IsCall, IsBox
  <2>5. SpinnerFits'
    BY <1>1, <2>2, <2>3 DEF SpinnerFits, LastPageComing
  <2> QED
    BY <2>4, <2>5 DEF SearchInv
<1>3. CASE WalkSends(c)
  <2>1. PICK hits \in {0, 1}, isFinal \in BOOLEAN :
          /\ pages' = Append(pages, [of |-> c, hits |-> hits, isFinal |-> isFinal])
          /\ walks' = [walks EXCEPT ![c].sent = @ + hits, ![c].state = IF isFinal THEN "ended" ELSE @]
    BY <1>3 DEF WalkSends
  <2>2. UNCHANGED <<box, searchCalls, hearing>>
    BY <1>3 DEF WalkSends
  <2>3. /\ walks' = [d \in CallId |-> walks'[d]]
        /\ \A d \in CallId : /\ IsWalk(d)'
                             /\ walks'[d].state = IF d = c /\ isFinal THEN "ended" ELSE walks[d].state
    <3> DEFINE state == IF isFinal THEN "ended" ELSE walks[c].state
               sent == walks[c].sent + hits
               new == [state |-> state, stop |-> walks[c].stop, sent |-> sent, heard |-> walks[c].heard]
    <3>1. walks' = [walks EXCEPT ![c] = new]
      <4> HIDE DEF state, sent
      <4>1. IsWalk(c) /\ walks = [d \in CallId |-> walks[d]]
        BY <1>1 DEF SearchTypes
      <4>2. walks' = [walks EXCEPT ![c].sent = sent, ![c].state = state]
        BY <2>1, <4>1 DEF state, sent
      <4>3. walks' = [d \in CallId |-> walks'[d]]
        BY <4>1, <4>2
      <4>4. walks'[c] = [[walks[c] EXCEPT !.sent = sent] EXCEPT !.state = state]
        BY <4>1, <4>2
      <4>5. walks'[c] = new
        BY <4>1, <4>4 DEF IsWalk
      <4> QED
        BY <4>1, <4>2, <4>3, <4>5
    <3>2. new.state = state /\ new = [state |-> new.state, stop |-> new.stop, sent |-> new.sent, heard |-> new.heard]
      OBVIOUS
    <3> HIDE DEF new
    <3> QED
      BY <1>1, <3>1, <3>2 DEF SearchTypes, IsWalk
  <2> DEFINE Page == [of : CallId, hits : {0, 1}, isFinal : BOOLEAN]
             p == [of |-> c, hits |-> hits, isFinal |-> isFinal]
  <2>4. p \in Page /\ p.of = c /\ p.isFinal = isFinal /\ pages' = Append(pages, p)
    BY <2>1
  <2>5. pages \in Seq(Page)
    BY <1>1 DEF SearchTypes
  <2> HIDE DEF Page, p
  <2>6. /\ pages' \in Seq(Page) /\ Len(pages) \in Nat /\ Len(pages') = Len(pages) + 1
        /\ \A i \in 1 .. Len(pages) : pages'[i] = pages[i]
        /\ pages'[Len(pages) + 1] = p
    BY <2>4, <2>5, QueueAppend
  <2>7. \A d : LastPageComing(d) \/ (d = c /\ isFinal) => LastPageComing(d)'
    BY <2>4, <2>6 DEF LastPageComing
  <2>8. SearchTypes'
    BY <1>1, <2>2, <2>3, <2>6 DEF SearchTypes, IsCall, IsBox, Page
  <2>9. SpinnerFits'
    BY <1>1, <2>2, <2>3, <2>7 DEF SpinnerFits
  <2> QED
    BY <2>8, <2>9 DEF SearchInv
<1> QED
  BY <1>2, <1>3

\* A page: the last one of a search that is heard takes the spinner down.
LEMMA PageKeeps ==
  ASSUME SearchInv, PageArrives
  PROVE  SearchInv'
<1>1. SearchTypes /\ SpinnerFits
  BY DEF SearchInv
<1> DEFINE Page == [of : CallId, hits : {0, 1}, isFinal : BOOLEAN]
<1>2. PICK p : p = Head(pages)
  OBVIOUS
<1>3. pages # <<>> /\ pages' = Tail(pages) /\ pages \in Seq(Page) /\ searchCalls' = searchCalls
  BY <1>1 DEF PageArrives, SearchTypes
<1>4. \A q \in Page : q.of \in CallId /\ q.isFinal \in BOOLEAN
  OBVIOUS
<1> HIDE DEF Page
<1>5. /\ p \in Page /\ p = pages[1] /\ pages' \in Seq(Page)
      /\ Len(pages) \in Nat /\ Len(pages) > 0 /\ Len(pages') = Len(pages) - 1
      /\ \A i \in 1 .. Len(pages) - 1 : pages'[i] = pages[i + 1]
  BY <1>2, <1>3, QueueTail
<1>6. \A d : LastPageComing(d) => LastPageComing(d)' \/ (d = p.of /\ p.isFinal)
  <2> SUFFICES ASSUME NEW d, NEW i \in 1 .. Len(pages), pages[i].of = d, pages[i].isFinal,
                      ~(d = p.of /\ p.isFinal)
               PROVE  \E j \in 1 .. Len(pages') : pages'[j].of = d /\ pages'[j].isFinal
    BY DEF LastPageComing
  <2>1. i - 1 \in 1 .. Len(pages') /\ pages'[i - 1] = pages[i]
    BY <1>5
  <2> QED
    BY <2>1
<1>7. CASE p.of \notin hearing
  <2>1. UNCHANGED <<box, hearing, walks>>
    BY <1>2, <1>7 DEF PageArrives
  <2>2. SearchTypes'
    BY <1>1, <1>3, <1>5, <2>1 DEF SearchTypes, IsCall, IsBox, IsWalk, Page
  <2>3. SpinnerFits'
    BY <1>1, <1>3, <1>6, <1>7, <2>1 DEF SpinnerFits
  <2> QED
    BY <2>2, <2>3 DEF SearchInv
<1>8. CASE p.of \in hearing
  <2>1. /\ walks' = [walks EXCEPT ![p.of].heard = @ + p.hits]
        /\ \E h : box' = [box EXCEPT !.hits = h, !.running = @ /\ ~p.isFinal,
                            !.rid = IF p.isFinal THEN NoCall ELSE @,
                            !.unlisten = IF p.isFinal THEN NoCall ELSE @]
        /\ hearing' = IF p.isFinal THEN hearing \ {box.unlisten} ELSE hearing
    BY <1>2, <1>8 DEF PageArrives
  <2>2. p.isFinal \in BOOLEAN
    BY <1>4, <1>5
  <2>3. IsBox(box)' /\ (~p.isFinal => box'.rid = box.rid /\ hearing' = hearing)
        /\ (box'.running /\ box'.open => box.running /\ box.open /\ ~p.isFinal)
    BY <1>1, <2>1, <2>2 DEF SearchTypes, IsBox
  <2>4. /\ walks' = [d \in CallId |-> walks'[d]]
        /\ \A d \in CallId : IsWalk(d)' /\ walks'[d].state = walks[d].state
    <3>1. PICK c, h : walks' = [walks EXCEPT ![c].heard = h]
      BY <2>1
    <3>2. \A d \in CallId : walks'[d] = IF d = c THEN [walks[d] EXCEPT !.heard = h] ELSE walks[d]
      BY <1>1, <3>1 DEF SearchTypes
    <3>3. walks' = [d \in CallId |-> walks'[d]]
      BY <1>1, <3>1 DEF SearchTypes
    <3> QED
      BY <1>1, <3>2, <3>3 DEF SearchTypes, IsWalk
  <2>5. SearchTypes'
    BY <1>1, <1>3, <1>5, <2>3, <2>4 DEF SearchTypes, IsCall, Page
  <2>6. SpinnerFits'
    BY <1>1, <1>3, <1>6, <2>3, <2>4 DEF SpinnerFits
  <2> QED
    BY <2>5, <2>6 DEF SearchInv
<1> QED
  BY <1>7, <1>8

LEMMA SearchFits ==
  /\ SearchInit => SearchInv
  /\ SearchInv /\ [SearchNext]_searchVars => SearchInv'
<1>1. SearchInit => SearchInv
  BY DEF SearchInit, SearchInv, SearchTypes, SpinnerFits, IsBox, IsCall, IsWalk, FreshCall
<1>2. SearchInv /\ [SearchNext]_searchVars => SearchInv'
  <2> SUFFICES ASSUME SearchInv, [SearchNext]_searchVars PROVE SearchInv'
    OBVIOUS
  <2>1. CASE UNCHANGED searchVars
    BY <2>1 DEF searchVars, SearchInv, SearchTypes, SpinnerFits, IsBox, IsCall, IsWalk, LastPageComing
  <2> QED
    BY <2>1, GesturesKeep, AnswersKeep, WalkKeeps, PageKeeps DEF SearchNext
<1> QED
  BY <1>1, <1>2

\* However the keystrokes, changes of mode and cancellations overtake each
\* other: while the spinner turns, some search can still take it down
\* (views/search/SearchBox.tsx).
THEOREM SpinnerAlwaysCanStop == SearchSpec => []SpinnerCanStop
<1>1. SearchInv => SpinnerCanStop
  <2> SUFFICES ASSUME SearchInv, box.open, box.running PROVE \E c \in CallId : CanStillEnd(c)
    BY DEF SpinnerCanStop
  <2>1. \A i \in 1 .. Len(pages) : i \in DOMAIN pages
    BY DEF SearchInv, SearchTypes
  <2> QED
    BY <2>1 DEF SearchInv, SpinnerFits, CanStillEnd, LastPageComing
<1> QED
  BY <1>1, SearchFits, PTL DEF SearchSpec

-----------------------------------------------------------------------------
(* Listings.                                                               *)

\* A set of entries has an order: each entry has as many before it as there
\* are smaller ones.
LEMMA ListedIsAListing ==
  ASSUME NEW S \in SUBSET Entry
  PROVE  /\ Listed(S) \in [1 .. Cardinality(S) -> S]
         /\ \A i, j \in DOMAIN Listed(S) : i < j => OrderOf[Listed(S)[i]] < OrderOf[Listed(S)[j]]
<1> DEFINE n == Cardinality(S)
           Below(e) == {d \in S : OrderOf[d] < OrderOf[e]}
           rank == [e \in S |-> Cardinality(Below(e)) + 1]
           Sorted(q) == \A i, j \in DOMAIN q : i < j => OrderOf[q[i]] < OrderOf[q[j]]
<1>1. IsFiniteSet(S) /\ n \in Nat
  BY FS_Subset, FS_CardinalityType, ListingsAssumption
<1>2. \A e \in S : OrderOf[e] \in Nat
  BY ListingsAssumption
<1>3. \A a, b \in S : OrderOf[a] = OrderOf[b] => a = b
  BY ListingsAssumption
<1>4. ASSUME NEW e \in S
      PROVE  /\ IsFiniteSet(Below(e)) /\ Cardinality(Below(e)) \in Nat
             /\ Cardinality(Below(e)) + 1 \in 1 .. n
  <2>1. IsFiniteSet(S \ {e}) /\ Cardinality(S \ {e}) = n - 1
    BY <1>1, FS_RemoveElement
  <2>2. Below(e) \in SUBSET (S \ {e})
    BY <1>2
  <2> HIDE DEF Below
  <2>3. IsFiniteSet(Below(e)) /\ Cardinality(Below(e)) <= Cardinality(S \ {e})
    BY <2>1, <2>2, FS_Subset
  <2>4. Cardinality(Below(e)) \in Nat
    BY <2>3, FS_CardinalityType
  <2> HIDE DEF n
  <2> QED
    BY <1>1, <2>1, <2>3, <2>4
<1>5. ASSUME NEW d \in S, NEW e \in S, OrderOf[d] < OrderOf[e]
      PROVE  Cardinality(Below(d)) < Cardinality(Below(e))
  <2>1. Below(d) \in SUBSET Below(e) /\ d \in Below(e) /\ d \notin Below(d)
    BY <1>2, <1>5
  <2> HIDE DEF Below
  <2>2. Cardinality(Below(d)) <= Cardinality(Below(e))
    BY <1>4, <2>1, FS_Subset
  <2>3. Cardinality(Below(e)) = Cardinality(Below(d)) => Below(e) = Below(d)
    BY <1>4, <2>1, FS_Subset
  <2>4. Cardinality(Below(d)) \in Nat /\ Cardinality(Below(e)) \in Nat
    BY <1>4
  <2> QED
    BY <2>1, <2>2, <2>3, <2>4
<1> HIDE DEF Below
<1>6. /\ rank \in [S -> 1 .. n]
      /\ \A d, e \in S : rank[d] = rank[e] => d = e
      /\ \A d, e \in S : OrderOf[d] < OrderOf[e] => rank[d] < rank[e]
  <2>1. rank \in [S -> 1 .. n]
    BY <1>4
  <2>2. \A d, e \in S : OrderOf[d] < OrderOf[e] => rank[d] < rank[e]
    BY <1>4, <1>5
  <2>3. ASSUME NEW d \in S, NEW e \in S, rank[d] = rank[e], d # e PROVE FALSE
    <3>1. OrderOf[d] # OrderOf[e]
      BY <1>3, <2>3
    <3>2. rank[d] < rank[e] \/ rank[e] < rank[d]
      BY <1>2, <2>2, <3>1
    <3>3. rank[d] \in 1 .. n /\ rank[e] \in 1 .. n
      BY <2>1
    <3> HIDE DEF rank, n
    <3> QED
      BY <1>1, <2>3, <3>2, <3>3
  <2> QED
    BY <2>1, <2>2, <2>3
<1> HIDE DEF rank
<1>7. rank \in Injection(S, 1 .. n)
  BY <1>6, Fun_IsInj
<1>8. IsFiniteSet(1 .. n) /\ Cardinality(1 .. n) = n
  <2> HIDE DEF n
  <2>1. 1 \in Int /\ n \in Int
    BY <1>1
  <2>2. IsFiniteSet(1 .. n) /\ Cardinality(1 .. n) = IF 1 > n THEN 0 ELSE n - 1 + 1
    BY <2>1, FS_Interval
  <2> QED
    BY <1>1, <2>2
<1>9. Cardinality(S) = Cardinality(1 .. n)
  BY <1>8
<1>10. rank \in Surjection(S, 1 .. n)
  <2> HIDE DEF n
  <2> QED
    BY <1>7, <1>8, <1>9, FS_Injection
<1>11. \A i \in 1 .. n : \E e \in S : rank[e] = i
  BY <1>10, Fun_SurjectionProperties
<1> DEFINE q == [i \in 1 .. n |-> CHOOSE e \in S : rank[e] = i]
<1>12. q \in [1 .. n -> S] /\ \A i \in 1 .. n : rank[q[i]] = i
  BY <1>11
<1> HIDE DEF q
<1>13. Sorted(q)
  <2> SUFFICES ASSUME NEW i \in 1 .. n, NEW j \in 1 .. n, i < j PROVE OrderOf[q[i]] < OrderOf[q[j]]
    BY <1>12
  <2>1. q[i] \in S /\ q[j] \in S /\ rank[q[i]] = i /\ rank[q[j]] = j
    BY <1>12
  <2>2. ~(OrderOf[q[j]] < OrderOf[q[i]])
    <3>1. OrderOf[q[j]] < OrderOf[q[i]] => j < i
      BY <1>6, <2>1
    <3> QED
      BY <3>1
  <2>3. OrderOf[q[i]] # OrderOf[q[j]]
    BY <1>3, <2>1
  <2> QED
    BY <1>2, <2>1, <2>2, <2>3
<1>14. \E w \in [1 .. n -> S] : Sorted(w)
  BY <1>12, <1>13
<1> HIDE DEF Sorted
<1>15. Listed(S) = CHOOSE w \in [1 .. n -> S] : Sorted(w)
  BY Zenon DEF Listed, Sorted
<1>16. Listed(S) \in [1 .. n -> S] /\ Sorted(Listed(S))
  BY <1>14, <1>15
<1> QED
  BY <1>16 DEF Sorted

\* Rows hang from rows: two ways to say which entries there are give the same
\* tree when they agree wherever a row may hang.
LEMMA SameRows ==
  ASSUME trailMode = "Tree",
         \A e \in Entry : (Within[e] = at \/ Within[e] \in expanded) =>
           (e \in MapWithRoot(Within[e]) <=> (e \in there \cup Folder \/ LeftOver(e)))
  PROVE  TreeView = TrueRows
<1> DEFINE A(e) == e \in MapWithRoot(Within[e])
           B(e) == e \in there \cup Folder \/ LeftOver(e)
           C(f, e) == Within[e] # at => (Within[e] \in expanded /\ Within[e] # Root /\ f[Within[e]])
           G(f) == [e \in Entry |-> A(e) /\ C(f, e)]
           H(f) == [e \in Entry |-> B(e) /\ C(f, e)]
<1>1. \A f : G(f) = H(f)
  <2> TAKE f
  <2>1. ASSUME NEW e \in Entry PROVE (A(e) /\ C(f, e)) = (B(e) /\ C(f, e))
    <3>1. C(f, e) => (A(e) <=> B(e))
      BY Zenon
    <3> HIDE DEF A, B, C
    <3> QED
      BY <3>1, Zenon
  <2> HIDE DEF A, B, C
  <2> QED
    BY <2>1, Zenon
<1>2. TreeView = {e \in Entry : (CHOOSE f : f = G(f))[e]}
  BY Zenon DEF TreeView, buildNodes
<1>3. TrueRows = {e \in Entry : (CHOOSE f : f = H(f))[e]}
  BY Zenon DEF TrueRows
<1> HIDE DEF G, H
<1>4. (CHOOSE f : f = G(f)) = (CHOOSE f : f = H(f))
  BY <1>1
<1> QED
  BY <1>2, <1>3, <1>4, Zenon

-----------------------------------------------------------------------------
(* The tree.                                                               *)

TrailTypes ==
  /\ at \in Place /\ there \subseteq Entry /\ Folder \subseteq there
  /\ trailMode \in {"Tree", "Column"} /\ expanded \subseteq Folder
  /\ listings \in [Place -> SUBSET Entry] /\ childMap \in [Place -> SUBSET Entry]
  /\ \A p \in Place : listings[p] \subseteq Contents(p) /\ childMap[p] \subseteq Contents(p)

LoadedIsTrue == \A p \in Place \ outdated : listings[p] = Contents(p) \cap there

\* A loader that reports nothing leaves the children as they were.
ChildrenFollow ==
  trailMode = "Tree" =>
    \A p \in expanded \ outdated : childMap[p] = listings[p] \/ listings[p] = {}

TreeInv == TrailTypes /\ LoadedIsTrue /\ ChildrenFollow

\* A loader that reports, or has nothing to report.
LEMMA LoaderKeeps ==
  ASSUME TreeInv, NEW p \in Place, NEW rows \in SUBSET Contents(p)
  PROVE  /\ ChildLoader(childMap, p, rows) \in [Place -> SUBSET Entry]
         /\ \A q \in Place : ChildLoader(childMap, p, rows)[q] \subseteq Contents(q)
         /\ \A q \in Place \ {p} : ChildLoader(childMap, p, rows)[q] = childMap[q]
         /\ ChildLoader(childMap, p, rows)[p] = rows \/ rows = {}
<1>1. childMap \in [Place -> SUBSET Entry] /\ \A q \in Place : childMap[q] \subseteq Contents(q)
  BY DEF TreeInv, TrailTypes
<1>2. rows \in SUBSET Entry
  BY DEF Contents
<1> QED
  BY <1>1, <1>2 DEF ChildLoader

LEMMA TreeRowKeeps ==
  ASSUME TreeInv, NEW f \in Folder, TreeRow(f)
  PROVE  TreeInv'
<1>1. /\ trailMode \in {"Tree", "Column"} /\ f \in Place
      /\ listings[f] \in SUBSET Contents(f)
  BY DEF TreeInv, TrailTypes, Place
<1>2. UNCHANGED <<trailMode, there, at, listings, outdated>>
  BY DEF TreeRow
<1>3. CASE f \in expanded
  BY <1>2, <1>3 DEF TreeRow, TreeInv, TrailTypes, LoadedIsTrue, ChildrenFollow
<1>4. CASE f \notin expanded
  <2>1. expanded' = expanded \cup {f} /\ childMap' = ChildLoader(childMap, f, listings[f])
    BY <1>4 DEF TreeRow
  <2>2. /\ childMap' \in [Place -> SUBSET Entry]
        /\ \A q \in Place : childMap'[q] \subseteq Contents(q)
        /\ \A q \in Place \ {f} : childMap'[q] = childMap[q]
        /\ childMap'[f] = listings[f] \/ listings[f] = {}
    BY <1>1, <2>1, LoaderKeeps
  <2>3. TrailTypes'
    BY <1>2, <2>1, <2>2 DEF TreeInv, TrailTypes
  <2>4. ChildrenFollow'
    BY <1>1, <1>2, <2>1, <2>2 DEF TreeInv, TrailTypes, LoadedIsTrue, ChildrenFollow, Place
  <2> QED
    BY <1>2, <2>3, <2>4 DEF TreeInv, LoadedIsTrue
<1> QED
  BY <1>3, <1>4

\* A listing is loaded.
LEMMA LoadingKeeps ==
  ASSUME TreeInv, NEW p \in Place, useObjects(p)
  PROVE  TreeInv'
<1>1. /\ outdated' = outdated \ {p} /\ listings' = [listings EXCEPT ![p] = Contents(p) \cap there]
      /\ childMap' = IF trailMode = "Tree" /\ p \in expanded
                     THEN ChildLoader(childMap, p, listings'[p]) ELSE childMap
      /\ UNCHANGED <<trailMode, there, at, expanded>>
  BY DEF useObjects
<1>2. /\ listings' \in [Place -> SUBSET Entry] /\ listings'[p] = Contents(p) \cap there
      /\ \A q \in Place \ {p} : listings'[q] = listings[q]
  BY <1>1 DEF TreeInv, TrailTypes, Contents
<1>3. PICK new : new = listings'[p]
  OBVIOUS
<1>4. new \in SUBSET Contents(p)
  BY <1>2, <1>3
<1>5. /\ childMap' \in [Place -> SUBSET Entry]
      /\ \A q \in Place : childMap'[q] \subseteq Contents(q)
      /\ \A q \in Place \ {p} : childMap'[q] = childMap[q]
      /\ trailMode = "Tree" /\ p \in expanded => childMap'[p] = listings'[p] \/ listings'[p] = {}
  <2>1. CASE trailMode = "Tree" /\ p \in expanded
    BY <1>1, <1>2, <1>3, <1>4, <2>1, LoaderKeeps
  <2>2. CASE ~(trailMode = "Tree" /\ p \in expanded)
    BY <1>1, <2>2 DEF TreeInv, TrailTypes
  <2> QED
    BY <2>1, <2>2
<1>6. TrailTypes'
  <2>1. \A q \in Place : listings'[q] \subseteq Contents(q)
    BY <1>2 DEF TreeInv, TrailTypes
  <2> QED
    BY <1>1, <1>2, <1>5, <2>1 DEF TreeInv, TrailTypes
<1>7. LoadedIsTrue'
  BY <1>1, <1>2 DEF TreeInv, LoadedIsTrue
<1>8. ChildrenFollow'
  <2>1. \A q \in expanded : q \in Place
    BY DEF TreeInv, TrailTypes, Place
  <2> QED
    BY <1>1, <1>2, <1>5, <2>1 DEF TreeInv, ChildrenFollow
<1> QED
  BY <1>6, <1>7, <1>8 DEF TreeInv

LEMMA TreeKeeps ==
  ASSUME TreeInv, [TrailNext]_trailVars
  PROVE  TreeInv'
<1>1. CASE UNCHANGED <<trailMode, there, at, listings, outdated, expanded, childMap>>
  BY <1>1 DEF TreeInv, TrailTypes, LoadedIsTrue, ChildrenFollow
<1>2. CASE TrailViewMode
  <2>1. /\ trailMode' \in {"Tree", "Column"}
        /\ childMap' = [p \in Place |-> IF p \in expanded THEN listings[p] ELSE {}]
        /\ UNCHANGED <<there, at, listings, outdated, expanded>>
    BY <1>2 DEF TrailViewMode
  <2>2. TrailTypes'
    BY <2>1 DEF TreeInv, TrailTypes
  <2>3. ChildrenFollow'
    BY <2>1 DEF TreeInv, TrailTypes, ChildrenFollow, Place
  <2> QED
    BY <2>1, <2>2, <2>3 DEF TreeInv, LoadedIsTrue
<1>3. ASSUME NEW p \in Place, TrailLocation(p) PROVE TreeInv'
  BY <1>3 DEF TrailLocation, TreeInv, TrailTypes, LoadedIsTrue, ChildrenFollow
<1>4. ASSUME NEW f \in File, ObjectIsDeleted(f) PROVE TreeInv'
  <2>1. /\ f \in there /\ there' = there \ {f}
        /\ outdated' = outdated \cup {Within[f]}
        /\ UNCHANGED <<trailMode, at, listings, expanded, childMap>>
    BY <1>4 DEF ObjectIsDeleted
  <2>2. f \in Contents(Within[f]) /\ \A p \in Place : f \in Contents(p) => p = Within[f]
    BY DEF Contents, Entry
  <2>3. f \notin Folder
    BY ListingsAssumption
  <2>5. LoadedIsTrue'
    BY <2>1, <2>2 DEF TreeInv, LoadedIsTrue
  <2> QED
    BY <2>1, <2>3, <2>5 DEF TreeInv, TrailTypes, ChildrenFollow
<1>5. ColumnEnter \/ ColumnLeft => UNCHANGED <<trailMode, there, at, listings, outdated, expanded, childMap>>
  BY DEF ColumnEnter, ColumnLeft
<1>6. \A c, i : selectEntry(c, i) =>
        UNCHANGED <<trailMode, there, at, listings, outdated, expanded, childMap>>
  BY DEF selectEntry
<1>7. \A i : ColumnCursor(i) =>
        UNCHANGED <<trailMode, there, at, listings, outdated, expanded, childMap>>
  BY DEF ColumnCursor
<1>8. UNCHANGED trailVars => UNCHANGED <<trailMode, there, at, listings, outdated, expanded, childMap>>
  BY DEF trailVars
<1> QED
  BY <1>1, <1>2, <1>3, <1>4, <1>5, <1>6, <1>7, <1>8, TreeRowKeeps, LoadingKeeps DEF TrailNext

LEMMA TreeIsAsItShouldBe ==
  ASSUME TreeInv
  PROVE  TreeIsTrue
<1> SUFFICES ASSUME trailMode = "Tree", outdated \cap Observed = {} PROVE TreeView = TrueRows
  BY DEF TreeIsTrue
<1>1. \A p \in {at} \cup expanded : p \in Place \ outdated
  BY DEF Observed, TreeInv, TrailTypes, Place
<1>2. ASSUME NEW e \in Entry, Within[e] = at \/ Within[e] \in expanded
      PROVE  e \in MapWithRoot(Within[e]) <=> (e \in there \cup Folder \/ LeftOver(e))
  <2>1. listings[Within[e]] = Contents(Within[e]) \cap there
    BY <1>1, <1>2 DEF TreeInv, LoadedIsTrue
  <2>2. e \in Contents(Within[e])
    BY DEF Contents
  <2>3. e \in there \cup Folder <=> e \in listings[Within[e]]
    BY <2>1, <2>2 DEF TreeInv, TrailTypes
  <2>4. CASE Within[e] = at
    BY <2>3, <2>4 DEF MapWithRoot, LeftOver
  <2>5. CASE Within[e] # at
    <3>1. childMap[Within[e]] = listings[Within[e]] \/ listings[Within[e]] = {}
      BY <1>1, <1>2, <2>5 DEF TreeInv, ChildrenFollow
    <3>2. MapWithRoot(Within[e]) = childMap[Within[e]]
      BY <2>5 DEF MapWithRoot
    <3>3. LeftOver(e) <=> (listings[Within[e]] = {} /\ e \in childMap[Within[e]])
      BY <2>1, <2>5 DEF LeftOver
    <3> QED
      BY <2>3, <3>1, <3>2, <3>3
  <2> QED
    BY <2>4, <2>5
<1> QED
  BY <1>2, SameRows

-----------------------------------------------------------------------------
(* The columns.                                                            *)

\* The folders of a path are its longest beginning without an object.
LEMMA FoldersBegin ==
  ASSUME NEW path \in Seq(Entry)
  PROVE  /\ FoldersOfPath(path) \in Seq(Entry)
         /\ Len(FoldersOfPath(path)) \in 0 .. Len(path)
         /\ \A i \in 1 .. Len(FoldersOfPath(path)) :
              path[i] \in Folder /\ FoldersOfPath(path)[i] = path[i]
<1> DEFINE U == {n \in 0 .. Len(path) : \A i \in 1 .. n : path[i] \in Folder}
           k == Cardinality(U)
<1>1. Len(path) \in Nat /\ \A i \in 1 .. Len(path) : path[i] \in Entry
  BY ElementOfSeq
<1>2. IsFiniteSet(0 .. Len(path))
  BY <1>1, FS_Interval
<1>3. U \in SUBSET (0 .. Len(path))
  OBVIOUS
<1>4. 0 \in U
  BY <1>1
<1>5. \A m \in U : \A n \in 0 .. m : n \in U
  BY <1>1
<1> HIDE DEF U
<1>6. IsFiniteSet(U)
  BY <1>2, <1>3, FS_Subset
<1>7. k \in Nat /\ k # 0
  BY <1>4, <1>6, FS_CardinalityType, FS_EmptySet
<1> HIDE DEF k
<1>8. ASSUME NEW m \in U PROVE m \in Nat /\ m <= k - 1
  <2>1. m \in Nat
    BY <1>1, <1>3
  <2>2. 0 .. m \in SUBSET U
    BY <1>5
  <2>3. Cardinality(0 .. m) <= k
    BY <1>6, <2>2, FS_Subset DEF k
  <2>4. 0 \in Int /\ m \in Int
    BY <2>1
  <2>5. Cardinality(0 .. m) = IF 0 > m THEN 0 ELSE m - 0 + 1
    BY <2>4, FS_Interval
  <2> QED
    BY <1>7, <2>1, <2>3, <2>5
<1>9. k - 1 \in U
  <2> SUFFICES ASSUME k - 1 \notin U PROVE FALSE
    OBVIOUS
  <2>1. \A m \in U : m \in Nat /\ m <= k - 2
    <3> SUFFICES ASSUME NEW m \in U PROVE m \in Nat /\ m <= k - 2
      OBVIOUS
    <3>1. m # k - 1
      OBVIOUS
    <3> QED
      BY <1>7, <1>8, <3>1
  <2>2. U \in SUBSET (0 .. k - 2)
    BY <1>7, <2>1
  <2>3. 0 \in Int /\ k - 2 \in Int
    BY <1>7
  <2>4. IsFiniteSet(0 .. k - 2) /\ Cardinality(0 .. k - 2) = IF 0 > k - 2 THEN 0 ELSE (k - 2) - 0 + 1
    BY <2>3, FS_Interval
  <2>5. k <= Cardinality(0 .. k - 2)
    BY <2>2, <2>4, FS_Subset DEF k
  <2>6. 0 <= k - 2
    BY <1>4, <1>7, <2>1
  <2> QED
    BY <1>7, <2>4, <2>5, <2>6
<1>10. \A m \in U : m <= k - 1
  BY <1>8
<1> DEFINE top == CHOOSE n \in U : \A m \in U : m <= n
<1>11. top \in U
  BY <1>9, <1>10
<1> HIDE DEF top
<1>12. FoldersOfPath(path) = SubSeq(path, 1, top)
  BY Zenon DEF FoldersOfPath, U, top
<1>13. top \in 0 .. Len(path) /\ \A i \in 1 .. top : path[i] \in Folder
  BY <1>11 DEF U
<1>14. 1 \in Int /\ top \in Int /\ \A i \in 1 .. top : path[i] \in Entry
  BY <1>1, <1>13
<1>15. /\ SubSeq(path, 1, top) \in Seq(Entry)
       /\ Len(SubSeq(path, 1, top)) = IF 1 <= top THEN top - 1 + 1 ELSE 0
       /\ \A i \in 1 .. top - 1 + 1 : SubSeq(path, 1, top)[i] = path[1 + i - 1]
  BY <1>14, SubSeqProperties
<1>16. Len(FoldersOfPath(path)) = top
  BY <1>1, <1>12, <1>13, <1>15
<1> QED
  BY <1>1, <1>12, <1>13, <1>15, <1>16

\* The folder a column shows.
ShownIn(path, c) == IF c = 0 THEN at ELSE path[c]

LEMMA ColumnsOfPath ==
  ASSUME NEW path \in Seq(Entry), at \in Place
  PROVE  /\ Len(Columns(path)) = Len(FoldersOfPath(path)) + 1
         /\ \A c \in 0 .. Len(FoldersOfPath(path)) :
              /\ PrefixOf(path, c) = ShownIn(path, c)
              /\ PrefixOf(path, c) \in Place
<1> DEFINE Somewhere == Entry \cup Place
           F == FoldersOfPath(path)
<1>1. F \in Seq(Entry) /\ Len(F) \in Nat
      /\ \A i \in 1 .. Len(F) : path[i] \in Folder /\ F[i] = path[i]
  BY FoldersBegin
<1> HIDE DEF F
<1>2. F \in Seq(Somewhere)
  <2>1. 1 \in Int /\ Len(F) \in Int /\ \A i \in 1 .. Len(F) : F[i] \in Somewhere
    BY <1>1, ElementOfSeq
  <2> HIDE DEF Somewhere
  <2>2. SubSeq(F, 1, Len(F)) \in Seq(Somewhere)
    BY <2>1, SubSeqProperties
  <2> QED
    BY <1>1, <2>2, SubSeqFull
<1>3. <<at>> \in Seq(Somewhere) /\ Len(<<at>>) = 1 /\ <<at>>[1] = at
  OBVIOUS
<1> HIDE DEF Somewhere
<1>4. /\ Len(<<at>> \o F) = Len(<<at>>) + Len(F)
      /\ \A i \in 1 .. Len(<<at>>) + Len(F) :
           (<<at>> \o F)[i] = IF i <= Len(<<at>>) THEN <<at>>[i] ELSE F[i - Len(<<at>>)]
  BY <1>2, <1>3, ConcatProperties
<1>5. Columns(path) = <<at>> \o F
  BY DEF Columns, F
<1>6. Len(Columns(path)) = Len(F) + 1
  BY <1>1, <1>3, <1>4, <1>5
<1>7. ASSUME NEW c \in 0 .. Len(F)
      PROVE  PrefixOf(path, c) = ShownIn(path, c) /\ PrefixOf(path, c) \in Place
  <2>1. c + 1 \in 1 .. 1 + Len(F)
    BY <1>1
  <2>2. PrefixOf(path, c) = IF c + 1 <= 1 THEN <<at>>[c + 1] ELSE F[c + 1 - 1]
    BY <1>3, <1>4, <1>5, <2>1 DEF PrefixOf
  <2>3. CASE c = 0
    BY <1>3, <2>2, <2>3 DEF ShownIn
  <2>4. CASE c # 0
    <3>1. c \in 1 .. Len(F) /\ c + 1 - 1 = c /\ ~(c + 1 <= 1)
      BY <1>1, <2>4
    <3> QED
      BY <1>1, <2>2, <2>4, <3>1 DEF ShownIn, Place
  <2> QED
    BY <2>3, <2>4
<1> QED
  BY <1>6, <1>7 DEF F

\* A path that has room, and one that descends but for the places marked.
GoodPath(path) == path \in Seq(Entry) /\ Len(FoldersOfPath(path)) < MaxColumns
Descends(path, marked) ==
  \A i \in 2 .. Len(path) : i \in marked \/ Within[path[i]] = path[i - 1]

LEMMA PathIsShallow ==
  ASSUME NEW path, GoodPath(path)
  PROVE  0 .. Len(FoldersOfPath(path)) \subseteq ColumnIndex
<1>1. path \in Seq(Entry) /\ Len(path) \in Nat
  BY DEF GoodPath
<1>2. Len(FoldersOfPath(path)) \in 0 .. Len(path)
  BY <1>1, FoldersBegin
<1> QED
  BY <1>1, <1>2, TrailAssumption DEF ColumnIndex, GoodPath

\* A path that is cut.
LEMMA PathIsCut ==
  ASSUME NEW path \in Seq(Entry), NEW c \in 0 .. Len(path)
  PROVE  /\ SubSeq(path, 1, c) \in Seq(Entry) /\ Len(SubSeq(path, 1, c)) = c
         /\ \A i \in 1 .. c : SubSeq(path, 1, c)[i] = path[i]
<1>1. Len(path) \in Nat /\ \A i \in 1 .. Len(path) : path[i] \in Entry
  BY ElementOfSeq
<1>2. 1 \in Int /\ c \in Int /\ \A i \in 1 .. c : path[i] \in Entry
  BY <1>1
<1> DEFINE q == SubSeq(path, 1, c)
<1>3. /\ q \in Seq(Entry) /\ Len(q) = IF 1 <= c THEN c - 1 + 1 ELSE 0
      /\ \A i \in 1 .. c - 1 + 1 : q[i] = path[1 + i - 1]
  BY <1>2, SubSeqProperties
<1> HIDE DEF q
<1>4. Len(q) = c /\ \A i \in 1 .. c : q[i] = path[i]
  BY <1>2, <1>3
<1> QED
  BY <1>3, <1>4 DEF q

\* A path that is cut descends as before; so it does when it goes on with an
\* entry of the folder it ends in, or with one that is marked.
LEMMA PathDescends ==
  ASSUME NEW path \in Seq(Entry), NEW marked, Descends(path, marked),
         NEW c \in 0 .. Len(path), NEW new, marked \cap 1 .. c \subseteq new
  PROVE  Descends(SubSeq(path, 1, c), new)
<1> DEFINE q == SubSeq(path, 1, c)
<1>1. Len(q) = c /\ \A i \in 1 .. c : q[i] = path[i]
  BY PathIsCut
<1>2. Len(path) \in Nat /\ c \in Nat /\ c <= Len(path)
  BY LenProperties
<1> HIDE DEF q
<1> SUFFICES ASSUME NEW i \in 2 .. c PROVE i \in new \/ Within[q[i]] = q[i - 1]
  BY <1>1 DEF Descends, q
<1>3. i \in 1 .. c /\ i - 1 \in 1 .. c /\ i \in 2 .. Len(path)
  BY <1>2
<1>4. i \in marked \/ Within[path[i]] = path[i - 1]
  BY <1>3 DEF Descends
<1> QED
  BY <1>1, <1>3, <1>4

LEMMA PathGrows ==
  ASSUME NEW path \in Seq(Entry), NEW marked, Descends(path, marked),
         NEW c \in 0 .. Len(path), NEW e \in Entry, NEW new, marked \cap 1 .. c \subseteq new,
         c # 0 => (c + 1 \in new \/ Within[e] = path[c])
  PROVE  /\ Append(SubSeq(path, 1, c), e) \in Seq(Entry)
         /\ Descends(Append(SubSeq(path, 1, c), e), new)
<1> DEFINE q == SubSeq(path, 1, c)
           w == Append(q, e)
<1>1. /\ q \in Seq(Entry) /\ Len(q) = c /\ \A i \in 1 .. c : q[i] = path[i]
  BY PathIsCut
<1>2. Len(path) \in Nat /\ c \in Nat /\ c <= Len(path)
  BY LenProperties
<1> HIDE DEF q
<1>3. /\ w \in Seq(Entry) /\ Len(w) = c + 1 /\ w[c + 1] = e
      /\ \A i \in 1 .. c : w[i] = path[i]
  <2>1. /\ w \in Seq(Entry) /\ Len(w) = Len(q) + 1
        /\ \A i \in 1 .. Len(q) : w[i] = q[i]
        /\ w[Len(q) + 1] = e
    BY <1>1, AppendProperties
  <2> HIDE DEF w
  <2> QED
    BY <1>1, <2>1
<1> HIDE DEF w
<1>4. ASSUME NEW i \in 2 .. c + 1 PROVE i \in new \/ Within[w[i]] = w[i - 1]
  <2>1. CASE i = c + 1
    <3>1. c # 0 /\ c \in 1 .. c /\ i - 1 = c
      BY <1>2, <2>1
    <3> QED
      BY <1>3, <2>1, <3>1
  <2>2. CASE i # c + 1
    <3>1. i \in 1 .. c /\ i - 1 \in 1 .. c /\ i \in 2 .. Len(path)
      BY <1>2, <2>2
    <3>2. i \in marked \/ Within[path[i]] = path[i - 1]
      BY <3>1 DEF Descends
    <3> QED
      BY <1>3, <3>1, <3>2
  <2> QED
    BY <2>1, <2>2
<1> QED
  BY <1>3, <1>4 DEF Descends, w, q

ColumnsFit ==
  /\ cols = [active |-> cols.active, cursor |-> cols.cursor, entries |-> cols.entries]
  /\ GoodPath(columnPath) /\ Descends(columnPath, early)
  /\ trailMode = "Column" =>
       /\ cols.active \in 0 .. Len(FoldersOfPath(columnPath))
       /\ \A c \in 0 .. Len(FoldersOfPath(columnPath)) :
            ShownIn(columnPath, c) \notin unloaded =>
              \A j \in DOMAIN cols.entries[c] : cols.entries[c][j] \in Contents(ShownIn(columnPath, c))

TrailInv == TreeInv /\ ColumnsFit

ColumnsTyped ==
  /\ cols.active \in ColumnIndex
  /\ \A c \in ColumnIndex : ToSet(cols.entries[c]) \subseteq Entry

TrailTyped ==
  /\ TrailInv /\ ColumnsTyped
  /\ unloaded \subseteq outdated /\ outdated \subseteq Place /\ early \subseteq 1 .. MaxColumns
  /\ trailEvents \in 0 .. MaxTrailEvents

\* Every column has an index, and reports the entries of its own folder.
LEMMA ColumnsReport ==
  ASSUME NEW path, GoodPath(path), at \in Place,
         NEW listing \in [Place -> SUBSET Entry], \A p \in Place : listing[p] \subseteq Contents(p),
         NEW missing, NEW shown, NEW c \in 0 .. Len(FoldersOfPath(path)),
         ShownIn(path, c) \notin missing
  PROVE  \A j \in DOMAIN SingleColumn(shown, path, listing, missing)[c] :
           SingleColumn(shown, path, listing, missing)[c][j] \in Contents(ShownIn(path, c))
<1>1. path \in Seq(Entry)
  BY DEF GoodPath
<1>2. /\ Len(FoldersOfPath(path)) \in 0 .. Len(path) /\ Len(path) \in Nat
      /\ \A i \in 1 .. Len(FoldersOfPath(path)) : path[i] \in Folder
  BY <1>1, FoldersBegin
<1>3. /\ Len(Columns(path)) = Len(FoldersOfPath(path)) + 1
      /\ PrefixOf(path, c) = ShownIn(path, c) /\ PrefixOf(path, c) \in Place
  BY <1>1, ColumnsOfPath
<1>4. c \in ColumnIndex
  BY PathIsShallow
<1>5. c < Len(Columns(path))
  BY <1>2, <1>3
<1> DEFINE p == PrefixOf(path, c)
<1>6. SingleColumn(shown, path, listing, missing)[c] = Listed(listing[p])
  BY <1>3, <1>4, <1>5 DEF SingleColumn
<1>7. p \in Place /\ p = ShownIn(path, c)
  BY <1>3
<1> HIDE DEF p
<1>8. listing[p] \in SUBSET Entry /\ listing[p] \subseteq Contents(p)
  BY <1>7
<1>9. PICK S \in SUBSET Entry : S = listing[p]
  BY <1>8
<1>10. Listed(S) \in [1 .. Cardinality(S) -> S]
  BY ListedIsAListing
<1> QED
  BY <1>6, <1>7, <1>8, <1>9, <1>10

\* The path changes: what is mounted reports.
LEMMA ColumnViewKeeps ==
  ASSUME TrailInv, NEW path \in Seq(Entry), Descends(path, early'), NEW column \in Nat,
         NEW cursor, ColumnView(path, column, cursor), UNCHANGED <<trailMode, at, unloaded>>
  PROVE  ColumnsFit'
<1>1. columnPath' = path /\ GoodPath(path)
  <2>1. /\ Len(Columns(path)) = Len(FoldersOfPath(path)) + 1
        /\ Len(FoldersOfPath(path)) \in Nat
    BY ColumnsOfPath, FoldersBegin DEF TrailInv, TreeInv, TrailTypes
  <2>2. Len(Columns(path)) <= MaxColumns /\ columnPath' = path
    BY DEF ColumnView
  <2> QED
    BY <2>1, <2>2, TrailAssumption DEF GoodPath
<1> DEFINE n == Len(FoldersOfPath(path))
           act == IF column < Len(Columns(path)) THEN column ELSE Len(Columns(path)) - 1
<1>2. cols' = [active |-> act, cursor |-> cursor,
               entries |-> SingleColumn(cols.entries, path, listings, unloaded)]
  BY DEF ColumnView
<1>3. path \in Seq(Entry) /\ at \in Place
  BY DEF GoodPath, TrailInv, TreeInv, TrailTypes
<1>4. n \in Nat /\ Len(Columns(path)) = n + 1
  BY <1>3, FoldersBegin, ColumnsOfPath
<1>5. act \in 0 .. n
  <2> HIDE DEF n
  <2> QED
    BY <1>4
<1> HIDE DEF act
<1>6. /\ cols'.active = act /\ cols'.cursor = cursor
      /\ cols'.entries = SingleColumn(cols.entries, path, listings, unloaded)
      /\ cols' = [active |-> cols'.active, cursor |-> cols'.cursor, entries |-> cols'.entries]
  BY <1>2
<1>7. /\ listings \in [Place -> SUBSET Entry]
      /\ \A p \in Place : listings[p] \subseteq Contents(p)
  BY DEF TrailInv, TreeInv, TrailTypes
<1>8. ASSUME NEW c \in 0 .. n, ShownIn(path, c) \notin unloaded
      PROVE  \A j \in DOMAIN cols'.entries[c] : cols'.entries[c][j] \in Contents(ShownIn(path, c))
  BY <1>1, <1>3, <1>6, <1>7, <1>8, ColumnsReport
<1>9. \A c : ShownIn(columnPath, c)' = ShownIn(path, c)
  BY <1>1 DEF ShownIn
<1> QED
  BY <1>1, <1>5, <1>6, <1>8, <1>9 DEF ColumnsFit

\* A column that is loaded shows entries of the folder it is for.
LEMMA EntriesBelong ==
  ASSUME TrailInv, trailMode = "Column", NEW c \in 0 .. Len(FoldersOfPath(columnPath)),
         ~Loading(c), NEW i \in DOMAIN cols.entries[c]
  PROVE  /\ cols.entries[c][i] \in Entry
         /\ c # 0 => Within[cols.entries[c][i]] = columnPath[c]
<1>1. columnPath \in Seq(Entry) /\ at \in Place
  BY DEF TrailInv, TreeInv, TrailTypes, ColumnsFit, GoodPath
<1>2. PrefixOf(columnPath, c) = ShownIn(columnPath, c)
  BY <1>1, ColumnsOfPath
<1>3. cols.entries[c][i] \in Contents(ShownIn(columnPath, c))
  BY <1>2 DEF Loading, TrailInv, ColumnsFit
<1> QED
  BY <1>3 DEF Contents, ShownIn

LEMMA SelectingKeeps ==
  ASSUME TrailInv, NEW c \in ColumnIndex, NEW i, selectEntry(c, i)
  PROVE  ColumnsFit'
<1>1. columnPath \in Seq(Entry) /\ at \in Place /\ GoodPath(columnPath)
  BY DEF TrailInv, TreeInv, TrailTypes, ColumnsFit, GoodPath
<1>2. /\ c \in Nat /\ Len(FoldersOfPath(columnPath)) \in Nat
      /\ Len(Columns(columnPath)) = Len(FoldersOfPath(columnPath)) + 1
  BY <1>1, FoldersBegin, ColumnsOfPath DEF ColumnIndex
<1>3. c \in 0 .. Len(FoldersOfPath(columnPath)) /\ c \in 0 .. Len(columnPath)
  BY <1>1, <1>2, FoldersBegin DEF selectEntry
<1> DEFINE e == cols.entries[c][i]
<1>4. e \in Entry /\ (c # 0 => Within[e] = columnPath[c])
  BY <1>3, EntriesBelong DEF selectEntry
<1>5. /\ ColumnView(Append(SubSeq(columnPath, 1, c), e), c, [cols.cursor EXCEPT ![c] = i])
      /\ UNCHANGED <<trailMode, at, unloaded>>
      /\ early \cap 1 .. c \subseteq early'
  BY DEF selectEntry, Entered
<1> HIDE DEF e
<1>6. /\ Append(SubSeq(columnPath, 1, c), e) \in Seq(Entry)
      /\ Descends(Append(SubSeq(columnPath, 1, c), e), early')
  <2>1. Descends(columnPath, early)
    BY DEF TrailInv, ColumnsFit
  <2> QED
    BY <1>1, <1>3, <1>4, <1>5, <2>1, PathGrows
<1> QED
  BY <1>2, <1>5, <1>6, ColumnViewKeeps

LEMMA EnteringKeeps ==
  ASSUME TrailTyped, ColumnEnter
  PROVE  ColumnsFit'
<1>0. TrailInv
  BY DEF TrailTyped
<1>1. columnPath \in Seq(Entry) /\ Descends(columnPath, early)
  BY <1>0 DEF TrailInv, TreeInv, TrailTypes, ColumnsFit, GoodPath
<1>2. PICK c : c = cols.active
  OBVIOUS
<1>3. PICK i : i = cols.cursor[c]
  OBVIOUS
<1>4. /\ trailMode = "Column" /\ i \in DOMAIN cols.entries[c]
      /\ UNCHANGED <<trailMode, at, unloaded>>
      /\ Entered(c)
  BY <1>2, <1>3 DEF ColumnEnter
<1>5. /\ c \in 0 .. Len(FoldersOfPath(columnPath)) /\ c \in ColumnIndex
      /\ Len(FoldersOfPath(columnPath)) \in 0 .. Len(columnPath)
  BY <1>0, <1>1, <1>2, <1>4, FoldersBegin DEF TrailTyped, ColumnsTyped, TrailInv, ColumnsFit
<1>6. Len(columnPath) \in Nat /\ c \in Nat /\ c \in 0 .. Len(columnPath)
  BY <1>1, <1>5, LenProperties
<1> DEFINE e == cols.entries[c][i]
<1>7. e \in Entry
  <2>1. e \in ToSet(cols.entries[c])
    BY <1>4 DEF ToSet
  <2> QED
    BY <1>5, <2>1 DEF TrailTyped, ColumnsTyped
<1>8. \/ ColumnView(Append(SubSeq(columnPath, 1, c), e), c + 1, cols.cursor)
      \/ ColumnView(SubSeq(columnPath, 1, c), c, cols.cursor)
  BY <1>2, <1>3 DEF ColumnEnter
<1>9. ~Loading(c) => (c # 0 => Within[e] = columnPath[c])
  BY <1>0, <1>4, <1>5, EntriesBelong
<1> HIDE DEF e
<1>10. PICK new : new = early'
  OBVIOUS
<1>11. early \cap 1 .. c \subseteq new /\ (Loading(c) => c + 1 \in new)
  BY <1>4, <1>10 DEF Entered
<1>12. /\ Append(SubSeq(columnPath, 1, c), e) \in Seq(Entry)
       /\ Descends(Append(SubSeq(columnPath, 1, c), e), new)
  BY <1>1, <1>6, <1>7, <1>9, <1>11, PathGrows
<1>13. SubSeq(columnPath, 1, c) \in Seq(Entry) /\ Descends(SubSeq(columnPath, 1, c), new)
  BY <1>1, <1>6, <1>11, PathIsCut, PathDescends
<1>14. c + 1 \in Nat
  BY <1>6
<1> QED
  BY <1>0, <1>4, <1>6, <1>8, <1>10, <1>12, <1>13, <1>14, ColumnViewKeeps

LEMMA ColumnLoadingKeeps ==
  ASSUME TrailInv, NEW p \in Place, useObjects(p)
  PROVE  ColumnsFit'
<1>1. /\ columnPath' = columnPath /\ trailMode' = trailMode /\ at' = at /\ early' = early
      /\ listings' = [listings EXCEPT ![p] = Contents(p) \cap there]
      /\ cols' = IF trailMode = "Column"
                 THEN [cols EXCEPT !.entries = SingleColumn(@, columnPath, listings', unloaded')] ELSE cols
  BY DEF useObjects
<1>2. at \in Place /\ GoodPath(columnPath) /\ Descends(columnPath, early)
      /\ cols = [active |-> cols.active, cursor |-> cols.cursor, entries |-> cols.entries]
  BY DEF TrailInv, TreeInv, TrailTypes, ColumnsFit
<1>3. PICK new, missing : new = listings' /\ missing = unloaded'
  OBVIOUS
<1>4. new \in [Place -> SUBSET Entry] /\ \A q \in Place : new[q] \subseteq Contents(q)
  BY <1>1, <1>3 DEF TrailInv, TreeInv, TrailTypes, Contents
<1>5. CASE trailMode # "Column"
  BY <1>1, <1>2, <1>5 DEF ColumnsFit
<1>6. CASE trailMode = "Column"
  <2> DEFINE reported == SingleColumn(cols.entries, columnPath, new, missing)
  <2>1. cols' = [cols EXCEPT !.entries = reported]
    BY <1>1, <1>3, <1>6
  <2>2. \A c \in 0 .. Len(FoldersOfPath(columnPath)) : ShownIn(columnPath, c) \notin missing =>
          \A j \in DOMAIN reported[c] : reported[c][j] \in Contents(ShownIn(columnPath, c))
    BY <1>2, <1>4, ColumnsReport
  <2> HIDE DEF reported
  <2>3. /\ cols'.active = cols.active /\ cols'.entries = reported
        /\ cols' = [active |-> cols'.active, cursor |-> cols'.cursor, entries |-> cols'.entries]
    BY <1>2, <2>1
  <2>4. \A c : ShownIn(columnPath, c)' = ShownIn(columnPath, c)
    BY <1>1 DEF ShownIn
  <2> QED
    BY <1>1, <1>2, <1>3, <1>6, <2>2, <2>3, <2>4 DEF TrailInv, ColumnsFit
<1> QED
  BY <1>5, <1>6

\* The pane goes elsewhere: only the first column is another one.
LEMMA ColumnLocationKeeps ==
  ASSUME TrailInv, NEW p \in Place, TrailLocation(p)
  PROVE  ColumnsFit'
<1>1. /\ at' = p /\ UNCHANGED <<trailMode, unloaded, columnPath, early>>
      /\ cols' = IF trailMode = "Column"
                 THEN [cols EXCEPT !.entries = [c \in ColumnIndex |->
                         IF c = 0 /\ p \notin unloaded THEN Listed(listings[p]) ELSE @[c]]] ELSE cols
  BY DEF TrailLocation
<1>2. /\ at \in Place /\ GoodPath(columnPath) /\ Descends(columnPath, early)
      /\ cols = [active |-> cols.active, cursor |-> cols.cursor, entries |-> cols.entries]
  BY DEF TrailInv, TreeInv, TrailTypes, ColumnsFit
<1>3. CASE trailMode # "Column"
  BY <1>1, <1>2, <1>3 DEF ColumnsFit
<1>4. CASE trailMode = "Column"
  <2> DEFINE reported == [c \in ColumnIndex |->
                            IF c = 0 /\ p \notin unloaded THEN Listed(listings[p]) ELSE cols.entries[c]]
  <2>1. cols' = [cols EXCEPT !.entries = reported]
    BY <1>1, <1>4
  <2>2. ASSUME NEW c \in 0 .. Len(FoldersOfPath(columnPath)),
               (IF c = 0 THEN p ELSE columnPath[c]) \notin unloaded
        PROVE  \A j \in DOMAIN reported[c] :
                 reported[c][j] \in Contents(IF c = 0 THEN p ELSE columnPath[c])
    <3>1. columnPath \in Seq(Entry)
      BY <1>2 DEF GoodPath
    <3>2. /\ Len(FoldersOfPath(columnPath)) \in 0 .. Len(columnPath) /\ Len(columnPath) \in Nat
          /\ \A i \in 1 .. Len(FoldersOfPath(columnPath)) : columnPath[i] \in Folder
      BY <3>1, FoldersBegin
    <3>3. c \in Nat /\ c \in ColumnIndex
      BY <1>2, <3>2, PathIsShallow
    <3>4. CASE c = 0
      <4>1. reported[c] = Listed(listings[p])
        BY <2>2, <3>3, <3>4
      <4>2. PICK S \in SUBSET Entry : S = listings[p] /\ S \subseteq Contents(p)
        BY DEF TrailInv, TreeInv, TrailTypes
      <4>3. Listed(S) \in [1 .. Cardinality(S) -> S]
        BY ListedIsAListing
      <4> HIDE DEF reported
      <4> QED
        BY <3>4, <4>1, <4>2, <4>3
    <3>5. CASE c # 0
      <4>6. reported[c] = cols.entries[c]
        BY <3>3, <3>5
      <4>7. ShownIn(columnPath, c) = columnPath[c]
        BY <3>5 DEF ShownIn
      <4> HIDE DEF reported
      <4> QED
        BY <1>4, <2>2, <3>5, <4>6, <4>7 DEF TrailInv, ColumnsFit
    <3> QED
      BY <3>4, <3>5
  <2> HIDE DEF reported
  <2>3. /\ cols'.active = cols.active /\ cols'.entries = reported
        /\ cols' = [active |-> cols'.active, cursor |-> cols'.cursor, entries |-> cols'.entries]
    BY <1>2, <2>1
  <2>4. \A c : ShownIn(columnPath, c)' = IF c = 0 THEN p ELSE columnPath[c]
    BY <1>1 DEF ShownIn
  <2> QED
    BY <1>1, <1>2, <1>4, <2>2, <2>3, <2>4 DEF TrailInv, ColumnsFit
<1> QED
  BY <1>3, <1>4

LEMMA ColumnModeKeeps ==
  ASSUME TrailInv, TrailViewMode
  PROVE  ColumnsFit'
<1>1. /\ at \in Place /\ GoodPath(columnPath) /\ columnPath \in Seq(Entry)
      /\ Descends(columnPath, early)
      /\ listings \in [Place -> SUBSET Entry] /\ \A p \in Place : listings[p] \subseteq Contents(p)
  BY DEF TrailInv, TreeInv, TrailTypes, ColumnsFit, GoodPath
<1> DEFINE fresh == FreshColumns(Len(Columns(columnPath)) - 1)
           reported == SingleColumn(fresh.entries, columnPath, listings, unloaded)
<1>2. cols' = [fresh EXCEPT !.entries = reported] /\ UNCHANGED <<at, unloaded, columnPath, early>>
  BY DEF TrailViewMode
<1>3. /\ fresh = [active |-> fresh.active, cursor |-> fresh.cursor, entries |-> fresh.entries]
      /\ fresh.active = Len(Columns(columnPath)) - 1
  BY DEF FreshColumns
<1>4. \A c \in 0 .. Len(FoldersOfPath(columnPath)) : ShownIn(columnPath, c) \notin unloaded =>
        \A j \in DOMAIN reported[c] : reported[c][j] \in Contents(ShownIn(columnPath, c))
  BY <1>1, ColumnsReport
<1> HIDE DEF fresh, reported
<1>5. /\ cols'.active = fresh.active /\ cols'.entries = reported
      /\ cols' = [active |-> cols'.active, cursor |-> cols'.cursor, entries |-> cols'.entries]
  BY <1>2, <1>3
<1>6. cols'.active \in 0 .. Len(FoldersOfPath(columnPath))
  <2>1. /\ Len(Columns(columnPath)) = Len(FoldersOfPath(columnPath)) + 1
        /\ Len(FoldersOfPath(columnPath)) \in Nat
    BY <1>1, FoldersBegin, ColumnsOfPath
  <2> QED
    BY <1>3, <1>5, <2>1
<1>7. \A c : ShownIn(columnPath, c)' = ShownIn(columnPath, c)
  BY <1>2 DEF ShownIn
<1> QED
  BY <1>1, <1>2, <1>4, <1>5, <1>6, <1>7 DEF ColumnsFit

LEMMA ColumnsKeep ==
  ASSUME TrailTyped, [TrailNext]_trailVars
  PROVE  ColumnsFit'
<1>0. TrailInv
  BY DEF TrailTyped
<1>1. CASE UNCHANGED <<trailMode, at, unloaded, columnPath, cols, early>>
  <2>1. \A c : ShownIn(columnPath, c)' = ShownIn(columnPath, c)
    BY <1>1 DEF ShownIn
  <2> QED
    BY <1>1, <2>1 DEF TrailTyped, TrailInv, ColumnsFit
<1>2. ASSUME NEW i, ColumnCursor(i) PROVE ColumnsFit'
  <2>1. /\ UNCHANGED <<trailMode, at, unloaded, columnPath, early>>
        /\ \E cursor : cols' = [cols EXCEPT !.cursor = cursor]
    <3>1. cols' = [cols EXCEPT !.cursor[cols.active] = i]
      BY <1>2 DEF ColumnCursor
    <3>2. cols' = [cols EXCEPT !.cursor = [cols.cursor EXCEPT ![cols.active] = i]]
      BY <3>1 DEF TrailTyped, TrailInv, ColumnsFit
    <3> QED
      BY <1>2, <3>2 DEF ColumnCursor
  <2>2. /\ cols'.active = cols.active /\ cols'.entries = cols.entries
        /\ cols' = [active |-> cols'.active, cursor |-> cols'.cursor, entries |-> cols'.entries]
    BY <2>1 DEF TrailTyped, TrailInv, ColumnsFit
  <2>3. \A c : ShownIn(columnPath, c)' = ShownIn(columnPath, c)
    BY <2>1 DEF ShownIn
  <2> QED
    BY <2>1, <2>2, <2>3 DEF TrailTyped, TrailInv, ColumnsFit
<1>3. CASE ColumnLeft
  <2>1. /\ UNCHANGED <<trailMode, at, unloaded, columnPath, early>> /\ cols.active > 0
        /\ cols' = [cols EXCEPT !.active = cols.active - 1] /\ trailMode = "Column"
    BY <1>3 DEF ColumnLeft
  <2>2. /\ cols'.active = cols.active - 1 /\ cols'.entries = cols.entries
        /\ cols' = [active |-> cols'.active, cursor |-> cols'.cursor, entries |-> cols'.entries]
    BY <2>1 DEF TrailTyped, TrailInv, ColumnsFit
  <2>3. \A c : ShownIn(columnPath, c)' = ShownIn(columnPath, c)
    BY <2>1 DEF ShownIn
  <2>4. Len(FoldersOfPath(columnPath)) \in Nat
    BY FoldersBegin DEF TrailTyped, TrailInv, ColumnsFit, GoodPath
  <2>5. cols'.active \in 0 .. Len(FoldersOfPath(columnPath))
    BY <2>1, <2>2, <2>4 DEF TrailTyped, TrailInv, ColumnsFit
  <2> QED
    BY <2>1, <2>2, <2>3, <2>5 DEF TrailTyped, TrailInv, ColumnsFit
<1>4. \A f : TreeRow(f) => UNCHANGED <<trailMode, at, unloaded, columnPath, cols, early>>
  BY DEF TreeRow
<1>5. \A f : ObjectIsDeleted(f) => UNCHANGED <<trailMode, at, unloaded, columnPath, cols, early>>
  BY DEF ObjectIsDeleted
<1>6. UNCHANGED trailVars => UNCHANGED <<trailMode, at, unloaded, columnPath, cols, early>>
  BY DEF trailVars
<1> QED
  BY <1>0, <1>1, <1>2, <1>3, <1>4, <1>5, <1>6, SelectingKeeps, EnteringKeeps, ColumnLoadingKeeps,
     ColumnLocationKeeps, ColumnModeKeeps DEF TrailNext

LEMMA ListedAreEntries ==
  ASSUME NEW S \in SUBSET Entry
  PROVE  ToSet(Listed(S)) \subseteq Entry
BY ListedIsAListing DEF ToSet

LEMMA ColumnsShowEntries ==
  ASSUME NEW path \in Seq(Entry), at \in Place, NEW listing \in [Place -> SUBSET Entry],
         NEW missing, NEW shown, \A c \in ColumnIndex : ToSet(shown[c]) \subseteq Entry
  PROVE  \A c \in ColumnIndex : ToSet(SingleColumn(shown, path, listing, missing)[c]) \subseteq Entry
<1> SUFFICES ASSUME NEW c \in ColumnIndex
             PROVE  ToSet(SingleColumn(shown, path, listing, missing)[c]) \subseteq Entry
  OBVIOUS
<1>1. /\ Len(Columns(path)) = Len(FoldersOfPath(path)) + 1
      /\ Len(FoldersOfPath(path)) \in Nat
      /\ \A i \in 0 .. Len(FoldersOfPath(path)) : PrefixOf(path, i) \in Place
  BY ColumnsOfPath, FoldersBegin
<1>2. c \in Nat
  BY DEF ColumnIndex
<1>3. CASE c < Len(Columns(path)) /\ PrefixOf(path, c) \notin missing
  <2>1. PrefixOf(path, c) \in Place
    BY <1>1, <1>2, <1>3
  <2>2. SingleColumn(shown, path, listing, missing)[c] = Listed(listing[PrefixOf(path, c)])
    BY <1>3 DEF SingleColumn
  <2> QED
    BY <2>1, <2>2, ListedAreEntries
<1>4. CASE ~(c < Len(Columns(path)) /\ PrefixOf(path, c) \notin missing)
  BY <1>4 DEF SingleColumn
<1> QED
  BY <1>3, <1>4

\* Opening a path.
LEMMA ColumnViewTyped ==
  ASSUME TrailTyped, TrailInv', trailMode' = "Column", NEW path, NEW column, NEW cursor,
         ColumnView(path, column, cursor)
  PROVE  ColumnsTyped'
<1>1. /\ path \in Seq(Entry) /\ at \in Place /\ listings \in [Place -> SUBSET Entry]
      /\ GoodPath(columnPath')
      /\ cols'.active \in 0 .. Len(FoldersOfPath(columnPath'))
  BY DEF TrailTyped, TrailInv, TreeInv, TrailTypes, ColumnsFit, GoodPath, ColumnView
<1>2. cols'.active \in ColumnIndex
  BY <1>1, PathIsShallow
<1>3. cols'.entries = SingleColumn(cols.entries, path, listings, unloaded)
  BY DEF ColumnView
<1>4. \A c \in ColumnIndex : ToSet(cols'.entries[c]) \subseteq Entry
  BY <1>1, <1>3, ColumnsShowEntries DEF TrailTyped, ColumnsTyped
<1> QED
  BY <1>2, <1>4 DEF ColumnsTyped

LEMMA ColumnsStayTyped ==
  ASSUME TrailTyped, TrailInv', [TrailNext]_trailVars
  PROVE  ColumnsTyped'
<1>0. /\ cols = [active |-> cols.active, cursor |-> cols.cursor, entries |-> cols.entries]
      /\ columnPath \in Seq(Entry) /\ GoodPath(columnPath) /\ at \in Place
      /\ listings \in [Place -> SUBSET Entry] /\ listings' \in [Place -> SUBSET Entry]
      /\ \A c \in ColumnIndex : ToSet(cols.entries[c]) \subseteq Entry
      /\ cols.active \in ColumnIndex
  BY DEF TrailTyped, TrailInv, TreeInv, TrailTypes, ColumnsFit, ColumnsTyped, GoodPath
<1>1. trailMode' = "Column" => cols'.active \in ColumnIndex
  <2>1. trailMode' = "Column" =>
          GoodPath(columnPath') /\ cols'.active \in 0 .. Len(FoldersOfPath(columnPath'))
    BY DEF TrailInv, ColumnsFit
  <2> QED
    BY <2>1, PathIsShallow
<1>2. CASE cols' = cols
  BY <1>0, <1>2 DEF ColumnsTyped
<1>3. ASSUME NEW c, NEW i, selectEntry(c, i) PROVE ColumnsTyped'
  <2>1. \E path, cursor : ColumnView(path, c, cursor)
    BY <1>3 DEF selectEntry
  <2>2. trailMode' = "Column"
    BY <1>3 DEF selectEntry
  <2> QED
    BY <2>1, <2>2, ColumnViewTyped
<1>4. CASE ColumnEnter
  <2>1. \E path, column, cursor : ColumnView(path, column, cursor)
    BY <1>4 DEF ColumnEnter
  <2>2. trailMode' = "Column"
    BY <1>4 DEF ColumnEnter
  <2> QED
    BY <2>1, <2>2, ColumnViewTyped
<1>5. ASSUME NEW i, ColumnCursor(i) PROVE ColumnsTyped'
  <2>1. cols' = [cols EXCEPT !.cursor[cols.active] = i] /\ trailMode' = "Column"
    BY <1>5 DEF ColumnCursor
  <2>2. cols' = [cols EXCEPT !.cursor = [cols.cursor EXCEPT ![cols.active] = i]]
    BY <1>0, <2>1
  <2>3. cols'.entries = cols.entries
    BY <1>0, <2>2
  <2> QED
    BY <1>0, <1>1, <2>1, <2>3 DEF ColumnsTyped
<1>6. CASE ColumnLeft
  <2>1. cols' = [cols EXCEPT !.active = cols.active - 1] /\ trailMode' = "Column"
    BY <1>6 DEF ColumnLeft
  <2>2. cols'.entries = cols.entries
    BY <1>0, <2>1
  <2> QED
    BY <1>0, <1>1, <2>1, <2>2 DEF ColumnsTyped
<1>7. CASE TrailViewMode
  <2> DEFINE fresh == FreshColumns(Len(Columns(columnPath)) - 1)
             reported == SingleColumn(fresh.entries, columnPath, listings, unloaded)
  <2>1. cols' = [fresh EXCEPT !.entries = reported]
    BY <1>7 DEF TrailViewMode
  <2>2. /\ fresh = [active |-> fresh.active, cursor |-> fresh.cursor, entries |-> fresh.entries]
        /\ fresh.active = Len(Columns(columnPath)) - 1
        /\ fresh.entries = [c \in ColumnIndex |-> <<>>]
    BY DEF FreshColumns
  <2>3. \A c \in ColumnIndex : ToSet(fresh.entries[c]) \subseteq Entry
    <3>1. ToSet(<<>>) = {}
      BY DEF ToSet
    <3> QED
      BY <2>2, <3>1
  <2>4. \A c \in ColumnIndex : ToSet(reported[c]) \subseteq Entry
    <3> HIDE DEF fresh
    <3> QED
      BY <1>0, <2>3, ColumnsShowEntries
  <2> HIDE DEF fresh, reported
  <2>5. cols'.active = fresh.active /\ cols'.entries = reported
    BY <2>1, <2>2
  <2>6. fresh.active \in 0 .. Len(FoldersOfPath(columnPath))
    BY <1>0, <2>2, ColumnsOfPath, FoldersBegin
  <2> QED
    BY <1>0, <2>4, <2>5, <2>6, PathIsShallow DEF ColumnsTyped
<1>8. ASSUME NEW p \in Place, useObjects(p) PROVE ColumnsTyped'
  <2>1. CASE trailMode = "Column"
    <3> DEFINE reported == SingleColumn(cols.entries, columnPath, listings', unloaded')
    <3>1. cols' = [cols EXCEPT !.entries = reported] /\ trailMode' = "Column"
      BY <1>8, <2>1 DEF useObjects
    <3>2. \A c \in ColumnIndex : ToSet(reported[c]) \subseteq Entry
      BY <1>0, ColumnsShowEntries
    <3> HIDE DEF reported
    <3>3. cols'.entries = reported
      BY <1>0, <3>1
    <3> QED
      BY <1>1, <3>1, <3>2, <3>3 DEF ColumnsTyped
  <2>2. CASE trailMode # "Column"
    BY <1>2, <1>8, <2>2 DEF useObjects
  <2> QED
    BY <2>1, <2>2
<1>9. ASSUME NEW p \in Place, TrailLocation(p) PROVE ColumnsTyped'
  <2>1. CASE trailMode = "Column"
    <3> DEFINE reported == [c \in ColumnIndex |-> IF c = 0 /\ p \notin unloaded
                                                  THEN Listed(listings[p]) ELSE cols.entries[c]]
    <3>1. cols' = [cols EXCEPT !.entries = reported] /\ trailMode' = "Column"
      BY <1>9, <2>1 DEF TrailLocation
    <3>2. ToSet(Listed(listings[p])) \subseteq Entry
      BY <1>0, ListedAreEntries
    <3>3. \A c \in ColumnIndex : ToSet(reported[c]) \subseteq Entry
      BY <1>0, <3>2
    <3> HIDE DEF reported
    <3>4. cols'.entries = reported
      BY <1>0, <3>1
    <3> QED
      BY <1>1, <3>1, <3>3, <3>4 DEF ColumnsTyped
  <2>2. CASE trailMode # "Column"
    BY <1>2, <1>9, <2>2 DEF TrailLocation
  <2> QED
    BY <2>1, <2>2
<1>10. (\E f : TreeRow(f) \/ ObjectIsDeleted(f)) \/ UNCHANGED trailVars => cols' = cols
  BY DEF TreeRow, ObjectIsDeleted, trailVars
<1> QED
  BY <1>2, <1>3, <1>4, <1>5, <1>6, <1>7, <1>8, <1>9, <1>10 DEF TrailNext

\* A mark is set at a column that is there.
LEMMA MarksFit ==
  ASSUME TrailTyped, [TrailNext]_trailVars
  PROVE  early' \subseteq 1 .. MaxColumns
<1>1. early \subseteq 1 .. MaxColumns /\ MaxColumns \in Nat
  BY TrailAssumption DEF TrailTyped
<1>2. ASSUME NEW c \in ColumnIndex, Entered(c) PROVE early' \subseteq 1 .. MaxColumns
  <2>1. c + 1 \in 1 .. MaxColumns
    BY <1>1 DEF ColumnIndex
  <2> QED
    BY <1>1, <1>2, <2>1 DEF Entered
<1>3. \A c, i : selectEntry(c, i) => Entered(c)
  BY DEF selectEntry
<1>4. ColumnEnter => Entered(cols.active) /\ cols.active \in ColumnIndex
  BY DEF ColumnEnter, TrailTyped, ColumnsTyped
<1>5. \/ early' = early \/ ColumnEnter
      \/ \E c \in ColumnIndex : \E i \in 1 .. Cardinality(Entry) : selectEntry(c, i)
  BY DEF TrailNext, TreeRow, ColumnCursor, ColumnLeft, TrailViewMode, useObjects, TrailLocation,
         ObjectIsDeleted, trailVars
<1> QED
  BY <1>1, <1>2, <1>3, <1>4, <1>5

LEMMA TrailFits ==
  /\ TrailInit => TrailTyped
  /\ TrailTyped /\ [TrailNext]_trailVars => TrailTyped'
<1>1. TrailInit => TrailTyped
  <2> SUFFICES ASSUME TrailInit PROVE TrailTyped
    OBVIOUS
  <2>1. TreeInv
    BY DEF TrailInit, TreeInv, TrailTypes, LoadedIsTrue, ChildrenFollow,
           Place, Entry, Contents
  <2>2. Descends(columnPath, early)
    BY EmptySeq DEF TrailInit, Descends
  <2>3. /\ cols.active = 0 /\ cols.entries = [c \in ColumnIndex |-> <<>>]
        /\ cols = [active |-> cols.active, cursor |-> cols.cursor, entries |-> cols.entries]
    BY DEF TrailInit, FreshColumns
  <2>4. Len(FoldersOfPath(columnPath)) = 0
    <3>1. columnPath \in Seq(Entry) /\ Len(columnPath) = 0
      BY EmptySeq DEF TrailInit
    <3>2. Len(FoldersOfPath(columnPath)) \in 0 .. Len(columnPath)
      BY <3>1, FoldersBegin
    <3> QED
      BY <3>1, <3>2
  <2>5. ShownIn(columnPath, 0) \in unloaded
    BY DEF TrailInit, ShownIn, Place
  <2>6. GoodPath(columnPath)
    BY <2>4, EmptySeq, TrailAssumption DEF TrailInit, GoodPath
  <2>7. TrailInv
    BY <2>1, <2>2, <2>3, <2>4, <2>5, <2>6 DEF TrailInv, ColumnsFit
  <2>8. ColumnsTyped
    <3>1. ToSet(<<>>) = {} /\ 0 \in ColumnIndex
      BY TrailAssumption DEF ToSet, ColumnIndex
    <3> QED
      BY <2>3, <3>1 DEF ColumnsTyped
  <2> QED
    BY <2>7, <2>8, TrailAssumption DEF TrailInit, TrailTyped
<1>2. TrailTyped /\ [TrailNext]_trailVars => TrailTyped'
  <2> SUFFICES ASSUME TrailTyped, [TrailNext]_trailVars PROVE TrailTyped'
    OBVIOUS
  <2>1. TrailInv'
    BY TreeKeeps, ColumnsKeep DEF TrailTyped, TrailInv
  <2>2. ColumnsTyped'
    BY <2>1, ColumnsStayTyped
  <2>3. \A f \in File : Within[f] \in Place
    BY ListingsAssumption DEF Entry
  <2>4. unloaded' \subseteq outdated' /\ outdated' \subseteq Place
    BY <2>3 DEF TrailNext, TrailTyped, TreeRow, selectEntry, ColumnCursor, ColumnEnter, ColumnLeft,
                TrailViewMode, useObjects, TrailLocation, ObjectIsDeleted, trailVars
  <2>5. trailEvents' = trailEvents \/ Counted
    BY DEF TrailNext, TreeRow, selectEntry, ColumnCursor, ColumnEnter, ColumnLeft,
           TrailViewMode, useObjects, TrailLocation, ObjectIsDeleted, trailVars
  <2>6. trailEvents' \in 0 .. MaxTrailEvents
    BY <2>5, TrailAssumption DEF Counted, TrailTyped
  <2>7. early' \subseteq 1 .. MaxColumns
    BY MarksFit
  <2> QED
    BY <2>1, <2>2, <2>4, <2>6, <2>7 DEF TrailTyped
<1> QED
  BY <1>1, <1>2

\* Whatever is expanded, entered, deleted and loaded in any order: the tree,
\* once its listings are loaded, shows what exists, and besides only what it
\* kept of a folder that has become empty; and the columns descend but where a
\* key entered a column that was loading (TreeView.tsx, ColumnView.tsx).
THEOREM TrailsStayTrue == TrailSpec => []TrailsAreTrue
<1>1. TrailTyped => TrailsAreTrue
  BY TreeIsAsItShouldBe
     DEF TrailTyped, TrailInv, ColumnsFit, Descends, ColumnsDescend, TrailsAreTrue
<1> QED
  BY <1>1, TrailFits, PTL DEF TrailSpec

LEMMA TrailTypesAlways == TrailSpec => []TrailTypeOK
<1>1. TrailTyped => TrailTypeOK
  <2> SUFFICES ASSUME TrailTyped PROVE TrailTypeOK
    OBVIOUS
  <2>1. \A i \in DOMAIN columnPath : columnPath[i] \in Entry
    BY DEF TrailTyped, TrailInv, ColumnsFit, GoodPath
  <2> QED
    BY <2>1 DEF TrailTyped, ColumnsTyped, TrailInv, TreeInv, TrailTypes, TrailTypeOK
<1> QED
  BY <1>1, TrailFits, PTL DEF TrailSpec

-----------------------------------------------------------------------------
(* The panes.                                                              *)

PanesExist == DOMAIN panes \subseteq PaneId

\* The effects write to one pane, or to none.
LEMMA EffectsWriteToOne ==
  ASSUME NEW ps, NEW act, NEW vs, NEW mounted, NEW firing
  PROVE  /\ DOMAIN SyncEffect(ps, act, vs, mounted, firing) = DOMAIN ps
         /\ \A p \in DOMAIN ps \ {act} : SyncEffect(ps, act, vs, mounted, firing)[p] = ps[p]
<1>1. PICK sel : SyncEffect(ps, act, vs, mounted, firing) \in {ps, [ps EXCEPT ![act].sel = sel]}
  BY Zenon DEF SyncEffect
<1> QED
  BY <1>1

\* A step gives a location, a filter and a selection to one pane.
LEMMA SettleLeavesTheOthers ==
  ASSUME PanesExist, NEW ps, NEW act, NEW vs, NEW gone, NEW touched,
         DOMAIN ps = DOMAIN panes, \A p \in DOMAIN panes \ {act} : ps[p] = panes[p],
         Settle(ps, act, vs, gone, touched)
  PROVE  PanesExist' /\ \A p \in DOMAIN panes \ {active'} : panes'[p] = panes[p]
<1>1. PICK split, mounted, now, firing :
        /\ split \in {splitPane(ps, act), ps}
        /\ panes' = SyncEffect(split, act, now, mounted, firing)
        /\ active' = act
  BY DEF Settle
<1>2. /\ DOMAIN split \in {PaneId, DOMAIN panes}
      /\ \A p \in DOMAIN panes : p \in DOMAIN split /\ split[p] = ps[p]
  BY <1>1 DEF PanesExist, splitPane
<1>3. /\ DOMAIN panes' = DOMAIN split
      /\ \A p \in DOMAIN split \ {act} : panes'[p] = split[p]
  BY <1>1, EffectsWriteToOne
<1> QED
  BY <1>1, <1>2, <1>3 DEF PanesExist

\* Only the pane that is active after a step has been given anything by it
\* (store/panes.ts, lib/selection.ts and the views of views/browser).
THEOREM InactivePanesStay == PaneSpec => InactivePaneIsLeftAlone
<1> DEFINE Alone == panes' # panes => \A p \in DOMAIN panes \ {active'} : panes'[p] = panes[p]
<1>1. PaneInit => PanesExist
  BY DEF PaneInit, PanesExist, PaneId
<1>2. PanesExist /\ [PaneNext]_paneVars => PanesExist' /\ [Alone]_paneVars
  <2> SUFFICES ASSUME PanesExist, [PaneNext]_paneVars
               PROVE  PanesExist' /\ \A p \in DOMAIN panes \ {active'} : panes'[p] = panes[p]
    BY Zenon
  <2>0. \A place : /\ DOMAIN setLocation(active, place) = DOMAIN panes
                   /\ \A p \in DOMAIN panes \ {active} : setLocation(active, place)[p] = panes[p]
    BY DEF setLocation
  <2>1. CASE UNCHANGED paneVars
    BY <2>1 DEF paneVars, PanesExist
  <2>2. ASSUME NEW v, ViewEvent(v)
        PROVE  PanesExist' /\ \A p \in DOMAIN panes \ {active'} : panes'[p] = panes[p]
    <3>1. ASSUME NEW i, handleOpen(v, i)
          PROVE  PanesExist' /\ \A p \in DOMAIN panes \ {active'} : panes'[p] = panes[p]
      <4>1. PICK ps : /\ \/ \E e : ps = setLocation(active, e)
                         \/ \E e : ps = [panes EXCEPT ![active].sel = e]
                      /\ Settle(ps, active, views, away, {})
        BY <3>1 DEF handleOpen
      <4>2. DOMAIN ps = DOMAIN panes /\ \A p \in DOMAIN panes \ {active} : ps[p] = panes[p]
        BY <2>0, <4>1
      <4> QED
        BY <4>1, <4>2, SettleLeavesTheOthers
    <3>2. CASE handleNavigateUp
      <4>1. PICK place : Settle(setLocation(active, place), active, views, away, {})
        BY <3>2 DEF handleNavigateUp
      <4> QED
        BY <2>0, <4>1, SettleLeavesTheOthers
    <3>3. ASSUME NEW w, NEW view, Touch(w, view) \/ Move(w, view)
          PROVE  PanesExist' /\ \A p \in DOMAIN panes \ {active'} : panes'[p] = panes[p]
      BY <3>3, SettleLeavesTheOthers DEF Touch, Move
    <3>4. ASSUME NEW i, RowContextMenu(v, i) PROVE \E view : Touch(v, view)
      BY <3>4 DEF RowContextMenu
    <3>5. ASSUME NEW i, NEW key, RowClick(v, i, key) PROVE \E view : Touch(v, view)
      BY <3>5 DEF RowClick
    <3>6. ASSUME NEW by, ArrowKey(v, by) PROVE \E view : Move(v, view)
      BY <3>6 DEF ArrowKey
    <3>7. SelectAll(v) => \E view : Touch(v, view)
      BY DEF SelectAll
    <3>8. ColHeader(v) => \E view : Move(v, view)
      BY DEF ColHeader
    <3> QED
      BY <2>2, <3>1, <3>2, <3>3, <3>4, <3>5, <3>6, <3>7, <3>8 DEF ViewEvent
  <2>3. CASE setFilter
    <3>1. PICK ps : (\E e : ps = [panes EXCEPT ![active].filtered = e]) /\ Settle(ps, active, views, away, {})
      BY <2>3 DEF setFilter
    <3>2. DOMAIN ps = DOMAIN panes /\ \A p \in DOMAIN panes \ {active} : ps[p] = panes[p]
      BY <3>1
    <3> QED
      BY <3>1, <3>2, SettleLeavesTheOthers
  <2>4. ASSUME NEW place, Navigate(place)
        PROVE  PanesExist' /\ \A p \in DOMAIN panes \ {active'} : panes'[p] = panes[p]
    BY <2>0, <2>4, SettleLeavesTheOthers DEF Navigate
  <2>5. ASSUME NEW f, OpenBookmark(f)
        PROVE  PanesExist' /\ \A p \in DOMAIN panes \ {active'} : panes'[p] = panes[p]
    <3>1. PICK ps : /\ \E place, e : ps = [setLocation(active, place) EXCEPT ![active].sel = e]
                    /\ Settle(ps, active, views, away, {})
      BY <2>5 DEF OpenBookmark
    <3>2. DOMAIN ps = DOMAIN panes /\ \A p \in DOMAIN panes \ {active} : ps[p] = panes[p]
      BY <2>0, <3>1
    <3> QED
      BY <3>1, <3>2, SettleLeavesTheOthers
  <2>6. ASSUME NEW mode, setViewMode(mode)
        PROVE  PanesExist' /\ \A p \in DOMAIN panes \ {active'} : panes'[p] = panes[p]
    <3>1. PICK ps : ps = [panes EXCEPT ![active].mode = mode] /\ Settle(ps, active, views, away, {})
      BY <2>6 DEF setViewMode
    <3>2. DOMAIN ps = DOMAIN panes /\ \A p \in DOMAIN panes \ {active} : ps[p] = panes[p]
      BY <3>1
    <3> QED
      BY <3>1, <3>2, SettleLeavesTheOthers
  <2>7. ASSUME NEW p, setActivePane(p)
        PROVE  PanesExist' /\ \A q \in DOMAIN panes \ {active'} : panes'[q] = panes[q]
    BY <2>7, SettleLeavesTheOthers DEF setActivePane
  <2>8. CASE ToggleDestination
    BY <2>8, SettleLeavesTheOthers DEF ToggleDestination
  <2> QED
    BY <2>1, <2>2, <2>3, <2>4, <2>5, <2>6, <2>7, <2>8 DEF PaneNext
<1> QED
  BY <1>1, <1>2, PTL DEF PaneSpec, InactivePaneIsLeftAlone

-----------------------------------------------------------------------------
(* The types of the optimistic listing.                                    *)

Phase == {"idle", "sent", "ok", "failed", "done", "refused"}
OpRecord == [kind : CommandKind \cup {"none"}, from : SUBSET Name, to : SUBSET Name,
             phase : Phase, snapshot : Cached, sent : BOOLEAN]

LEMMA HasAMember ==
  ASSUME NEW S, Cardinality(S) = 1
  PROVE  \E x \in S : TRUE
<1>1. CASE S = {}
  <2>1. Cardinality(S) = 0
    BY <1>1, FS_EmptySet
  <2> QED
    BY <2>1
<1>2. CASE S # {}
  BY <1>2
<1> QED
  BY <1>1, <1>2

LEMMA PagesAreCached ==
  /\ Nothing \in Cached
  /\ \A s \in SUBSET Name : Pages(s) \in Cached /\ Flat(s) \in Cached
  /\ \A c \in Cached : c.entries \in SUBSET Name
<1>1. Nothing \in Cached /\ \A s \in SUBSET Name : Pages(s) \in Cached /\ Flat(s) \in Cached
  BY DEF Cached
<1>2. \A s \in SUBSET Name : Pages(s).entries = s /\ Flat(s).entries = s
  BY DEF Pages, Flat
<1>3. Nothing.entries \in SUBSET Name
  BY DEF Nothing
<1>4. ASSUME NEW c \in Cached PROVE c.entries \in SUBSET Name
  BY <1>2, <1>3, Zenon DEF Cached
<1> QED
  BY <1>1, <1>4

\* What a helper writes can be cached.
LEMMA OptimisticTyped ==
  ASSUME NEW old \in Cached, NEW kind \in CommandKind, NEW from \in SUBSET Name,
         NEW to \in SUBSET Name, Asked(kind, from, to), NEW o,
         o.kind = kind, o.from = from, o.to = to
  PROVE  Optimistic(o, old) \in Cached
<1> DEFINE key == CHOOSE k \in o.from \cup o.to : o.from = {} \/ k \in o.from
           dest == CHOOSE d \in o.to : TRUE
<1>1. old.entries \in SUBSET Name
  BY PagesAreCached
<1>2. kind \in {"create", "delete", "rename", "batch"}
  BY ListingAssumption DEF AllKinds
<1>3. CASE kind = "create"
  <2>1. from = {} /\ \E k \in to : TRUE
    BY <1>3, HasAMember DEF Asked
  <2>2. key \in Name
    BY <2>1
  <2> HIDE DEF key
  <2>3. Flat({key}) \in Cached /\ Flat(old.entries \cup {key}) \in Cached
    BY <1>1, <2>2, PagesAreCached
  <2>4. Optimistic(o, old) = OptimisticCreateFolder(old, key)
    BY <1>3, Zenon DEF Optimistic, key
  <2> QED
    BY <2>3, <2>4 DEF OptimisticCreateFolder
<1>4. CASE kind = "delete"
  <2>1. Optimistic(o, old) = OptimisticDeleteSingle(old, key)
    BY <1>4 DEF Optimistic
  <2> HIDE DEF key
  <2> QED
    BY <1>1, <2>1, PagesAreCached DEF OptimisticDeleteSingle
<1>5. CASE kind = "rename"
  <2>1. dest \in Name
    BY <1>5, HasAMember DEF Asked
  <2>2. Optimistic(o, old) = OptimisticRenameSingle(old, key, dest)
    BY <1>5 DEF Optimistic
  <2> HIDE DEF key, dest
  <2>3. {IF e = key THEN dest ELSE e : e \in old.entries} \in SUBSET Name
    BY <1>1, <2>1
  <2> QED
    BY <2>2, <2>3, PagesAreCached DEF OptimisticRenameSingle
<1>6. CASE kind = "batch"
  BY <1>6 DEF Optimistic
<1> QED
  BY <1>2, <1>3, <1>4, <1>5, <1>6

LEMMA RunTyped ==
  ASSUME ListingTypeOK, NEW o \in Op, NEW kind \in CommandKind, NEW from \in SUBSET Name,
         NEW to \in SUBSET Name, Run(o, kind, from, to)
  PROVE  ListingTypeOK'
<1> DEFINE new == [kind |-> kind, from |-> from, to |-> to, phase |-> "sent",
                   snapshot |-> cache, sent |-> TRUE]
           throws == kind # "batch" /\ Throws(cache)
           entry == IF throws THEN [new EXCEPT !.phase = "done", !.sent = FALSE] ELSE new
<1>1. /\ ops' = [ops EXCEPT ![o] = entry]
      /\ fetch' = IF kind = "batch" THEN fetch ELSE Idle
      /\ cache' = IF throws THEN cache ELSE Optimistic(new, cache)
      /\ stale' = (stale /\ (throws \/ Optimistic(new, cache) = Nothing \/ kind = "batch"))
      /\ UNCHANGED <<server, objectEvents, overtaken>>
      /\ Asked(kind, from, to)
  BY DEF Run
<1>2. Optimistic(new, cache) \in Cached
  BY <1>1, OptimisticTyped DEF ListingTypeOK
<1>3. entry \in OpRecord
  <2>1. ASSUME NEW b \in BOOLEAN, NEW phase \in Phase
        PROVE  [kind |-> kind, from |-> from, to |-> to, phase |-> phase,
                snapshot |-> cache, sent |-> b] \in OpRecord
    BY DEF OpRecord, ListingTypeOK
  <2>2. [new EXCEPT !.phase = "done", !.sent = FALSE]
          = [kind |-> kind, from |-> from, to |-> to, phase |-> "done",
             snapshot |-> cache, sent |-> FALSE]
    <3>1. ASSUME NEW b \in BOOLEAN, NEW c \in BOOLEAN
          PROVE  [[kind |-> kind, from |-> from, to |-> to, phase |-> "sent",
                   snapshot |-> cache, sent |-> b] EXCEPT !.phase = "done", !.sent = c]
                   = [kind |-> kind, from |-> from, to |-> to, phase |-> "done",
                      snapshot |-> cache, sent |-> c]
      <4> DEFINE r == [kind |-> kind, from |-> from, to |-> to, phase |-> "sent",
                       snapshot |-> cache, sent |-> b]
                 q == [kind |-> kind, from |-> from, to |-> to, phase |-> "done",
                       snapshot |-> cache, sent |-> b]
      <4>1. [r EXCEPT !.phase = "done"] = q
        OBVIOUS
      <4>2. [q EXCEPT !.sent = c] = [kind |-> kind, from |-> from, to |-> to, phase |-> "done",
                                     snapshot |-> cache, sent |-> c]
        OBVIOUS
      <4> HIDE DEF r, q
      <4>3. [r EXCEPT !.phase = "done", !.sent = c]
              = [kind |-> kind, from |-> from, to |-> to, phase |-> "done",
                 snapshot |-> cache, sent |-> c]
        BY <4>1, <4>2, Zenon
      <4> USE DEF r
      <4> QED
        BY <4>3, Zenon
    <3>2. TRUE \in BOOLEAN /\ FALSE \in BOOLEAN
      OBVIOUS
    <3> QED
      BY <3>1, <3>2, Zenon
  <2>3. "done" \in Phase /\ "sent" \in Phase /\ TRUE \in BOOLEAN /\ FALSE \in BOOLEAN
    BY DEF Phase
  <2>4. new \in OpRecord
    BY <2>1, <2>3, Zenon
  <2>5. [new EXCEPT !.phase = "done", !.sent = FALSE] \in OpRecord
    <3>1. [kind |-> kind, from |-> from, to |-> to, phase |-> "done",
           snapshot |-> cache, sent |-> FALSE] \in OpRecord
      BY <2>1, <2>3, Zenon
    <3> HIDE DEF new
    <3> QED
      BY <2>2, <3>1, Zenon
  <2> HIDE DEF new, throws
  <2> QED
    BY <2>4, <2>5, Zenon
<1> HIDE DEF entry, new
<1>4. ops' \in [Op -> OpRecord]
  BY <1>1, <1>3 DEF ListingTypeOK, OpRecord, Phase
<1>5. stale' \in BOOLEAN /\ cache' \in Cached
  BY <1>1, <1>2 DEF ListingTypeOK
<1>6. fetch' \in [phase : {"idle", "asked", "read"}, entries : SUBSET Name]
  BY <1>1 DEF ListingTypeOK, Idle
<1> QED
  BY <1>1, <1>4, <1>5, <1>6 DEF ListingTypeOK, OpRecord, Phase

LEMMA ListingTypesHold ==
  /\ ListingInit => ListingTypeOK
  /\ ListingTypeOK /\ [ListingNext]_listingVars => ListingTypeOK'
<1>1. ListingInit => ListingTypeOK
  <2> SUFFICES ASSUME ListingInit PROVE ListingTypeOK
    OBVIOUS
  <2>1. NotRun \in OpRecord
    <3>1. PICK b \in BOOLEAN : b = FALSE
      OBVIOUS
    <3>2. NotRun = [kind |-> "none", from |-> {}, to |-> {}, phase |-> "idle",
                    snapshot |-> Nothing, sent |-> b]
      BY <3>1, Zenon DEF NotRun
    <3> QED
      BY <3>2, PagesAreCached DEF OpRecord, Phase
  <2>2. ops \in [Op -> OpRecord]
    BY <2>1 DEF ListingInit
  <2>3. cache \in Cached
    BY PagesAreCached DEF ListingInit
  <2> QED
    BY <2>2, <2>3 DEF ListingInit, ListingTypeOK, OpRecord, Phase, Idle
<1>2. ListingTypeOK /\ [ListingNext]_listingVars => ListingTypeOK'
  <2> SUFFICES ASSUME ListingTypeOK, [ListingNext]_listingVars PROVE ListingTypeOK'
    OBVIOUS
  <2>0. /\ ops \in [Op -> OpRecord] /\ cache \in Cached /\ server \subseteq Name
        /\ fetch \in [phase : {"idle", "asked", "read"}, entries : SUBSET Name]
        /\ objectEvents \subseteq Op /\ stale \in BOOLEAN /\ overtaken \in BOOLEAN
    BY DEF ListingTypeOK, OpRecord, Phase
  <2>1. \A o \in Op, phase \in Phase : [ops EXCEPT ![o].phase = phase] \in [Op -> OpRecord]
    BY <2>0 DEF OpRecord
  <2>2. CASE UNCHANGED listingVars
    BY <2>2 DEF listingVars, ListingTypeOK
  <2>3. CASE Mount \/ ListingRead
    <3>1. fetch' \in [phase : {"idle", "asked", "read"}, entries : SUBSET Name]
      BY <2>0, <2>3 DEF Mount, ListingRead
    <3>2. overtaken' \in BOOLEAN /\ UNCHANGED <<server, cache, stale, ops, objectEvents>>
      BY <2>0, <2>3 DEF Mount, ListingRead
    <3> QED
      BY <2>0, <3>1, <3>2 DEF ListingTypeOK, OpRecord, Phase
  <2>4. CASE ListingArrives
    BY <2>0, <2>4, PagesAreCached DEF ListingArrives, ListingTypeOK, Idle
  <2>5. ASSUME NEW o \in Op, ObjectsUpdated(o) PROVE ListingTypeOK'
    <3>1. fetch' \in {fetch, [phase |-> "asked", entries |-> {}]} /\ overtaken' \in BOOLEAN
      BY <2>0, <2>5 DEF ObjectsUpdated
    <3> QED
      BY <2>0, <2>5, <3>1 DEF ObjectsUpdated, ListingTypeOK
  <2>6. ASSUME NEW o \in Op, ApiLands(o) PROVE ListingTypeOK'
    <3>1. ops' \in [Op -> OpRecord]
      BY <2>1, <2>6 DEF ApiLands, Phase
    <3>2. server' \subseteq Name
      BY <2>0, <2>6 DEF ApiLands, OpRecord
    <3>3. objectEvents' \subseteq Op /\ UNCHANGED <<cache, stale, fetch, overtaken>>
      BY <2>0, <2>6 DEF ApiLands
    <3> QED
      BY <2>0, <3>1, <3>2, <3>3 DEF ListingTypeOK, OpRecord, Phase
  <2>7. ASSUME NEW o \in Op, ApiAnswers(o) PROVE ListingTypeOK'
    <3>1. ops' \in [Op -> OpRecord]
      BY <2>1, <2>7 DEF ApiAnswers, Phase
    <3>2. cache' \in Cached /\ stale' \in BOOLEAN
      BY <2>0, <2>7 DEF ApiAnswers, OpRecord
    <3>3. UNCHANGED <<server, fetch, objectEvents, overtaken>>
      BY <2>7 DEF ApiAnswers
    <3> QED
      BY <2>0, <3>1, <3>2, <3>3 DEF ListingTypeOK, OpRecord, Phase
  <2> QED
    BY <2>2, <2>3, <2>4, <2>5, <2>6, <2>7, RunTyped DEF ListingNext
<1> QED
  BY <1>1, <1>2

LEMMA ListingTypesAlways == ListingSpec => []ListingTypeOK
  BY ListingTypesHold, PTL DEF ListingSpec

-----------------------------------------------------------------------------
(* The optimistic listing at rest.                                         *)

\* Only a load caches pages: over them every helper throws, and nothing it
\* could go back to is one.
SnapshotsAreFlat ==
  \A o \in Op : ops[o].kind # "batch" /\ ops[o].phase \in {"sent", "ok", "failed"}
                => ops[o].snapshot.shape # "pages"

EventsAreOfOps == \A o \in objectEvents : ops[o].phase \in {"ok", "done"}

\* Of what a helper wrote over, the event or the roll-back is still to come.
FlatIsOwed ==
  cache.shape = "flat" /\ ~stale =>
    \E o \in Op : /\ ops[o].kind # "batch"
                  /\ ops[o].phase \in {"sent", "failed", "refused"} \/ o \in objectEvents

\* Without an event on its way, the pages that count as fresh and what a
\* request has read are what the bucket has.
ReadingsAreTrue ==
  objectEvents = {} /\ ~overtaken =>
    /\ cache.shape = "pages" /\ ~stale => cache.entries = server
    /\ fetch.phase = "read" => fetch.entries = server

ListingInv ==
  ListingTypeOK /\ SnapshotsAreFlat /\ EventsAreOfOps /\ FlatIsOwed /\ ReadingsAreTrue

LEMMA Shapes ==
  /\ Nothing.shape = "none" /\ \A e : Pages(e).shape = "pages" /\ Flat(e).shape = "flat"
  /\ \A e : Pages(e).entries = e
  /\ \A c \in Cached : c = Nothing \/ c.shape \in {"pages", "flat"}
<1>1. /\ Nothing.shape = "none" /\ \A e : Pages(e).shape = "pages" /\ Flat(e).shape = "flat"
      /\ \A e : Pages(e).entries = e
  BY DEF Nothing, Pages, Flat
<1>2. ASSUME NEW c \in Cached PROVE c = Nothing \/ c.shape \in {"pages", "flat"}
  BY <1>1, Zenon DEF Cached
<1> QED
  BY <1>1, <1>2

\* A helper writes a flat page, or nothing over nothing.
LEMMA HelpersWriteFlat ==
  ASSUME NEW old, NEW o, o.kind \in {"create", "delete", "rename"}
  PROVE  Optimistic(o, old).shape = "flat" \/ (old = Nothing /\ Optimistic(o, old) = Nothing)
<1>1. CASE o.kind = "create"
  <2>1. PICK key : Optimistic(o, old) = OptimisticCreateFolder(old, key)
    BY <1>1, Zenon DEF Optimistic
  <2> QED
    BY <2>1, Shapes DEF OptimisticCreateFolder
<1>2. CASE o.kind = "delete"
  <2>1. PICK key : Optimistic(o, old) = OptimisticDeleteSingle(old, key)
    BY <1>2, Zenon DEF Optimistic
  <2> QED
    BY <2>1, Shapes DEF OptimisticDeleteSingle
<1>3. CASE o.kind = "rename"
  <2>1. PICK key, dest : Optimistic(o, old) = OptimisticRenameSingle(old, key, dest)
    BY <1>3, Zenon DEF Optimistic
  <2> QED
    BY <2>1, Shapes DEF OptimisticRenameSingle
<1> QED
  BY <1>1, <1>2, <1>3

LEMMA RunKeeps ==
  ASSUME ListingInv, NEW o \in Op, NEW kind \in CommandKind, NEW from \in SUBSET Name,
         NEW to \in SUBSET Name, Run(o, kind, from, to)
  PROVE  ListingInv'
<1> DEFINE new == [kind |-> kind, from |-> from, to |-> to, phase |-> "sent",
                   snapshot |-> cache, sent |-> TRUE]
           throws == kind # "batch" /\ Throws(cache)
           entry == IF throws THEN [new EXCEPT !.phase = "done", !.sent = FALSE] ELSE new
           next == Optimistic(new, cache)
<1>1. /\ ops' = [ops EXCEPT ![o] = entry] /\ ops[o].phase = "idle"
      /\ fetch' = IF kind = "batch" THEN fetch ELSE Idle
      /\ cache' = IF throws THEN cache ELSE next
      /\ stale' = (stale /\ (throws \/ next = Nothing \/ kind = "batch"))
      /\ UNCHANGED <<server, objectEvents, overtaken>>
  BY DEF Run
<1>2. \/ kind = "batch" /\ next = cache
      \/ kind # "batch" /\ (next.shape = "flat" \/ (cache = Nothing /\ next = Nothing))
  <2>1. new.kind = kind
    OBVIOUS
  <2>2. kind \in {"create", "delete", "rename", "batch"}
    BY ListingAssumption DEF AllKinds
  <2>3. kind = "batch" => next = cache
    BY <2>1, Zenon DEF Optimistic
  <2> HIDE DEF new
  <2> QED
    BY <2>1, <2>2, <2>3, HelpersWriteFlat
<1>3. /\ throws => entry.phase = "done"
      /\ ~throws => entry.phase = "sent" /\ entry.kind = kind /\ entry.snapshot = cache
  <2>1. [new EXCEPT !.phase = "done", !.sent = FALSE].phase = "done"
    OBVIOUS
  <2>2. new.phase = "sent" /\ new.kind = kind /\ new.snapshot = cache
    OBVIOUS
  <2> HIDE DEF new, throws
  <2> QED
    BY <2>1, <2>2, Zenon
<1>4. throws <=> kind # "batch" /\ cache.shape = "pages"
  BY DEF Throws
<1>5. ListingTypeOK'
  BY RunTyped DEF ListingInv
<1>6. ops \in [Op -> OpRecord] /\ objectEvents \subseteq Op
  BY DEF ListingInv, ListingTypeOK, OpRecord, Phase
<1> HIDE DEF entry, next, throws, new
<1>7. ops'[o] = entry /\ \A p \in Op \ {o} : ops'[p] = ops[p]
  BY <1>1, <1>6
<1>8. SnapshotsAreFlat'
  BY <1>3, <1>4, <1>7 DEF ListingInv, SnapshotsAreFlat
<1>9. o \notin objectEvents
  BY <1>1 DEF ListingInv, EventsAreOfOps
<1>10. EventsAreOfOps'
  BY <1>1, <1>6, <1>7, <1>9 DEF ListingInv, EventsAreOfOps
<1>11. CASE cache' = cache /\ (stale' <=> stale)
  <2>1. FlatIsOwed'
    BY <1>1, <1>7, <1>9, <1>11 DEF ListingInv, FlatIsOwed
  <2>2. ReadingsAreTrue'
    BY <1>1, <1>11 DEF ListingInv, ReadingsAreTrue, Idle
  <2> QED
    BY <1>5, <1>8, <1>10, <2>1, <2>2 DEF ListingInv
<1>12. CASE ~throws /\ kind # "batch" /\ cache'.shape = "flat"
  <2>1. ops'[o].kind # "batch" /\ ops'[o].phase = "sent"
    BY <1>3, <1>7, <1>12
  <2>2. FlatIsOwed'
    BY <2>1 DEF FlatIsOwed
  <2>3. ReadingsAreTrue'
    BY <1>1, <1>12 DEF ListingInv, ReadingsAreTrue, Idle
  <2> QED
    BY <1>5, <1>8, <1>10, <2>2, <2>3 DEF ListingInv
<1>13. \/ cache' = cache /\ (stale' <=> stale)
       \/ ~throws /\ kind # "batch" /\ cache'.shape = "flat"
  <2>1. stale \in BOOLEAN
    BY DEF ListingInv, ListingTypeOK
  <2> QED
    BY <1>1, <1>2, <1>4, <2>1
<1> QED
  BY <1>11, <1>12, <1>13

\* However first loads, overlapping optimistic writes, refusals and their
\* roll-backs, refetches and events interleave: at rest the listing has the
\* entries the bucket has, but for what a refused command leaves and for a
\* first load that an event reached too late (query/optimistic.ts,
\* query/client.ts, commands/definitions/file.ts).
THEOREM QuietListingFollows == ListingSpec => []QuietListingIsTrue
<1>1. ListingInit => ListingInv
  <2> SUFFICES ASSUME ListingInit, ListingTypeOK PROVE ListingInv
    BY ListingTypesHold
  <2>1. cache = Nothing /\ fetch.phase = "idle" /\ objectEvents = {}
    BY DEF ListingInit, Idle
  <2>2. \A o \in Op : ops[o].phase = "idle"
    BY DEF ListingInit, NotRun
  <2> QED
    BY <2>1, <2>2, Shapes
    DEF ListingInv, SnapshotsAreFlat, EventsAreOfOps, FlatIsOwed, ReadingsAreTrue
<1>2. ListingInv /\ [ListingNext]_listingVars => ListingInv'
  <2> SUFFICES ASSUME ListingInv, [ListingNext]_listingVars PROVE ListingInv'
    OBVIOUS
  <2>0. ListingTypeOK'
    BY ListingTypesHold DEF ListingInv
  <2>1. CASE UNCHANGED listingVars
    BY <2>0, <2>1
    DEF listingVars, ListingInv, SnapshotsAreFlat, EventsAreOfOps, FlatIsOwed, ReadingsAreTrue
  <2>2. CASE Mount
    <3>1. cache = Nothing \/ stale
      BY <2>2 DEF Mount
    <3> QED
      BY <2>0, <2>2, <3>1, Shapes
      DEF Mount, ListingInv, SnapshotsAreFlat, EventsAreOfOps, FlatIsOwed, ReadingsAreTrue
  <2>3. CASE ListingRead
    BY <2>0, <2>3
    DEF ListingRead, ListingInv, SnapshotsAreFlat, EventsAreOfOps, FlatIsOwed, ReadingsAreTrue
  <2>4. CASE ListingArrives
    <3>1. /\ fetch.phase = "read" /\ cache' = Pages(fetch.entries) /\ ~stale'
          /\ fetch' = Idle /\ UNCHANGED <<server, ops, objectEvents, overtaken>>
      BY <2>4 DEF ListingArrives
    <3>2. cache'.shape = "pages" /\ cache'.entries = fetch.entries /\ fetch'.phase = "idle"
      BY <3>1, Shapes DEF Idle
    <3> QED
      BY <2>0, <3>1, <3>2
      DEF ListingInv, SnapshotsAreFlat, EventsAreOfOps, FlatIsOwed, ReadingsAreTrue
  <2>5. ASSUME NEW o \in Op, ObjectsUpdated(o) PROVE ListingInv'
    <3>1. stale' = TRUE /\ objectEvents' = objectEvents \ {o} /\ UNCHANGED <<server, cache, ops>>
      BY <2>5 DEF ObjectsUpdated
    <3>2. fetch'.phase = "read" => overtaken'
      <4>1. CASE fetch # Idle /\ cache = Nothing
        BY <2>5, <4>1, Zenon DEF ObjectsUpdated
      <4>2. CASE ~(fetch # Idle /\ cache = Nothing)
        BY <2>5, <4>2 DEF ObjectsUpdated
      <4> QED
        BY <4>1, <4>2
    <3> QED
      BY <2>0, <3>1, <3>2
      DEF ListingInv, SnapshotsAreFlat, EventsAreOfOps, FlatIsOwed, ReadingsAreTrue
  <2>6. ASSUME NEW o \in Op, ApiLands(o) PROVE ListingInv'
    <3>0. ops \in [Op -> OpRecord] /\ objectEvents \subseteq Op
      BY DEF ListingInv, ListingTypeOK, OpRecord, Phase
    <3>1. PICK phase \in {"ok", "failed"} :
            /\ ops' = [ops EXCEPT ![o].phase = phase]
            /\ objectEvents' = IF phase = "ok" THEN objectEvents \cup {o} ELSE objectEvents
            /\ phase = "failed" => server' = server
      BY <2>6 DEF ApiLands
    <3>2. ops[o].phase = "sent" /\ UNCHANGED <<cache, stale, fetch, overtaken>>
      BY <2>6 DEF ApiLands
    <3>3. /\ ops'[o].phase = phase /\ ops'[o].kind = ops[o].kind /\ ops'[o].snapshot = ops[o].snapshot
          /\ \A p \in Op \ {o} : ops'[p] = ops[p]
      BY <3>0, <3>1 DEF OpRecord
    <3>4. SnapshotsAreFlat'
      BY <3>2, <3>3 DEF ListingInv, SnapshotsAreFlat
    <3>5. EventsAreOfOps'
      BY <3>0, <3>1, <3>2, <3>3 DEF ListingInv, EventsAreOfOps
    <3>6. FlatIsOwed'
      <4> SUFFICES ASSUME cache'.shape = "flat", ~stale' PROVE FlatIsOwed'
        BY DEF FlatIsOwed
      <4>1. PICK p \in Op : /\ ops[p].kind # "batch"
                            /\ ops[p].phase \in {"sent", "failed", "refused"} \/ p \in objectEvents
        BY <3>2 DEF ListingInv, FlatIsOwed
      <4>2. ops'[p].kind # "batch"
        <5>1. p = o \/ p \in Op \ {o}
          OBVIOUS
        <5>2. CASE p = o
          BY <3>3, <4>1, <5>2
        <5>3. CASE p \in Op \ {o}
          BY <3>3, <4>1, <5>3
        <5> QED
          BY <5>1, <5>2, <5>3
      <4>3. ops'[p].phase \in {"sent", "failed", "refused"} \/ p \in objectEvents'
        BY <3>1, <3>3, <4>1
      <4> QED
        BY <4>2, <4>3 DEF FlatIsOwed
    <3>7. ReadingsAreTrue'
      BY <3>1, <3>2 DEF ListingInv, ReadingsAreTrue
    <3> QED
      BY <2>0, <3>4, <3>5, <3>6, <3>7 DEF ListingInv
  <2>7. ASSUME NEW o \in Op, ApiAnswers(o) PROVE ListingInv'
    <3> DEFINE phase == IF ops[o].phase = "ok" THEN "done" ELSE "refused"
               undo == ops[o].phase = "failed" /\ ops[o].kind # "batch" /\ ops[o].snapshot # Nothing
    <3>0. ops \in [Op -> OpRecord] /\ objectEvents \subseteq Op
      BY DEF ListingInv, ListingTypeOK, OpRecord, Phase
    <3>1. /\ ops' = [ops EXCEPT ![o].phase = phase] /\ UNCHANGED <<server, fetch, objectEvents, overtaken>>
          /\ ops[o].phase \in {"ok", "failed"}
          /\ IF undo THEN cache' = ops[o].snapshot /\ stale' = FALSE ELSE UNCHANGED <<cache, stale>>
      BY <2>7 DEF ApiAnswers
    <3>2. /\ ops'[o].phase = phase /\ ops'[o].kind = ops[o].kind
          /\ \A p \in Op \ {o} : ops'[p] = ops[p]
      BY <3>0, <3>1 DEF OpRecord
    <3>3. SnapshotsAreFlat' /\ EventsAreOfOps'
      BY <3>0, <3>1, <3>2 DEF ListingInv, SnapshotsAreFlat, EventsAreOfOps
    <3>4. CASE undo
      <4>1. cache' = ops[o].snapshot /\ stale' = FALSE
        BY <3>1, <3>4
      <4>2. cache'.shape # "pages"
        BY <3>4, <4>1 DEF ListingInv, SnapshotsAreFlat
      <4>3. ops'[o].kind # "batch" /\ ops'[o].phase = "refused"
        BY <3>2, <3>4
      <4>4. FlatIsOwed'
        BY <4>3 DEF FlatIsOwed
      <4>5. ReadingsAreTrue'
        BY <3>1, <4>2 DEF ListingInv, ReadingsAreTrue
      <4> QED
        BY <2>0, <3>3, <4>4, <4>5 DEF ListingInv
    <3>5. CASE ~undo
      <4>1. UNCHANGED <<cache, stale>>
        BY <3>1, <3>5
      <4>2. FlatIsOwed'
        <5> SUFFICES ASSUME cache'.shape = "flat", ~stale' PROVE FlatIsOwed'
          BY DEF FlatIsOwed
        <5>1. PICK p \in Op : /\ ops[p].kind # "batch"
                              /\ ops[p].phase \in {"sent", "failed", "refused"} \/ p \in objectEvents
          BY <4>1 DEF ListingInv, FlatIsOwed
        <5>2. ops'[p].kind # "batch"
          <6>1. p = o \/ p \in Op \ {o}
            OBVIOUS
          <6>2. CASE p = o
            BY <3>2, <5>1, <6>2
          <6>3. CASE p \in Op \ {o}
            BY <3>2, <5>1, <6>3
          <6> QED
            BY <6>1, <6>2, <6>3
        <5>3. ops'[p].phase \in {"sent", "failed", "refused"} \/ p \in objectEvents'
          BY <3>1, <3>2, <5>1
        <5> QED
          BY <5>2, <5>3 DEF FlatIsOwed
      <4>3. ReadingsAreTrue'
        BY <3>1, <4>1 DEF ListingInv, ReadingsAreTrue
      <4> QED
        BY <2>0, <3>3, <4>2, <4>3 DEF ListingInv
    <3> QED
      BY <3>4, <3>5
  <2> QED
    BY <2>1, <2>2, <2>3, <2>4, <2>5, <2>6, <2>7, RunKeeps DEF ListingNext
<1>3. ListingInv => QuietListingIsTrue
  <2> SUFFICES ASSUME ListingInv, \A o \in Op : ops[o].phase \in {"idle", "done", "refused"},
                      objectEvents = {}, ~stale, cache # Nothing
               PROVE  \/ cache.entries = server
                      \/ cache.shape = "flat" /\ \E o \in Op : ops[o].phase = "refused" /\ ops[o].kind # "batch"
                      \/ cache.shape = "pages" /\ overtaken
    BY DEF QuietListingIsTrue
  <2>1. cache.shape \in {"pages", "flat"}
    BY Shapes DEF ListingInv, ListingTypeOK
  <2>2. CASE cache.shape = "pages"
    BY <2>2 DEF ListingInv, ReadingsAreTrue
  <2>3. CASE cache.shape = "flat"
    <3>1. PICK o \in Op : /\ ops[o].kind # "batch"
                          /\ ops[o].phase \in {"sent", "failed", "refused"} \/ o \in objectEvents
      BY <2>3 DEF ListingInv, FlatIsOwed
    <3> QED
      BY <2>3, <3>1
  <2> QED
    BY <2>1, <2>2, <2>3
<1> QED
  BY <1>1, <1>2, <1>3, PTL DEF ListingSpec

-----------------------------------------------------------------------------
(* The types of the panes and their views.                                 *)

Pane == [place : Place \cup {BucketList}, mode : ViewMode, sel : SUBSET Entry,
         filtered : BOOLEAN]

PanesFit(ps) == DOMAIN ps \in {{"main"}, PaneId} /\ \A p \in DOMAIN ps : ps[p] \in Pane

LEMMA PaneFieldsFit ==
  ASSUME NEW ps, PanesFit(ps), NEW p \in DOMAIN ps
  PROVE  /\ \A place \in Place \cup {BucketList} : PanesFit([ps EXCEPT ![p].place = place])
         /\ \A mode \in ViewMode : PanesFit([ps EXCEPT ![p].mode = mode])
         /\ \A sel \in SUBSET Entry : PanesFit([ps EXCEPT ![p].sel = sel])
         /\ \A b \in BOOLEAN : PanesFit([ps EXCEPT ![p].filtered = b])
<1> USE DEF PanesFit
<1>1. \A q \in DOMAIN ps : ps[q] \in Pane
  OBVIOUS
<1>2. ASSUME NEW place \in Place \cup {BucketList} PROVE PanesFit([ps EXCEPT ![p].place = place])
  BY <1>1 DEF Pane
<1>3. ASSUME NEW mode \in ViewMode PROVE PanesFit([ps EXCEPT ![p].mode = mode])
  BY <1>1 DEF Pane
<1>4. ASSUME NEW sel \in SUBSET Entry PROVE PanesFit([ps EXCEPT ![p].sel = sel])
  BY <1>1 DEF Pane
<1>5. ASSUME NEW b \in BOOLEAN PROVE PanesFit([ps EXCEPT ![p].filtered = b])
  BY <1>1 DEF Pane
<1> QED
  BY <1>2, <1>3, <1>4, <1>5

\* Going to a place.
LEMMA LocationFits ==
  ASSUME PanesFit(panes), NEW p \in DOMAIN panes, NEW place \in Place \cup {BucketList}
  PROVE  PanesFit(setLocation(p, place)) /\ DOMAIN setLocation(p, place) = DOMAIN panes
<1>1. PICK b \in BOOLEAN : b = FALSE
  OBVIOUS
<1> DEFINE one == [panes EXCEPT ![p].place = place]
           two == [one EXCEPT ![p].sel = {}]
<1>2. PanesFit(one) /\ p \in DOMAIN one
  BY PaneFieldsFit
<1> HIDE DEF one
<1>3. PanesFit(two) /\ p \in DOMAIN two
  BY <1>2, PaneFieldsFit
<1> HIDE DEF two
<1>4. PanesFit([two EXCEPT ![p].filtered = b])
  BY <1>3, PaneFieldsFit
<1> USE DEF one, two
<1>5. setLocation(p, place) = [two EXCEPT ![p].filtered = b]
  BY <1>1, Zenon DEF setLocation
<1>6. DOMAIN setLocation(p, place) = DOMAIN panes
  BY DEF setLocation
<1> QED
  BY <1>4, <1>5, <1>6, Zenon

LEMMA SplitFits ==
  ASSUME NEW ps, PanesFit(ps), NEW act \in DOMAIN ps
  PROVE  PanesFit(splitPane(ps, act)) /\ act \in DOMAIN splitPane(ps, act)
<1>1. PICK b \in BOOLEAN : b = FALSE
  OBVIOUS
<1>2. [ps[act] EXCEPT !.sel = {}, !.filtered = b] \in Pane
  <2>1. ps[act] \in Pane
    BY DEF PanesFit
  <2> DEFINE one == [ps[act] EXCEPT !.sel = {}]
  <2>2. one \in Pane
    BY <2>1 DEF Pane
  <2> HIDE DEF one
  <2>3. [one EXCEPT !.filtered = b] \in Pane
    BY <2>2 DEF Pane
  <2> USE DEF one
  <2>4. [ps[act] EXCEPT !.sel = {}, !.filtered = b] = [one EXCEPT !.filtered = b]
    BY Zenon
  <2> QED
    BY <2>3, <2>4, Zenon
<1>3. splitPane(ps, act) = [p \in PaneId |-> IF p \in DOMAIN ps THEN ps[p]
                             ELSE [ps[act] EXCEPT !.sel = {}, !.filtered = b]]
  BY <1>1, Zenon DEF splitPane
<1> QED
  BY <1>2, <1>3 DEF PanesFit, PaneId

\* What is mounted is one view, or two in the order of the tree.
LEMMA MountedViews ==
  ASSUME NEW screen
  PROVE  LET mounted == ViewModeDispatcher(screen)
         IN  /\ DOMAIN mounted \subseteq {1, 2}
             /\ \A i \in DOMAIN mounted : mounted[i] \in ViewId
             /\ ToSet(mounted) \subseteq ViewId
             /\ ToSet(mounted) # {} => screen \in ViewMode
<1>1. ViewModeDispatcher(screen) \in {<<"solo">>, <<"main", "second">>, <<>>}
  BY DEF ViewModeDispatcher, ListMode
<1>2. ViewModeDispatcher(screen) # <<>> => screen \in ViewMode
  BY DEF ViewModeDispatcher, ListMode, ViewMode
<1>3. ToSet(<<>>) = {}
  BY DEF ToSet
<1> QED
  BY <1>1, <1>2, <1>3 DEF ToSet, ViewId, PaneId

\* An effect writes the selection of a view.
LEMMA EffectsFit ==
  ASSUME NEW ps, PanesFit(ps), NEW act \in DOMAIN ps, NEW vs \in [ViewId -> View],
         NEW screen, NEW firing
  PROVE  LET after == SyncEffect(ps, act, vs, ViewModeDispatcher(screen), firing)
         IN  PanesFit(after) /\ DOMAIN after = DOMAIN ps
<1> DEFINE mounted == ViewModeDispatcher(screen)
           writers == {i \in DOMAIN mounted : mounted[i] \in firing}
           written == vs[mounted[Max(writers)]].sel
<1>1. writers \subseteq {1, 2} /\ \A i \in DOMAIN mounted : mounted[i] \in ViewId
  BY MountedViews
<1>2. CASE writers = {}
  BY <1>2, EffectsWriteToOne DEF SyncEffect
<1>3. CASE writers # {}
  <2>1. \E x \in writers : \A y \in writers : x >= y
    <3> HIDE DEF writers
    <3>1. CASE 2 \in writers
      BY <1>1, <3>1
    <3>2. CASE 2 \notin writers
      <4>1. writers = {1}
        BY <1>1, <1>3, <3>2
      <4> QED
        BY <4>1
    <3> QED
      BY <3>1, <3>2
  <2>2. Max(writers) \in writers
    <3> HIDE DEF writers
    <3> QED
      BY <2>1 DEF Max
  <2>3. mounted[Max(writers)] \in ViewId
    BY <1>1, <2>2
  <2> HIDE DEF mounted, writers
  <2>4. written \in SUBSET Entry
    BY <2>3 DEF View
  <2> USE DEF mounted, writers
  <2>5. SyncEffect(ps, act, vs, mounted, firing) = [ps EXCEPT ![act].sel = written]
    BY <1>3, Zenon DEF SyncEffect
  <2> HIDE DEF mounted, writers, written
  <2>6. PanesFit([ps EXCEPT ![act].sel = written])
    BY <2>4, PaneFieldsFit
  <2> QED
    BY <2>5, <2>6 DEF mounted
<1> QED
  BY <1>2, <1>3

LEMMA FreshFits == FreshView \in View
BY DEF FreshView, View, Row, SortState

\* A step of the panes leaves them typed.
LEMMA SettleFits ==
  ASSUME PaneTypeOK, NEW ps, PanesFit(ps), NEW act \in DOMAIN ps,
         NEW vs \in [ViewId -> View], NEW gone \in BOOLEAN, NEW touched,
         Settle(ps, act, vs, gone, touched)
  PROVE  PaneTypeOK'
<1>1. PICK split, screen, now, firing :
        /\ split \in {splitPane(ps, act), ps}
        /\ now \in {[v \in ViewId |-> FreshView], vs}
        /\ panes' = SyncEffect(split, act, now, ViewModeDispatcher(screen), firing)
        /\ views' = now
  BY DEF Settle
<1>2. active' = act /\ away' = gone /\ events < MaxEvents /\ events' = events + 1
  BY DEF Settle
<1>3. PanesFit(split) /\ act \in DOMAIN split
  BY <1>1, SplitFits
<1>4. now \in [ViewId -> View]
  BY <1>1, FreshFits
<1>5. PanesFit(panes') /\ active' \in DOMAIN panes'
  BY <1>1, <1>2, <1>3, <1>4, EffectsFit
<1>6. events' \in 0 .. MaxEvents
  BY <1>2, PaneAssumption DEF PaneTypeOK
<1> QED
  BY <1>1, <1>2, <1>4, <1>5, <1>6 DEF PaneTypeOK, PanesFit, Pane

\* What a mounted view shows are entries, and no more than there are.
LEMMA ShownFits ==
  ASSUME PaneTypeOK, NEW v \in Mounted
  PROVE  /\ Len(Shown(v)) \in 0 .. Cardinality(Entry)
         /\ DOMAIN Shown(v) = 1 .. Len(Shown(v))
         /\ \A i \in DOMAIN Shown(v) : Shown(v)[i] \in Entry
<1> DEFINE Fits(seq) == \E S \in SUBSET Entry : seq \in [1 .. Cardinality(S) -> S]
<1>1. ASSUME NEW S \in SUBSET Entry PROVE Cardinality(S) \in Nat /\ Cardinality(S) <= Cardinality(Entry)
  BY FS_Subset, FS_CardinalityType, ListingsAssumption
<1>2. ASSUME NEW S \in SUBSET Entry PROVE Fits(Listed(S))
  BY ListedIsAListing
<1>3. ASSUME NEW seq, Fits(seq)
      PROVE  /\ Len(seq) \in 0 .. Cardinality(Entry) /\ DOMAIN seq = 1 .. Len(seq)
             /\ \A i \in DOMAIN seq : seq[i] \in Entry
  <2>1. PICK S \in SUBSET Entry : seq \in [1 .. Cardinality(S) -> S]
    BY <1>3
  <2>2. Cardinality(S) \in Nat /\ Cardinality(S) <= Cardinality(Entry)
    BY <1>1
  <2>3. Cardinality(Entry) \in Nat
    BY <1>1
  <2>4. Len(seq) = Cardinality(S)
    BY <2>1, <2>2, LenProperties, IsASeq
  <2> QED
    BY <2>1, <2>2, <2>3, <2>4
<1>4. ASSUME NEW seq, Fits(seq), NEW sort PROVE Fits(sortEntries(seq, sort))
  <2>1. PICK S \in SUBSET Entry : seq \in [1 .. Cardinality(S) -> S]
    BY <1>4
  <2>2. Cardinality(S) \in Nat
    BY <1>1
  <2>3. Len(seq) = Cardinality(S)
    BY <1>3, <1>4, <2>1, <2>2
  <2>4. Reverse(seq) = [i \in 1 .. Cardinality(S) |-> seq[Cardinality(S) - i + 1]]
    BY <2>3 DEF Reverse
  <2>5. Reverse(seq) \in [1 .. Cardinality(S) -> S]
    BY <2>1, <2>2, <2>4
  <2> QED
    BY <1>4, <2>5 DEF sortEntries
<1>5. \A place : Contents(place) \in SUBSET Entry /\ useFlatObjects(place) \in SUBSET Entry
  BY DEF Contents, useFlatObjects, Entry
<1>6. \A S \in SUBSET Entry : useFilteredEntries(S) \in SUBSET Entry
  BY DEF useFilteredEntries
<1> HIDE DEF Fits
<1>7. Fits(DetailsView(v)) /\ Fits(IconGridView) /\ Fits(GalleryView) /\ Fits(FlatKeyView)
  BY <1>2, <1>4, <1>5, <1>6 DEF DetailsView, IconGridView, GalleryView, FlatKeyView
<1>8. Screen \in ViewMode
  BY MountedViews DEF Mounted
<1>9. Fits(Shown(v))
  <2>1. CASE Screen \in {"Details", "DualPane"}
    BY <1>7, <2>1 DEF Shown
  <2>2. CASE Screen = "IconGrid"
    BY <1>7, <2>2 DEF Shown
  <2>3. CASE Screen = "Gallery"
    BY <1>7, <2>3 DEF Shown
  <2>4. CASE Screen = "FlatKey"
    BY <1>7, <2>4 DEF Shown
  <2> QED
    BY <1>8, <2>1, <2>2, <2>3, <2>4 DEF ViewMode, ListMode
<1> QED
  BY <1>3, <1>9

\* A view with a new selection or a new cursor.
LEMMA TouchFits ==
  ASSUME PaneTypeOK, NEW v \in ViewId, NEW view \in View, Touch(v, view) \/ Move(v, view)
  PROVE  PaneTypeOK'
<1>1. [views EXCEPT ![v] = view] \in [ViewId -> View]
  BY DEF PaneTypeOK
<1>2. PanesFit(panes) /\ active \in DOMAIN panes /\ away \in BOOLEAN
  BY DEF PaneTypeOK, PanesFit, Pane
<1>3. PICK touched : Settle(panes, active, [views EXCEPT ![v] = view], away, touched)
  BY DEF Touch, Move
<1> QED
  BY <1>1, <1>2, <1>3, SettleFits

LEMMA ViewEventFits ==
  ASSUME PaneTypeOK, NEW v \in Mounted, ViewEvent(v)
  PROVE  PaneTypeOK'
<1>1. v \in ViewId /\ Screen \in ViewMode
  BY MountedViews DEF Mounted
<1>2. /\ views[v] \in View /\ Cardinality(Entry) \in Nat
      /\ PanesFit(panes) /\ active \in DOMAIN panes /\ away \in BOOLEAN
      /\ views \in [ViewId -> View]
  BY <1>1, FS_CardinalityType, ListingsAssumption DEF PaneTypeOK, PanesFit, Pane
<1>3. /\ Len(Shown(v)) \in 0 .. Cardinality(Entry)
      /\ Indexes(v) = 1 .. Len(Shown(v))
      /\ \A i \in Indexes(v) : Shown(v)[i] \in Entry /\ i \in Row
  BY <1>2, ShownFits DEF Indexes, Row
<1>4. ASSUME NEW i \in Indexes(v), RowContextMenu(v, i) PROVE PaneTypeOK'
  <2>1. [views[v] EXCEPT !.sel = {Shown(v)[i]}, !.anchor = i, !.cursor = i] \in View
    BY <1>2, <1>3 DEF View
  <2> QED
    BY <1>1, <1>4, <2>1, TouchFits DEF RowContextMenu
<1>5. ASSUME NEW i \in Indexes(v), handleOpen(v, i) PROVE PaneTypeOK'
  <2>1. PICK ps : /\ Settle(ps, active, views, away, {})
                  /\ ps = IF Shown(v)[i] \in Folder THEN setLocation(active, Shown(v)[i])
                          ELSE [panes EXCEPT ![active].sel = {Shown(v)[i]}]
    BY <1>5 DEF handleOpen
  <2>2. CASE Shown(v)[i] \in Folder
    BY <1>2, <2>1, <2>2, LocationFits, SettleFits DEF Place
  <2>3. CASE Shown(v)[i] \notin Folder
    <3>1. PanesFit(ps)
      BY <1>2, <1>3, <2>1, <2>3, PaneFieldsFit
    <3>2. active \in DOMAIN ps
      BY <1>2, <2>1, <2>3
    <3> QED
      BY <1>2, <2>1, <3>1, <3>2, SettleFits
  <2> QED
    BY <2>2, <2>3
<1>6. ASSUME NEW i \in Indexes(v), NEW key \in {"none", "shift", "meta"}, RowClick(v, i, key)
      PROVE  PaneTypeOK'
  <2>1. RowRange(v, i) \in SUBSET Entry /\ Toggle(views[v].sel, Shown(v)[i]) \in SUBSET Entry
    BY <1>2, <1>3 DEF RowRange, Toggle, View
  <2>2. /\ [views[v] EXCEPT !.sel = RowRange(v, i), !.cursor = i] \in View
        /\ [views[v] EXCEPT !.sel = Toggle(@, Shown(v)[i]), !.cursor = i] \in View
        /\ [views[v] EXCEPT !.sel = {Shown(v)[i]}, !.anchor = i, !.cursor = i] \in View
    BY <1>2, <1>3, <2>1 DEF View
  <2>3. CASE key = "shift"
    BY <1>1, <1>6, <2>2, <2>3, TouchFits DEF RowClick
  <2>4. CASE key = "meta"
    BY <1>1, <1>6, <2>2, <2>4, TouchFits DEF RowClick
  <2>5. CASE key = "none"
    BY <1>1, <1>6, <2>2, <2>5, TouchFits DEF RowClick
  <2> QED
    BY <2>3, <2>4, <2>5
<1>7. CASE Indexes(v) # {} /\ SelectAll(v)
  <2>1. ToSet(Shown(v)) \in SUBSET Entry
    BY <1>3 DEF ToSet, Indexes
  <2>2. [views[v] EXCEPT !.sel = ToSet(Shown(v))] \in View
    BY <1>2, <2>1 DEF View
  <2> QED
    BY <1>1, <1>7, <2>2, TouchFits DEF SelectAll
<1>8. CASE Indexes(v) # {} /\ ColHeader(v)
  <2>1. nextSort(views[v].sort) \in SortState
    BY <1>2 DEF nextSort, SortState, View
  <2>2. [views[v] EXCEPT !.sort = nextSort(@)] \in View
    BY <1>2, <2>1 DEF View
  <2> QED
    BY <1>1, <1>8, <2>2, TouchFits DEF ColHeader
<1>9. CASE Indexes(v) # {} /\ handleNavigateUp
  <2>1. Screen = panes[active].mode /\ panes[active].place # BucketList
    BY <1>9 DEF handleNavigateUp, Screen, MainPaneContent, ListMode
  <2>2. PICK place : /\ place = IF panes[active].place = Root THEN Root
                                ELSE Within[panes[active].place]
                     /\ Settle(setLocation(active, place), active, views, away, {})
    BY <1>9 DEF handleNavigateUp
  <2>3. panes[active].place \in Place
    BY <1>2, <2>1 DEF PanesFit, Pane
  <2>4. place \in Place
    BY <2>2, <2>3, ListingsAssumption DEF Place, Entry
  <2> QED
    BY <1>2, <2>2, <2>4, LocationFits, SettleFits
<1>10. ASSUME Indexes(v) # {}, NEW by \in ArrowSteps, ArrowKey(v, by) PROVE PaneTypeOK'
  <2>1. by \in Int
    BY PaneAssumption DEF ArrowSteps
  <2>2. PICK to : /\ Move(v, [views[v] EXCEPT !.cursor = to])
                  /\ to \in {Len(Shown(v)), 1}
                       \/ (to = views[v].cursor + by /\ by > 0 /\ to < Len(Shown(v)))
                       \/ (to = views[v].cursor + by /\ ~(by > 0) /\ to > 1)
    BY <1>10 DEF ArrowKey
  <2>3. Len(Shown(v)) \in Row /\ 1 \in Row
    BY <1>3, <1>10 DEF Row
  <2>4. views[v].cursor \in Nat /\ views[v].cursor >= 1
       /\ (views[v].cursor = 1 \/ views[v].cursor <= Cardinality(Entry))
    BY <1>2 DEF View, Row
  <2> DEFINE cursor == views[v].cursor
             n == Len(Shown(v))
             most == Cardinality(Entry)
  <2> HIDE DEF cursor, n, most
  <2>5. to \in Row
    <3>1. CASE to \in {n, 1}
      BY <2>3, <3>1 DEF n
    <3>2. CASE to = cursor + by /\ by > 0 /\ to < n
      <4>1. n \in 0 .. most /\ most \in Nat /\ cursor \in Nat /\ cursor >= 1
        BY <1>2, <1>3, <2>4 DEF n, most, cursor
      <4>2. to \in 1 .. most
        BY <2>1, <3>2, <4>1
      <4> QED
        BY <4>2 DEF Row, most
    <3>3. CASE to = cursor + by /\ ~(by > 0) /\ to > 1
      <4>1. most \in Nat /\ cursor \in Nat /\ (cursor = 1 \/ cursor <= most)
        BY <1>2, <2>4 DEF most, cursor
      <4>2. to \in 1 .. most
        BY <2>1, <3>3, <4>1
      <4> QED
        BY <4>2 DEF Row, most
    <3> QED
      BY <2>2, <3>1, <3>2, <3>3 DEF cursor, n
  <2>6. [views[v] EXCEPT !.cursor = to] \in View
    BY <1>2, <2>5 DEF View
  <2> QED
    BY <1>1, <2>2, <2>6, TouchFits
<1> QED
  BY <1>4, <1>5, <1>6, <1>7, <1>8, <1>9, <1>10 DEF ViewEvent

LEMMA PaneTypesAlways == PaneSpec => []PaneTypeOK
<1>1. PaneInit => PaneTypeOK
  <2> SUFFICES ASSUME PaneInit PROVE PaneTypeOK
    OBVIOUS
  <2>1. PICK place \in Place \cup {BucketList}, mode \in ViewMode, b \in BOOLEAN :
          /\ b = FALSE
          /\ panes = [p \in {"main"} |-> [place |-> place, mode |-> mode, sel |-> {}, filtered |-> b]]
    BY Zenon DEF PaneInit, INITIAL_PANE
  <2>2. PanesFit(panes) /\ DOMAIN panes = {"main"}
    BY <2>1 DEF PanesFit, Pane
  <2>3. events \in 0 .. MaxEvents /\ away \in BOOLEAN /\ active \in DOMAIN panes
    <3>1. events = 0 /\ active = "main" /\ away = FALSE
      BY Zenon DEF PaneInit
    <3>2. away \in BOOLEAN
      BY <3>1, Zenon
    <3> QED
      BY <2>2, <3>1, <3>2, PaneAssumption
  <2>4. views \in [ViewId -> View]
    BY FreshFits DEF PaneInit
  <2> QED
    BY <2>2, <2>3, <2>4 DEF PaneTypeOK, PanesFit, Pane
<1>2. PaneTypeOK /\ [PaneNext]_paneVars => PaneTypeOK'
  <2> SUFFICES ASSUME PaneTypeOK, [PaneNext]_paneVars PROVE PaneTypeOK'
    OBVIOUS
  <2>0. PanesFit(panes) /\ active \in DOMAIN panes /\ away \in BOOLEAN /\ views \in [ViewId -> View]
    BY DEF PaneTypeOK, PanesFit, Pane
  <2>1. CASE UNCHANGED paneVars
    BY <2>1 DEF paneVars, PaneTypeOK
  <2>2. ASSUME NEW v \in Mounted, ViewEvent(v) PROVE PaneTypeOK'
    BY <2>2, ViewEventFits
  <2>3. CASE setFilter
    <3>1. PICK b \in BOOLEAN : b = ~panes[active].filtered
      OBVIOUS
    <3>2. [panes EXCEPT ![active].filtered = ~@] = [panes EXCEPT ![active].filtered = b]
      BY <3>1, Zenon
    <3>3. Settle([panes EXCEPT ![active].filtered = b], active, views, away, {})
      BY <2>3, <3>2, Zenon DEF setFilter
    <3>4. PanesFit([panes EXCEPT ![active].filtered = b])
      BY <2>0, PaneFieldsFit
    <3> QED
      BY <2>0, <3>3, <3>4, SettleFits
  <2>4. ASSUME NEW place \in Place \cup {BucketList}, Navigate(place) PROVE PaneTypeOK'
    BY <2>0, <2>4, LocationFits, SettleFits DEF Navigate
  <2>5. ASSUME NEW f \in File, OpenBookmark(f) PROVE PaneTypeOK'
    <3>1. Within[f] \in Place /\ {f} \in SUBSET Entry
      BY ListingsAssumption DEF Entry
    <3>2. PanesFit(setLocation(active, Within[f])) /\ active \in DOMAIN setLocation(active, Within[f])
      BY <2>0, <3>1, LocationFits
    <3>3. PanesFit([setLocation(active, Within[f]) EXCEPT ![active].sel = {f}])
      BY <3>1, <3>2, PaneFieldsFit
    <3>4. active \in DOMAIN [setLocation(active, Within[f]) EXCEPT ![active].sel = {f}]
      BY <3>2
    <3> QED
      BY <2>0, <2>5, <3>3, <3>4, SettleFits DEF OpenBookmark
  <2>6. ASSUME NEW mode \in ViewMode, setViewMode(mode) PROVE PaneTypeOK'
    <3>1. PanesFit([panes EXCEPT ![active].mode = mode])
      BY <2>0, PaneFieldsFit
    <3> QED
      BY <2>0, <2>6, <3>1, SettleFits DEF setViewMode
  <2>7. ASSUME NEW p \in DOMAIN panes, setActivePane(p) PROVE PaneTypeOK'
    BY <2>0, <2>7, SettleFits DEF setActivePane
  <2>8. CASE ToggleDestination
    <3>1. PICK b \in BOOLEAN : b = ~away
      OBVIOUS
    <3>2. Settle(panes, active, views, b, {})
      BY <2>8, <3>1, Zenon DEF ToggleDestination
    <3> QED
      BY <2>0, <3>2, SettleFits
  <2> QED
    BY <2>1, <2>2, <2>3, <2>4, <2>5, <2>6, <2>7, <2>8 DEF PaneNext
<1> QED
  BY <1>1, <1>2, PTL DEF PaneSpec

-----------------------------------------------------------------------------
(* The types of the filter.                                                *)

\* The requests are numbered, and there are only so many.
FilterTyped ==
  /\ FilterInv /\ requestIdRef <= MaxRenders
  /\ entries \in Listing /\ typed \in FilterText \cup {NoFilter} /\ workerResult \in Filtered

LEMMA FilterTypesAlways == FilterSpec => []FilterTypeOK
<1>1. FilterInit => FilterTyped
  BY FilterFits, FilterAssumption DEF FilterInit, FilterTyped, Filtered, fuzzyFilter
<1>2. FilterTyped /\ [FilterNext]_filterVars => FilterTyped'
  <2> SUFFICES ASSUME FilterTyped, [FilterNext]_filterVars PROVE FilterTyped'
    OBVIOUS
  <2>0. FilterInv'
    BY FilterFits DEF FilterTyped
  <2>1. CASE UNCHANGED filterVars
    BY <2>0, <2>1 DEF filterVars, FilterTyped
  <2>2. ASSUME NEW l \in Listing, NEW text \in FilterText \cup {NoFilter}, useFilteredResult(l, text)
        PROVE  FilterTyped'
    <3>1. requestIdRef \in Nat /\ MaxRenders \in Nat
      BY FilterAssumption DEF FilterTyped, FilterInv
    <3>2. requestIdRef' <= MaxRenders
      BY <2>2, <3>1 DEF useFilteredResult
    <3>3. workerResult' \in Filtered
      BY <2>2 DEF useFilteredResult, FilterTyped, Filtered, fuzzyFilter
    <3> QED
      BY <2>0, <2>2, <3>2, <3>3 DEF useFilteredResult, FilterTyped
  <2>3. CASE TimerFires
    BY <2>0, <2>3 DEF TimerFires, FilterTyped
  <2>4. CASE runFuzzyFilter
    <3>1. Head(worker) \in AnyRequest
      BY <2>4, QueueTail DEF runFuzzyFilter, FilterTyped, FilterInv
    <3>2. workerResult' \in Filtered
      BY <2>4, <3>1 DEF runFuzzyFilter, FilterTyped, Filtered, fuzzyFilter, AnyRequest
    <3> QED
      BY <2>0, <2>4, <3>2 DEF runFuzzyFilter, FilterTyped
  <2> QED
    BY <2>1, <2>2, <2>3, <2>4 DEF FilterNext
<1>3. FilterTyped => FilterTypeOK
  <2> SUFFICES ASSUME FilterTyped PROVE FilterTypeOK
    OBVIOUS
  <2>1. requestIdRef \in 0 .. MaxRenders /\ MaxRenders \in Nat
    BY FilterAssumption DEF FilterTyped, FilterInv
  <2>2. ASSUME NEW r \in AnyRequest, r.requestId <= requestIdRef PROVE r \in FilterRequest
    <3>1. r.requestId \in 1 .. MaxRenders
      BY <2>1, <2>2 DEF AnyRequest
    <3> QED
      BY <3>1 DEF AnyRequest, FilterRequest
  <2>3. timer \in FilterRequest \cup {NoTimer}
    BY <2>1, <2>2 DEF FilterTyped, FilterInv
  <2>4. worker \in Seq(FilterRequest)
    <3>1. worker \in Seq(AnyRequest) /\ \A i \in 1 .. Len(worker) : worker[i].requestId <= requestIdRef
      BY DEF FilterTyped, FilterInv
    <3>2. \A i \in 1 .. Len(worker) : worker[i] \in FilterRequest
      BY <2>2, <3>1, ElementOfSeq
    <3> QED
      BY <3>1, <3>2, IsASeq, LenProperties
  <2> QED
    BY <2>1, <2>3, <2>4 DEF FilterTyped, FilterTypeOK
<1> QED
  BY <1>1, <1>2, <1>3, PTL DEF FilterSpec

-----------------------------------------------------------------------------
(* The types of the navigation history.                                    *)

NavigationTyped ==
  HistoryFits /\ DOMAIN whereIs \in {{"main"}, Panes} /\ visits \in 0 .. MaxVisits

LEMMA NavigationTypesAlways == NavigationSpec => []NavigationTypeOK
<1>1. NavigationInit => NavigationTyped
  BY HistoryFitsInit, NavigationAssumption DEF NavigationInit, NavigationTyped
<1>2. NavigationTyped /\ [NavigationNext]_navigationVars => NavigationTyped'
  <2> SUFFICES ASSUME NavigationTyped, [NavigationNext]_navigationVars PROVE NavigationTyped'
    OBVIOUS
  <2>0. HistoryFits' /\ MaxVisits \in Nat
    BY HistoryFitsStep, NavigationAssumption DEF NavigationTyped
  <2>1. ASSUME visits < MaxVisits, visits' = visits + 1, DOMAIN whereIs' = DOMAIN whereIs
        PROVE  NavigationTyped'
    BY <2>0, <2>1 DEF NavigationTyped
  <2>2. ASSUME visits' = visits, DOMAIN whereIs' \in {DOMAIN whereIs, Panes}
        PROVE  NavigationTyped'
    BY <2>0, <2>2 DEF NavigationTyped
  <2>3. ASSUME NEW l, GoTo(l) PROVE NavigationTyped'
    BY <2>1, <2>3 DEF GoTo
  <2>4. CASE back
    BY <2>1, <2>4 DEF back
  <2>5. CASE forward
    BY <2>1, <2>5 DEF forward
  <2>6. CASE SplitPane
    BY <2>2, <2>6 DEF SplitPane
  <2>7. CASE OtherChange
    BY <2>2, <2>7 DEF OtherChange
  <2>8. CASE UNCHANGED navigationVars
    BY <2>2, <2>8 DEF navigationVars
  <2>9. NavUp \/ ParentPrefix \/ ProfileRow => \E l : GoTo(l)
    BY DEF NavUp, ParentPrefix, ProfileRow
  <2>10. ASSUME NEW p, OpenFolder(p) PROVE \E l : GoTo(l)
    BY <2>10 DEF OpenFolder
  <2>11. ASSUME NEW b, BucketListView(b) PROVE \E l : GoTo(l)
    BY <2>11 DEF BucketListView
  <2>12. ASSUME NEW l, Breadcrumb(l) \/ parsePath(l) \/ Bookmark(l) PROVE GoTo(l)
    BY <2>12 DEF Breadcrumb, parsePath, Bookmark
  <2> QED
    BY <2>3, <2>4, <2>5, <2>6, <2>7, <2>8, <2>9, <2>10, <2>11, <2>12 DEF NavigationNext
<1>3. NavigationTyped => NavigationTypeOK
  <2> SUFFICES ASSUME NavigationTyped PROVE NavigationTypeOK
    OBVIOUS
  <2>1. ASSUME NEW p \in Panes
        PROVE  /\ histories[p].last \in Location \cup {NoLocation}
               /\ ToSet(histories[p].back \o histories[p].forward) \subseteq Location
    <3>1. /\ histories[p].back \in Seq(Location) /\ histories[p].forward \in Seq(Location)
          /\ histories[p].last \in Location \cup {NoLocation}
      BY DEF NavigationTyped, HistoryFits, PaneHistory
    <3> DEFINE both == histories[p].back \o histories[p].forward
    <3>2. both \in Seq(Location)
      BY <3>1, ConcatProperties
    <3> HIDE DEF both
    <3>3. ToSet(both) \subseteq Location
      BY <3>2, ElementOfSeq, LenProperties DEF ToSet
    <3> QED
      BY <3>1, <3>3 DEF both
  <2> QED
    BY <2>1 DEF NavigationTyped, HistoryFits, NavigationTypeOK
<1> QED
  BY <1>1, <1>2, <1>3, PTL DEF NavigationSpec

-----------------------------------------------------------------------------
(* The types of the search overlay.  A page of hits is sent once and heard *)
(* once at most: what a walk has sent bounds what is shown of it.          *)

\* The pages of hits of a walk that are on their way.
Owed(q, c) == {i \in 1 .. Len(q) : q[i].of = c /\ q[i].hits = 1}

Page == [of : CallId, hits : {0, 1}, isFinal : BOOLEAN]

LEMMA OwedIsCounted ==
  ASSUME NEW q \in Seq(Page), NEW c
  PROVE  IsFiniteSet(Owed(q, c)) /\ Cardinality(Owed(q, c)) \in Nat
<1>1. Len(q) \in Nat
  BY LenProperties
<1>2. IsFiniteSet(1 .. Len(q)) /\ Owed(q, c) \in SUBSET (1 .. Len(q))
  BY <1>1, FS_Interval DEF Owed
<1> QED
  BY <1>2, FS_Subset, FS_CardinalityType

LEMMA OwedAppend ==
  ASSUME NEW q \in Seq(Page), NEW p \in Page, NEW c
  PROVE  Cardinality(Owed(Append(q, p), c))
           = IF p.of = c THEN Cardinality(Owed(q, c)) + p.hits ELSE Cardinality(Owed(q, c))
<1>1. /\ Len(q) \in Nat /\ Len(Append(q, p)) = Len(q) + 1
      /\ \A i \in 1 .. Len(q) : Append(q, p)[i] = q[i]
      /\ Append(q, p)[Len(q) + 1] = p
  BY QueueAppend, LenProperties
<1>2. p.hits \in {0, 1}
  BY DEF Page
<1>3. Owed(Append(q, p), c)
        = IF p.of = c /\ p.hits = 1 THEN Owed(q, c) \cup {Len(q) + 1} ELSE Owed(q, c)
  BY <1>1 DEF Owed
<1>4. Len(q) + 1 \notin Owed(q, c)
  BY <1>1 DEF Owed
<1>5. Cardinality(Owed(q, c) \cup {Len(q) + 1}) = Cardinality(Owed(q, c)) + 1
  BY <1>4, OwedIsCounted, FS_AddElement
<1> QED
  BY <1>2, <1>3, <1>5, OwedIsCounted

LEMMA OwedTail ==
  ASSUME NEW q \in Seq(Page), q # <<>>, NEW c
  PROVE  Cardinality(Owed(q, c))
           = IF Head(q).of = c THEN Cardinality(Owed(Tail(q), c)) + Head(q).hits
             ELSE Cardinality(Owed(Tail(q), c))
<1>1. /\ Head(q) \in Page /\ Head(q) = q[1] /\ Tail(q) \in Seq(Page)
      /\ Len(q) \in Nat /\ Len(q) > 0 /\ Len(Tail(q)) = Len(q) - 1
      /\ \A i \in 1 .. Len(q) - 1 : Tail(q)[i] = q[i + 1]
  BY QueueTail
<1> DEFINE S == Owed(Tail(q), c)
           T == Owed(q, c) \ {1}
           f == [i \in S |-> i + 1]
<1>2. f \in [S -> T] /\ \A i, j \in S : f[i] = f[j] => i = j
  BY <1>1 DEF Owed
<1>3. \A j \in T : j - 1 \in S /\ f[j - 1] = j
  BY <1>1 DEF Owed
<1>4. ExistsBijection(S, T)
  <2> HIDE DEF S, T, f
  <2>1. f \in Bijection(S, T)
    BY <1>2, <1>3, Fun_IsBij
  <2> QED
    BY <2>1, Fun_ExistsBij
<1>5. Cardinality(T) = Cardinality(S) /\ Cardinality(S) \in Nat
  BY <1>1, <1>4, OwedIsCounted, FS_Bijection
<1>6. 1 \in Owed(q, c) <=> Head(q).of = c /\ Head(q).hits = 1
  BY <1>1 DEF Owed
<1>7. /\ 1 \in Owed(q, c) => Cardinality(T) = Cardinality(Owed(q, c)) - 1
      /\ 1 \notin Owed(q, c) => T = Owed(q, c)
      /\ Cardinality(Owed(q, c)) \in Nat
  <2>1. IsFiniteSet(Owed(q, c)) /\ Cardinality(Owed(q, c)) \in Nat
    BY OwedIsCounted
  <2>2. ASSUME NEW Q, IsFiniteSet(Q), 1 \in Q PROVE Cardinality(Q \ {1}) = Cardinality(Q) - 1
    BY <2>2, FS_RemoveElement
  <2>3. ASSUME NEW Q, 1 \notin Q PROVE Q \ {1} = Q
    BY <2>3
  <2> QED
    BY <2>1, <2>2, <2>3, Zenon
<1>8. Head(q).hits \in {0, 1}
  BY <1>1 DEF Page
<1> HIDE DEF T
<1> QED
  BY <1>5, <1>6, <1>7, <1>8

BoxFits(b) ==
  /\ b.open \in BOOLEAN /\ b.mode \in {"filter", "bucket"} /\ b.text \in Query \cup {NoText}
  /\ b.hits \in [by : {"nobody", "filter", "walk"}, text : Query \cup {NoText}, count : 0 .. MaxPages]
  /\ b.running \in BOOLEAN /\ b.rid \in CallId \cup {NoCall} /\ b.unlisten \in CallId \cup {NoCall}

Runs == {"nothing", "empty", "filter", "bucket", "goodbye"}

Calls == [runs : Runs, text : Query \cup {NoText},
          phase : {"unused", "cancelling", "landed", "listening", "filtering", "over"},
          stops : CallId \cup {NoCall}]

WalkFits(c) ==
  /\ walks[c].state \in {"none", "asked", "refused", "walking", "ended"}
  /\ walks[c].stop \in BOOLEAN /\ walks[c].sent \in 0 .. MaxPages /\ walks[c].heard \in Nat
  /\ walks[c].heard + Cardinality(Owed(pages, c)) <= walks[c].sent

SearchTyped ==
  /\ SearchInv /\ BoxFits(box) /\ searchCalls \in [CallId -> Calls] /\ hearing \subseteq CallId
  /\ \A c \in CallId : WalkFits(c)

LEMMA NoHitsFit ==
  NoHits \in [by : {"nobody", "filter", "walk"}, text : Query \cup {NoText}, count : 0 .. MaxPages]
BY SearchAssumption DEF NoHits, Shows

\* Nothing is said of the pages: nothing is sent or heard.
LEMMA WalksStay ==
  ASSUME SearchTyped, UNCHANGED <<walks, pages>>
  PROVE  \A c \in CallId : WalkFits(c)'
BY DEF SearchTyped, WalkFits

LEMMA GoOnFits ==
  ASSUME SearchTyped, NEW c \in CallId, NEW runs \in Runs, NEW text \in Query \cup {NoText},
         NEW b, IsBox(b), BoxFits(b), GoOn(c, runs, text, b)
  PROVE  BoxFits(box') /\ searchCalls' \in [CallId -> Calls] /\ hearing' \subseteq CallId
<1>1. IsBox(Cleared(b)) /\ BoxFits(Cleared(b))
  <2>1. PICK e \in BOOLEAN : e = FALSE
    OBVIOUS
  <2> DEFINE d == [open |-> b.open, mode |-> b.mode, text |-> b.text, hits |-> b.hits,
                   running |-> e, rid |-> NoCall, unlisten |-> NoCall]
  <2>2. [b EXCEPT !.rid = NoCall, !.unlisten = NoCall, !.running = e] = d
    <3>1. b = [open |-> b.open, mode |-> b.mode, text |-> b.text, hits |-> b.hits,
               running |-> b.running, rid |-> b.rid, unlisten |-> b.unlisten]
      BY DEF IsBox
    <3> DEFINE one == [open |-> b.open, mode |-> b.mode, text |-> b.text, hits |-> b.hits,
                       running |-> b.running, rid |-> NoCall, unlisten |-> b.unlisten]
               two == [open |-> b.open, mode |-> b.mode, text |-> b.text, hits |-> b.hits,
                       running |-> b.running, rid |-> NoCall, unlisten |-> NoCall]
    <3>2. [b EXCEPT !.rid = NoCall] = one
      BY <3>1
    <3>3. [one EXCEPT !.unlisten = NoCall] = two
      OBVIOUS
    <3>4. [two EXCEPT !.running = e] = d
      OBVIOUS
    <3> HIDE DEF one, two, d
    <3> QED
      BY <3>2, <3>3, <3>4, Zenon
  <2>3. IsBox(d)
    BY DEF IsBox
  <2>4. BoxFits(d)
    BY DEF BoxFits
  <2> HIDE DEF d
  <2>5. Cleared(b) = d
    BY <2>1, <2>2, Zenon DEF Cleared
  <2> QED
    BY <2>3, <2>4, <2>5, Zenon
<1>2. BoxFits(Begin(Cleared(b), c))
  <2> DEFINE d == Cleared(b)
  <2> HIDE DEF d
  <2>1. BoxFits(Begin(d, c))
    BY <1>1, NoHitsFit DEF Begin, IsBox, BoxFits, d
  <2> QED
    BY <2>1 DEF d
<1>3. BoxFits(Emptied(b))
  <2> DEFINE d == Cleared(b)
  <2> HIDE DEF d
  <2>1. BoxFits([d EXCEPT !.hits = NoHits])
    BY <1>1, NoHitsFit DEF IsBox, BoxFits, d
  <2> QED
    BY <2>1 DEF d, Emptied
<1>4. BoxFits(box')
  BY <1>1, <1>2, <1>3, Zenon DEF GoOn
<1>5. searchCalls' \in [CallId -> Calls]
  BY DEF GoOn, SearchTyped, Calls, Runs
<1>6. hearing' \subseteq CallId
  BY DEF GoOn, SearchTyped
<1> QED
  BY <1>4, <1>5, <1>6

LEMMA CancelFits ==
  ASSUME SearchTyped, NEW c \in CallId, NEW runs \in Runs, NEW text \in Query \cup {NoText},
         NEW b, IsBox(b), BoxFits(b), cancelRunningSearch(c, runs, text, b)
  PROVE  BoxFits(box') /\ searchCalls' \in [CallId -> Calls] /\ hearing' \subseteq CallId
<1>1. CASE b.rid = NoCall
  BY <1>1, GoOnFits DEF cancelRunningSearch
<1>2. CASE b.rid # NoCall
  <2>1. box' = b /\ hearing' = hearing
    BY <1>2 DEF cancelRunningSearch
  <2>2. searchCalls' \in [CallId -> Calls]
    BY <1>2 DEF cancelRunningSearch, SearchTyped, Calls, BoxFits
  <2> QED
    BY <2>1, <2>2 DEF SearchTyped
<1> QED
  BY <1>1, <1>2

LEMMA GesturesFit ==
  ASSUME SearchTyped, SearchInv', NEW c \in CallId,
         \/ \E q \in Query \cup {NoText} : handleQueryChange(c, q)
         \/ handleModeChange(c) \/ CancelButton(c) \/ CloseSearch(c) \/ CancelAnswers(c)
  PROVE  SearchTyped'
<1>1. IsBox(box) /\ BoxFits(box) /\ searchCalls \in [CallId -> Calls] /\ hearing \subseteq CallId
  BY DEF SearchTyped, SearchInv, SearchTypes
<1>2. ASSUME BoxFits(box'), searchCalls' \in [CallId -> Calls], hearing' \subseteq CallId,
             UNCHANGED <<walks, pages>>
      PROVE  SearchTyped'
  BY <1>2, WalksStay DEF SearchTyped
<1>3. ASSUME NEW q \in Query \cup {NoText}, handleQueryChange(c, q) PROVE SearchTyped'
  <2>1. IsBox([box EXCEPT !.text = q]) /\ BoxFits([box EXCEPT !.text = q])
    BY <1>1 DEF IsBox, BoxFits
  <2>2. UNCHANGED <<walks, pages>>
    BY <1>3 DEF handleQueryChange
  <2>3. CASE box.mode = "filter"
    <3>1. /\ box' = [box EXCEPT !.text = q] /\ hearing' = hearing
          /\ searchCalls' = [searchCalls EXCEPT ![c] =
               [FreshCall EXCEPT !.runs = "filter", !.text = q, !.phase = "filtering"]]
      BY <1>3, <2>3 DEF handleQueryChange
    <3>2. [FreshCall EXCEPT !.runs = "filter", !.text = q, !.phase = "filtering"] \in Calls
      BY DEF FreshCall, Calls, Runs
    <3> QED
      BY <1>1, <1>2, <2>1, <2>2, <3>1, <3>2
  <2>4. CASE box.mode # "filter"
    <3>1. cancelRunningSearch(c, "bucket", q, [box EXCEPT !.text = q]) /\ "bucket" \in Runs
      BY <1>3, <2>4 DEF handleQueryChange, Runs
    <3> QED
      BY <1>2, <2>1, <2>2, <3>1, CancelFits
  <2> QED
    BY <2>3, <2>4
<1>4. CASE handleModeChange(c)
  <2>1. PICK mode \in {"filter", "bucket"} :
          /\ cancelRunningSearch(c, IF box.text = NoText THEN "empty" ELSE mode, box.text,
                                 [box EXCEPT !.mode = mode])
          /\ UNCHANGED <<walks, pages>>
    BY <1>4 DEF handleModeChange
  <2>2. IsBox([box EXCEPT !.mode = mode]) /\ BoxFits([box EXCEPT !.mode = mode])
    BY <1>1 DEF IsBox, BoxFits
  <2>3. (IF box.text = NoText THEN "empty" ELSE mode) \in Runs /\ box.text \in Query \cup {NoText}
    BY <1>1 DEF Runs, BoxFits
  <2> QED
    BY <1>2, <2>1, <2>2, <2>3, CancelFits
<1>5. CASE CancelButton(c)
  <2>1. /\ cancelRunningSearch(c, "nothing", NoText, box) /\ UNCHANGED <<walks, pages>>
        /\ "nothing" \in Runs /\ NoText \in Query \cup {NoText}
    BY <1>5 DEF CancelButton, Runs
  <2> QED
    BY <1>1, <1>2, <2>1, CancelFits
<1>6. CASE CloseSearch(c)
  <2>1. /\ box' = [box EXCEPT !.open = FALSE] /\ hearing' = hearing \ {box.unlisten}
        /\ \E phase \in {"over", "cancelling"} :
             searchCalls' = [searchCalls EXCEPT ![c] =
                [FreshCall EXCEPT !.runs = "goodbye", !.stops = box.rid, !.phase = phase]]
        /\ UNCHANGED <<walks, pages>>
    BY <1>6 DEF CloseSearch
  <2>2. BoxFits(box')
    BY <1>1, <2>1 DEF IsBox, BoxFits
  <2>3. \A phase \in {"over", "cancelling"} :
          [FreshCall EXCEPT !.runs = "goodbye", !.stops = box.rid, !.phase = phase] \in Calls
    BY <1>1 DEF FreshCall, Calls, Runs, BoxFits
  <2>4. searchCalls' \in [CallId -> Calls]
    BY <1>1, <2>1, <2>3
  <2> QED
    BY <1>1, <1>2, <2>1, <2>2, <2>4
<1>7. CASE CancelAnswers(c)
  <2>1. GoOn(c, searchCalls[c].runs, searchCalls[c].text, box) /\ UNCHANGED <<walks, pages>>
    BY <1>7 DEF CancelAnswers
  <2>2. searchCalls[c].runs \in Runs /\ searchCalls[c].text \in Query \cup {NoText}
    BY <1>1 DEF Calls
  <2> QED
    BY <1>1, <1>2, <2>1, <2>2, GoOnFits
<1> QED
  BY <1>3, <1>4, <1>5, <1>6, <1>7

\* One walk changes, and what is on its way is as before.
LEMMA WalkChanges ==
  ASSUME SearchTyped, NEW c, NEW state \in {"none", "asked", "refused", "walking", "ended"},
         walks' = [walks EXCEPT ![c].state = state], pages' = pages
  PROVE  \A d \in CallId : WalkFits(d)'
<1>1. ASSUME NEW d \in CallId PROVE WalkFits(d)'
  <2>1. /\ walks = [e \in CallId |-> walks[e]]
        /\ walks[d] = [state |-> walks[d].state, stop |-> walks[d].stop,
                       sent |-> walks[d].sent, heard |-> walks[d].heard]
    BY DEF SearchTyped, SearchInv, SearchTypes, IsWalk
  <2>2. /\ walks'[d].state \in {walks[d].state, state} /\ walks'[d].stop = walks[d].stop
        /\ walks'[d].sent = walks[d].sent /\ walks'[d].heard = walks[d].heard
    BY <2>1
  <2> QED
    BY <2>2 DEF SearchTyped, WalkFits
<1> QED
  BY <1>1

LEMMA AnswersFit ==
  ASSUME SearchTyped, SearchInv', NEW c \in CallId,
         \/ searchCancel(c) \/ ListenAnswers(c) \/ runLocalFilter(c) \/ SearchFails(c)
         \/ searchPrefix(c)
  PROVE  SearchTyped'
<1>1. IsBox(box) /\ BoxFits(box) /\ searchCalls \in [CallId -> Calls] /\ hearing \subseteq CallId
  BY DEF SearchTyped, SearchInv, SearchTypes
<1>2. \A phase \in {"unused", "cancelling", "landed", "listening", "filtering", "over"} :
        [searchCalls EXCEPT ![c].phase = phase] \in [CallId -> Calls]
  BY <1>1 DEF Calls
<1>3. CASE searchCancel(c)
  <2>1. searchCalls' \in [CallId -> Calls] /\ UNCHANGED <<box, hearing, pages>>
    BY <1>2, <1>3 DEF searchCancel
  <2>2. PICK stop \in BOOLEAN : \E s : walks' = [walks EXCEPT ![s].stop = stop]
    <3>1. PICK s : walks' = [walks EXCEPT ![s].stop = @ \/ walks[s].state = "walking"]
      BY <1>3, Zenon DEF searchCancel
    <3>2. PICK b \in BOOLEAN : b = (walks[s].stop \/ walks[s].state = "walking")
      OBVIOUS
    <3>3. walks' = [walks EXCEPT ![s].stop = b]
      BY <3>1, <3>2, Zenon
    <3> QED
      BY <3>3
  <2>3. ASSUME NEW d \in CallId PROVE WalkFits(d)'
    <3>1. /\ walks = [e \in CallId |-> walks[e]]
          /\ walks[d] = [state |-> walks[d].state, stop |-> walks[d].stop,
                         sent |-> walks[d].sent, heard |-> walks[d].heard]
      BY DEF SearchTyped, SearchInv, SearchTypes, IsWalk
    <3>2. /\ walks'[d].state = walks[d].state /\ walks'[d].stop \in {stop, walks[d].stop}
          /\ walks'[d].sent = walks[d].sent /\ walks'[d].heard = walks[d].heard
      BY <2>2, <3>1
    <3> QED
      BY <2>1, <3>2 DEF SearchTyped, WalkFits
  <2> QED
    BY <1>1, <2>1, <2>3 DEF SearchTyped
<1>4. CASE ListenAnswers(c)
  <2>1. BoxFits([box EXCEPT !.unlisten = c])
    BY <1>1 DEF IsBox, BoxFits
  <2>2. \A d \in CallId : WalkFits(d)'
    BY <1>4, WalkChanges DEF ListenAnswers
  <2> QED
    BY <1>1, <1>2, <1>4, <2>1, <2>2 DEF ListenAnswers, SearchTyped
<1>5. CASE runLocalFilter(c)
  <2>1. searchCalls[c].text \in Query \cup {NoText} /\ 0 \in 0 .. MaxPages
    BY <1>1, SearchAssumption DEF Calls
  <2>2. BoxFits([box EXCEPT !.hits = Shows("filter", searchCalls[c].text, 0)])
    BY <1>1, <2>1 DEF IsBox, BoxFits, Shows
  <2>3. \A d \in CallId : WalkFits(d)'
    BY <1>5, WalksStay DEF runLocalFilter
  <2> QED
    BY <1>1, <1>2, <1>5, <2>2, <2>3 DEF runLocalFilter, SearchTyped
<1>6. CASE SearchFails(c)
  <2>1. BoxFits([box EXCEPT !.running = FALSE])
    BY <1>1 DEF IsBox, BoxFits
  <2>2. \A d \in CallId : WalkFits(d)'
    BY <1>6, WalkChanges DEF SearchFails
  <2> QED
    BY <1>1, <1>6, <2>1, <2>2 DEF SearchFails, SearchTyped
<1>7. CASE searchPrefix(c)
  <2>1. \A d \in CallId : WalkFits(d)'
    BY <1>7, WalkChanges DEF searchPrefix
  <2> QED
    BY <1>1, <1>7, <2>1 DEF searchPrefix, SearchTyped
<1> QED
  BY <1>3, <1>4, <1>5, <1>6, <1>7

LEMMA SendingFits ==
  ASSUME SearchTyped, SearchInv', NEW c \in CallId, WalkSends(c)
  PROVE  SearchTyped'
<1>1. PICK hits \in {0, 1}, isFinal \in BOOLEAN :
        /\ hits = 1 => walks[c].sent < MaxPages
        /\ pages' = Append(pages, [of |-> c, hits |-> hits, isFinal |-> isFinal])
        /\ walks' = [walks EXCEPT ![c].sent = @ + hits, ![c].state = IF isFinal THEN "ended" ELSE @]
  BY DEF WalkSends
<1>2. pages \in Seq(Page) /\ [of |-> c, hits |-> hits, isFinal |-> isFinal] \in Page
  BY DEF SearchTyped, SearchInv, SearchTypes, Page
<1>3. ASSUME NEW d \in CallId PROVE WalkFits(d)'
  <2>1. /\ walks = [e \in CallId |-> walks[e]]
        /\ walks[d] = [state |-> walks[d].state, stop |-> walks[d].stop,
                       sent |-> walks[d].sent, heard |-> walks[d].heard]
    BY DEF SearchTyped, SearchInv, SearchTypes, IsWalk
  <2>2. Cardinality(Owed(pages', d))
          = IF c = d THEN Cardinality(Owed(pages, d)) + hits ELSE Cardinality(Owed(pages, d))
    BY <1>1, <1>2, OwedAppend
  <2>3. Cardinality(Owed(pages, d)) \in Nat
    BY <1>2, OwedIsCounted
  <2>4. /\ walks'[d].state \in {walks[d].state, "ended"} /\ walks'[d].stop = walks[d].stop
        /\ walks'[d].sent = IF c = d THEN walks[d].sent + hits ELSE walks[d].sent
        /\ walks'[d].heard = walks[d].heard
    BY <1>1, <2>1
  <2>5. WalkFits(d) /\ MaxPages \in Nat
    BY SearchAssumption DEF SearchTyped
  <2>6. walks'[d].sent \in 0 .. MaxPages
    BY <1>1, <2>4, <2>5 DEF WalkFits
  <2>7. walks'[d].heard + Cardinality(Owed(pages', d)) <= walks'[d].sent
    BY <2>2, <2>3, <2>4, <2>5 DEF WalkFits
  <2> QED
    BY <2>4, <2>5, <2>6, <2>7 DEF WalkFits
<1> QED
  BY <1>3 DEF WalkSends, SearchTyped

LEMMA HearingFits ==
  ASSUME SearchTyped, SearchInv', PageArrives
  PROVE  SearchTyped'
<1> DEFINE p == Head(pages)
<1>1. /\ pages \in Seq(Page) /\ pages # <<>> /\ pages' = Tail(pages)
      /\ searchCalls' = searchCalls
      /\ SearchInv /\ BoxFits(box) /\ searchCalls \in [CallId -> Calls] /\ hearing \subseteq CallId
  BY DEF PageArrives, SearchTyped, SearchInv, SearchTypes, Page
<1>2. p \in Page /\ p.of \in CallId /\ p.hits \in {0, 1} /\ p.isFinal \in BOOLEAN
  <2>1. p \in Page
    BY <1>1, QueueTail
  <2> HIDE DEF p
  <2> QED
    BY <2>1 DEF Page
<1>3. \A d \in CallId : Cardinality(Owed(pages, d))
        = IF p.of = d THEN Cardinality(Owed(pages', d)) + p.hits ELSE Cardinality(Owed(pages', d))
  BY <1>1, OwedTail
<1>4. pages' \in Seq(Page)
  BY <1>1, QueueTail
<1>5. \A d \in CallId : Cardinality(Owed(pages', d)) \in Nat
  BY <1>4, OwedIsCounted
<1>6. CASE p.of \notin hearing
  <2>1. UNCHANGED <<box, hearing, walks>>
    BY <1>6 DEF PageArrives
  <2> HIDE DEF p
  <2>2. ASSUME NEW d \in CallId PROVE WalkFits(d)'
    <3>1. walks[d].heard + Cardinality(Owed(pages', d)) <= walks[d].sent
      BY <1>2, <1>3, <1>5 DEF SearchTyped, WalkFits
    <3> QED
      BY <2>1, <3>1 DEF SearchTyped, WalkFits
  <2> QED
    BY <1>1, <2>1, <2>2 DEF SearchTyped
<1>7. CASE p.of \in hearing
  <2>1. /\ walks' = [walks EXCEPT ![p.of].heard = @ + p.hits]
        /\ box' = [box EXCEPT
               !.hits = Shows("walk", searchCalls[p.of].text, walks'[p.of].heard),
               !.running = @ /\ ~ p.isFinal,
               !.rid = IF p.isFinal THEN NoCall ELSE @,
               !.unlisten = IF p.isFinal THEN NoCall ELSE @]
        /\ hearing' \subseteq hearing
    BY <1>7, Zenon DEF PageArrives
  <2> HIDE DEF p
  <2>2. ASSUME NEW d \in CallId PROVE WalkFits(d)' /\ walks'[d].heard \in 0 .. MaxPages
    <3>1. /\ walks = [e \in CallId |-> walks[e]]
          /\ walks[d] = [state |-> walks[d].state, stop |-> walks[d].stop,
                         sent |-> walks[d].sent, heard |-> walks[d].heard]
      BY DEF SearchTyped, SearchInv, SearchTypes, IsWalk
    <3>2. /\ walks'[d].state = walks[d].state /\ walks'[d].stop = walks[d].stop
          /\ walks'[d].sent = walks[d].sent
          /\ walks'[d].heard = IF p.of = d THEN walks[d].heard + p.hits ELSE walks[d].heard
      BY <2>1, <3>1
    <3>3. WalkFits(d) /\ MaxPages \in Nat
      BY SearchAssumption DEF SearchTyped
    <3>4. walks'[d].heard \in Nat /\ walks'[d].heard + Cardinality(Owed(pages', d)) <= walks'[d].sent
      BY <1>2, <1>3, <1>5, <3>2, <3>3 DEF WalkFits
    <3>5. walks'[d].heard <= MaxPages
      BY <1>5, <3>2, <3>3, <3>4 DEF WalkFits
    <3> QED
      BY <3>2, <3>3, <3>4, <3>5 DEF WalkFits
  <2>3. PICK running \in BOOLEAN : running = (box.running /\ ~ p.isFinal)
    OBVIOUS
  <2> DEFINE hits == Shows("walk", searchCalls[p.of].text, walks'[p.of].heard)
             rid == IF p.isFinal THEN NoCall ELSE box.rid
             unlisten == IF p.isFinal THEN NoCall ELSE box.unlisten
  <2>4. box' = [box EXCEPT !.hits = hits, !.running = running, !.rid = rid, !.unlisten = unlisten]
    BY <2>1, <2>3, Zenon
  <2>5. hits \in [by : {"nobody", "filter", "walk"}, text : Query \cup {NoText}, count : 0 .. MaxPages]
    <3>1. searchCalls[p.of].text \in Query \cup {NoText} /\ walks'[p.of].heard \in 0 .. MaxPages
      BY <1>1, <1>2, <2>2 DEF Calls
    <3> QED
      BY <3>1 DEF Shows
  <2>6. BoxFits(box')
    <3>1. box = [open |-> box.open, mode |-> box.mode, text |-> box.text, hits |-> box.hits,
                 running |-> box.running, rid |-> box.rid, unlisten |-> box.unlisten]
      BY <1>1 DEF SearchInv, SearchTypes, IsBox
    <3>3. rid \in {NoCall, box.rid} /\ unlisten \in {NoCall, box.unlisten}
      OBVIOUS
    <3> HIDE DEF hits, rid, unlisten
    <3>2. box' = [open |-> box.open, mode |-> box.mode, text |-> box.text, hits |-> hits,
                  running |-> running, rid |-> rid, unlisten |-> unlisten]
      BY <2>4, <3>1
    <3> QED
      BY <1>1, <2>5, <3>2, <3>3 DEF BoxFits
  <2> QED
    BY <1>1, <2>1, <2>2, <2>6 DEF SearchTyped
<1> QED
  BY <1>6, <1>7

LEMMA SearchTypesAlways == SearchSpec => []SearchTypeOK
<1>1. SearchInit => SearchTyped
  <2> SUFFICES ASSUME SearchInit PROVE SearchTyped
    OBVIOUS
  <2>1. SearchInv
    BY SearchFits
  <2>2. PICK yes \in BOOLEAN, no \in BOOLEAN :
          /\ no = FALSE
          /\ box = [open |-> yes, mode |-> "filter", text |-> NoText, hits |-> NoHits,
                    running |-> no, rid |-> NoCall, unlisten |-> NoCall]
          /\ walks = [c \in CallId |-> [state |-> "none", stop |-> no, sent |-> 0, heard |-> 0]]
    BY Zenon DEF SearchInit
  <2>3. BoxFits(box)
    BY <2>2, NoHitsFit DEF BoxFits
  <2>4. FreshCall \in Calls
    BY DEF FreshCall, Calls, Runs
  <2>5. \A c : Owed(pages, c) = {}
    <3>1. Len(pages) = 0
      BY DEF SearchInit
    <3> QED
      BY <3>1 DEF Owed
  <2>6. ASSUME NEW c \in CallId PROVE WalkFits(c)
    <3>1. walks[c] = [state |-> "none", stop |-> no, sent |-> 0, heard |-> 0]
      BY <2>2
    <3>2. Cardinality(Owed(pages, c)) = 0 /\ MaxPages \in Nat
      BY <2>5, FS_EmptySet, SearchAssumption
    <3> QED
      BY <3>1, <3>2 DEF WalkFits
  <2> QED
    BY <2>1, <2>3, <2>4, <2>6 DEF SearchTyped, SearchInit
<1>2. SearchTyped /\ [SearchNext]_searchVars => SearchTyped'
  <2> SUFFICES ASSUME SearchTyped, [SearchNext]_searchVars PROVE SearchTyped'
    OBVIOUS
  <2>1. SearchInv'
    BY SearchFits DEF SearchTyped
  <2>2. CASE UNCHANGED searchVars
    BY <2>1, <2>2 DEF searchVars, SearchTyped, WalkFits
  <2> QED
    BY <2>1, <2>2, GesturesFit, AnswersFit, SendingFits, HearingFits DEF SearchNext
<1>3. SearchTyped => SearchTypeOK
  <2> SUFFICES ASSUME SearchTyped PROVE SearchTypeOK
    OBVIOUS
  <2>1. /\ IsBox(box) /\ BoxFits(box) /\ walks = [c \in CallId |-> walks[c]]
        /\ \A c \in CallId : IsWalk(c)
    BY DEF SearchTyped, SearchInv, SearchTypes
  <2>2. box \in [open : BOOLEAN, mode : {"filter", "bucket"}, text : Query \cup {NoText},
                 hits : [by : {"nobody", "filter", "walk"}, text : Query \cup {NoText},
                         count : 0 .. MaxPages],
                 running : BOOLEAN, rid : CallId \cup {NoCall}, unlisten : CallId \cup {NoCall}]
    BY <2>1 DEF IsBox, BoxFits
  <2> DEFINE W == [state : {"none", "asked", "refused", "walking", "ended"},
                   stop : BOOLEAN, sent : 0 .. MaxPages, heard : 0 .. MaxPages]
  <2>3. ASSUME NEW c \in CallId PROVE walks[c] \in W
    <3>1. Cardinality(Owed(pages, c)) \in Nat
      BY OwedIsCounted DEF SearchTyped, SearchInv, SearchTypes, Page
    <3>2. walks[c].heard \in 0 .. MaxPages
      BY <3>1, SearchAssumption DEF SearchTyped, WalkFits
    <3>3. walks[c] = [state |-> walks[c].state, stop |-> walks[c].stop,
                      sent |-> walks[c].sent, heard |-> walks[c].heard]
      BY <2>1 DEF IsWalk
    <3> QED
      BY <3>2, <3>3 DEF SearchTyped, WalkFits
  <2>4. walks \in [CallId -> W]
    BY <2>1, <2>3
  <2> QED
    BY <2>2, <2>4 DEF SearchTyped, SearchTypeOK, Calls, Runs
<1> QED
  BY <1>1, <1>2, <1>3, PTL DEF SearchSpec

=============================================================================
