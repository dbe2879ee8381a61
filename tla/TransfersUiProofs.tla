-------------------------- MODULE TransfersUiProofs --------------------------
(***************************************************************************)
(* What the frontend keeps of work that runs in the backend, for any       *)
(* transfers, operations, commands and notices: the rows of the transfers  *)
(* follow it, or stand as queued when their answer came late; the store    *)
(* holds the announced locks; no bulk download waits for an answer nobody  *)
(* can give, and no notice passes for seen.                                *)
(*                                                                         *)
(* The arguments for the rows and for the locks are alike: what the store  *)
(* does not know yet is under way in an event, the last event of a         *)
(* transfer or of an operation is its end, and what is still under way     *)
(* is never older than what the store holds.                               *)
(***************************************************************************)
EXTENDS MCTransfersUi, FunctionTheorems, FiniteSetTheorems, SequenceTheorems, TLAPS

\* What an event more, or less, makes of a queue of events.
LEMMA BusAppend ==
  ASSUME NEW E, NEW q \in Seq(E), NEW e \in E
  PROVE  /\ Append(q, e) \in Seq(E) /\ Len(Append(q, e)) = Len(q) + 1
         /\ \A i \in 1 .. Len(q) : Append(q, e)[i] = q[i]
         /\ Append(q, e)[Len(q) + 1] = e
BY AppendProperties

LEMMA BusTail ==
  ASSUME NEW E, NEW q \in Seq(E), q # <<>>
  PROVE  /\ Head(q) \in E /\ Head(q) = q[1] /\ Tail(q) \in Seq(E)
         /\ Len(q) \in Nat /\ Len(q) > 0 /\ Len(Tail(q)) = Len(q) - 1
         /\ \A i \in 1 .. Len(q) - 1 : Tail(q)[i] = q[i + 1]
BY HeadTailProperties, EmptySeq

-----------------------------------------------------------------------------
(* The rows of the transfers.                                              *)

BusEvent == [id : Transfer, what : {"progress", "running"} \cup Completed]

\* An event of the transfer t is under way: of this kind, or of any.
Heard(t, what) == \E i \in 1 .. Len(bus) : bus[i].id = t /\ bus[i].what = what
Silent(t) == \A i \in 1 .. Len(bus) : bus[i].id # t

\* What t has come to, if that is news, is under way.
NewsComing(t) == jobs[t] \in {"running"} \cup Completed => Heard(t, jobs[t])

ViewTypes ==
  /\ jobs \in [Transfer -> {"none"} \cup Active \cup Completed]
  /\ bus \in Seq(BusEvent)
  /\ answers \subseteq Answer
  /\ rows \in [Transfer -> Row \cup {NoRow}]
  /\ asked \subseteq Transfer

\* The end of a transfer is its last event: while any is under way, it is.
BusFits ==
  \A i \in 1 .. Len(bus) :
    /\ jobs[bus[i].id] \notin {"none", "queued"}
    /\ bus[i].what \in Completed =>
         /\ bus[i].what = jobs[bus[i].id]
         /\ \A j \in 1 .. Len(bus) : j > i => bus[j].id # bus[i].id
    /\ jobs[bus[i].id] \in Completed => Heard(bus[i].id, jobs[bus[i].id])

\* An answer that is not late has all the news still to come.
AnswersFit ==
  \A a \in answers : \A t \in a.ids :
    jobs[t] # "none" /\ (t \notin a.late => NewsComing(t))

\* A row that has ended hears nothing more; one that the answer has not put
\* back to "queued" is up to date, or the news is under way.
RowsFit ==
  \A t \in Rows :
    /\ jobs[t] # "none"
    /\ rows[t].state \in Completed => rows[t].state = jobs[t] /\ Silent(t)
    /\ rows[t].state = "running" => jobs[t] # "queued"
    /\ rows[t].state # jobs[t] => NewsComing(t) \/ Overtaken(t)

ViewInv == ViewTypes /\ BusFits /\ AnswersFit /\ RowsFit

LEMMA BusTyped ==
  ASSUME ViewTypes, NEW i \in 1 .. Len(bus)
  PROVE  bus[i] \in BusEvent /\ bus[i].id \in Transfer
<1>1. bus[i] \in BusEvent
  BY ElementOfSeq DEF ViewTypes
<1> QED
  BY <1>1 DEF BusEvent

\* The user's gestures that touch neither the rows nor the backend keep it.
LEMMA SameRows ==
  ASSUME ViewInv, UNCHANGED <<jobs, bus, answers, rows>>, asked' \subseteq Transfer
  PROVE  ViewInv'
BY DEF ViewInv, ViewTypes, BusFits, AnswersFit, RowsFit, Rows, Overtaken, NewsComing, Heard, Silent

\* So does starting transfers: their answer has everything still to come.
LEMMA StartKeeps ==
  ASSUME ViewInv, NEW s \in SUBSET Transfer, NEW rejected \in BOOLEAN,
         NEW by \in {"command", "view"}, Start(s, rejected, by)
  PROVE  ViewInv'
<1>1. /\ \A t \in s : jobs[t] = "none"
      /\ bus' = bus /\ rows' = rows /\ asked' = asked /\ Rows' = Rows
      /\ answers' = answers \/ answers' = answers \cup {[ids |-> s, late |-> {}, by |-> by]}
  BY DEF Start, Rows
<1>2. /\ jobs' = [t \in Transfer |-> IF t \in s THEN "queued" ELSE jobs[t]]
      /\ \A t \in Transfer : jobs'[t] = IF t \in s THEN "queued" ELSE jobs[t]
  BY DEF Start
<1>3. ViewTypes /\ BusFits /\ AnswersFit /\ RowsFit
  BY DEF ViewInv
<1>4. \A i \in 1 .. Len(bus) : bus[i].id \in Transfer
  BY <1>3, BusTyped
<1>5. \A a \in answers : a.ids \subseteq Transfer
  BY <1>3 DEF ViewTypes, Answer
<1>6. \A t \in Transfer : Silent(t)' = Silent(t) /\ (NewsComing(t) => NewsComing(t)')
  BY <1>1, <1>2 DEF Silent, NewsComing, Heard, Completed
<1>7. \A t \in s : jobs'[t] = "queued" /\ NewsComing(t)'
  BY <1>2 DEF NewsComing, Completed
<1>8. ViewTypes'
  <2>1. answers' \subseteq Answer
    BY <1>1, <1>3 DEF ViewTypes, Answer
  <2>2. jobs' \in [Transfer -> {"none"} \cup Active \cup Completed]
    BY <1>2, <1>3 DEF ViewTypes, Active
  <2> QED
    BY <1>1, <1>3, <2>1, <2>2 DEF ViewTypes
<1>9. BusFits'
  <2>1. \A i \in 1 .. Len(bus) : jobs'[bus[i].id] = jobs[bus[i].id]
    BY <1>1, <1>2, <1>3, <1>4 DEF BusFits
  <2>2. \A u, w : Heard(u, w)' = Heard(u, w)
    BY <1>1 DEF Heard
  <2> QED
    BY <1>1, <1>3, <2>1, <2>2 DEF BusFits
<1>10. AnswersFit'
  BY <1>1, <1>2, <1>3, <1>5, <1>6, <1>7 DEF AnswersFit
<1>11. RowsFit'
  BY <1>1, <1>2, <1>3, <1>6 DEF RowsFit, Rows, Overtaken
<1> QED
  BY <1>8, <1>9, <1>10, <1>11 DEF ViewInv

\* And seeding the rows of an answer: the events that came before it are what
\* makes it late.
LEMMA SeedKeeps ==
  ASSUME ViewInv, NEW a \in answers, SeedTransfers(a)
  PROVE  ViewInv'
<1> DEFINE seeded(t) == [state |-> "queued", batch |-> a.ids, late |-> t \in a.late]
<1>1. /\ answers' \subseteq answers
      /\ rows' = [t \in Transfer |-> IF t \in a.ids THEN seeded(t) ELSE rows[t]]
      /\ UNCHANGED <<jobs, bus, asked>>
  BY DEF SeedTransfers
<1>2. ViewTypes /\ BusFits /\ AnswersFit /\ RowsFit
  BY DEF ViewInv
<1>3. \A t \in Transfer : /\ seeded(t) \in Row /\ seeded(t).state = "queued"
                          /\ seeded(t).late = (t \in a.late)
  BY <1>2 DEF ViewTypes, Answer, Row, Active
<1> HIDE DEF seeded
<1>4. rows' \in [Transfer -> Row \cup {NoRow}]
  BY <1>1, <1>2, <1>3 DEF ViewTypes
<1>5. \A t : NewsComing(t)' = NewsComing(t) /\ Silent(t)' = Silent(t)
  BY <1>1 DEF NewsComing, Heard, Silent
<1>6. RowsFit'
  <2> SUFFICES ASSUME NEW t \in Rows'
               PROVE  /\ jobs[t] # "none"
                      /\ rows'[t].state \in Completed => rows'[t].state = jobs[t] /\ Silent(t)
                      /\ rows'[t].state = "running" => jobs[t] # "queued"
                      /\ rows'[t].state # jobs[t] =>
                           NewsComing(t) \/ (rows'[t].late /\ rows'[t].state = "queued")
    BY <1>1, <1>5 DEF RowsFit, Overtaken
  <2>1. t \in Transfer
    BY DEF Rows
  <2>2. CASE t \in a.ids
    BY <1>1, <1>2, <1>3, <2>1, <2>2 DEF AnswersFit, Completed
  <2>3. CASE t \notin a.ids
    BY <1>1, <1>2, <2>1, <2>3 DEF RowsFit, Rows, Overtaken
  <2> QED
    BY <2>2, <2>3
<1>7. AnswersFit'
  BY <1>1, <1>2, <1>5 DEF AnswersFit
<1> QED
  BY <1>1, <1>2, <1>4, <1>6, <1>7 DEF ViewInv, ViewTypes, BusFits, Heard

\* And what the backend announces.
LEMMA AnnounceKeeps ==
  ASSUME ViewInv, NEW t \in Transfer, NEW what \in {"progress", "running"} \cup Completed, NEW state,
         Announce(t, what, state), jobs[t] \in Active,
         state = IF what = "progress" THEN "running" ELSE what,
         what = "progress" => jobs[t] = "running"
  PROVE  ViewInv'
<1> DEFINE e == [id |-> t, what |-> what]
<1>1. /\ bus' = Append(bus, e) /\ jobs' = [jobs EXCEPT ![t] = state]
      /\ UNCHANGED <<answers, rows, asked>> /\ Rows' = Rows
  BY DEF Announce, Rows
<1>2. ViewTypes /\ BusFits /\ AnswersFit /\ RowsFit
  BY DEF ViewInv
<1>3. e \in BusEvent /\ e.id = t /\ e.what = what
  BY DEF BusEvent
<1> HIDE DEF e
<1>4. /\ bus' \in Seq(BusEvent)
      /\ Len(bus) \in Nat /\ Len(bus') = Len(bus) + 1
      /\ \A i \in 1 .. Len(bus) : bus'[i] = bus[i] /\ bus[i].id \in Transfer
      /\ bus'[Len(bus) + 1] = e
  <2>1. bus \in Seq(BusEvent)
    BY <1>2 DEF ViewTypes
  <2>2. \A i \in 1 .. Len(bus) : bus[i].id \in Transfer
    BY <1>2, BusTyped
  <2> QED
    BY <1>1, <1>3, <2>1, <2>2, BusAppend
<1>5. \A u \in Transfer : jobs'[u] = IF u = t THEN state ELSE jobs[u]
  BY <1>1, <1>2 DEF ViewTypes
<1>6. \A u, w : Heard(u, w) \/ (u = t /\ w = what) => Heard(u, w)'
  <2>1. Len(bus) + 1 \in 1 .. Len(bus') /\ \A i \in 1 .. Len(bus) : i \in 1 .. Len(bus')
    BY <1>4
  <2> QED
    BY <1>3, <1>4, <2>1, Zenon DEF Heard
<1>7. \A u : Silent(u) /\ u # t => Silent(u)'
  <2>1. \A i \in 1 .. Len(bus') : i \in 1 .. Len(bus) \/ i = Len(bus) + 1
    BY <1>4
  <2> QED
    BY <1>3, <1>4, <2>1, Zenon DEF Silent
<1>8. state \in {"running"} \cup Completed /\ jobs[t] \notin Completed
  BY DEF Active, Completed
<1>9. \A u \in Transfer : NewsComing(u) => NewsComing(u)'
  BY <1>5, <1>6, <1>8 DEF NewsComing
<1>10. what = "progress" \/ NewsComing(t)'
  BY <1>5, <1>6 DEF NewsComing
<1>11. ViewTypes'
  <2>1. state \in {"none"} \cup Active \cup Completed
    BY <1>8 DEF Active
  <2> QED
    BY <1>1, <1>2, <1>4, <2>1 DEF ViewTypes
<1>12. BusFits'
  <2>1. state \notin {"none", "queued"} /\ (what \in Completed => what = state)
    BY <1>8 DEF Completed
  <2>2. \A i \in 1 .. Len(bus) : bus[i].id = t => state \notin Completed \/ Heard(t, state)'
    BY <1>6, <1>8 DEF Completed
  <2>3. ASSUME NEW i \in 1 .. Len(bus'), NEW u, u = bus'[i].id, NEW w, w = jobs'[u], w \in Completed
        PROVE  Heard(u, w)'
    <3>1. CASE u = t
      <4>1. w = state
        BY <1>5, <2>3, <3>1
      <4>2. w = what
        BY <2>3, <4>1 DEF Completed
      <4> QED
        BY <1>6, <3>1, <4>2
    <3>2. CASE u # t
      <4>1. i \in 1 .. Len(bus) /\ bus'[i] = bus[i] /\ u \in Transfer
        BY <1>3, <1>4, <2>3, <3>2
      <4>2. w = jobs[u]
        BY <1>5, <2>3, <3>2, <4>1
      <4> QED
        BY <1>2, <1>6, <2>3, <4>1, <4>2 DEF BusFits
    <3> QED
      BY <3>1, <3>2
  <2>4. \A i \in 1 .. Len(bus') :
         /\ jobs'[bus'[i].id] \notin {"none", "queued"}
         /\ bus'[i].what \in Completed =>
              /\ bus'[i].what = jobs'[bus'[i].id]
              /\ \A j \in 1 .. Len(bus') : j > i => bus'[j].id # bus'[i].id
    BY <1>2, <1>3, <1>4, <1>5, <1>8, <2>1 DEF BusFits
  <2> QED
    BY <2>3, <2>4 DEF BusFits
<1>13. AnswersFit'
  <2>1. state # "none"
    BY <1>8 DEF Completed
  <2>2. \A a \in answers : a.ids \subseteq Transfer
    BY <1>2 DEF ViewTypes, Answer
  <2> QED
    BY <1>1, <1>2, <1>5, <1>9, <1>10, <2>1, <2>2 DEF AnswersFit
<1>14. RowsFit'
  <2> SUFFICES ASSUME NEW u \in Rows
               PROVE  /\ jobs'[u] # "none"
                      /\ rows[u].state \in Completed => rows[u].state = jobs'[u] /\ Silent(u)'
                      /\ rows[u].state = "running" => jobs'[u] # "queued"
                      /\ rows[u].state # jobs'[u] => NewsComing(u)' \/ Overtaken(u)
    BY <1>1 DEF RowsFit, Overtaken
  <2>1. u \in Transfer
    BY DEF Rows
  <2>2. state # "none" /\ state # "queued"
    BY <1>8 DEF Completed
  <2>3. CASE u = t
    BY <1>2, <1>5, <1>8, <1>9, <1>10, <2>1, <2>2, <2>3 DEF RowsFit
  <2>4. CASE u # t
    BY <1>2, <1>5, <1>7, <1>9, <2>1, <2>4 DEF RowsFit
  <2> QED
    BY <2>3, <2>4
<1> QED
  BY <1>11, <1>12, <1>13, <1>14 DEF ViewInv

\* The handler of an event: the row follows it, and no news is lost but what
\* has reached the row.
LEMMA DeliverKeeps ==
  ASSUME ViewInv, Deliver
  PROVE  ViewInv'
<1>0. PICK e : e = Head(bus)
  OBVIOUS
<1>1. /\ bus # <<>> /\ bus' = Tail(bus) /\ jobs' = jobs /\ asked' = asked
      /\ answers' = {IF e.id \in a.ids THEN [a EXCEPT !.late = @ \cup {e.id}] ELSE a : a \in answers}
      /\ IF e.what = "progress" THEN ApplyProgressEvent(e.id) ELSE ApplyStateEvent(e.id, e.what)
  BY <1>0 DEF Deliver
<1>2. ViewTypes /\ BusFits /\ AnswersFit /\ RowsFit
  BY DEF ViewInv
<1>3. /\ e \in BusEvent /\ e = bus[1] /\ bus' \in Seq(BusEvent)
      /\ Len(bus) \in Nat /\ Len(bus) > 0 /\ Len(bus') = Len(bus) - 1
      /\ \A i \in 1 .. Len(bus) - 1 : bus'[i] = bus[i + 1]
  <2>1. bus \in Seq(BusEvent)
    BY <1>2 DEF ViewTypes
  <2> QED
    BY <1>0, <1>1, <2>1, BusTail
<1>4. e.id \in Transfer /\ e.what \in {"progress", "running"} \cup Completed
  BY <1>3 DEF BusEvent
<1>5. /\ jobs[e.id] \notin {"none", "queued"}
      /\ e.what \in Completed => e.what = jobs[e.id] /\ Silent(e.id)'
  <2>1. 1 \in 1 .. Len(bus)
    BY <1>3
  <2>2. \A i \in 1 .. Len(bus') : i + 1 \in 1 .. Len(bus) /\ i + 1 > 1 /\ bus'[i] = bus[i + 1]
    BY <1>3
  <2> QED
    BY <1>2, <1>3, <2>1, <2>2 DEF BusFits, Silent
<1>6. \A u, w : Heard(u, w) => Heard(u, w)' \/ (u = e.id /\ w = e.what)
  <2> SUFFICES ASSUME NEW u, NEW w, NEW i \in 1 .. Len(bus),
                      bus[i].id = u, bus[i].what = w, ~(u = e.id /\ w = e.what)
               PROVE  \E j \in 1 .. Len(bus') : bus'[j].id = u /\ bus'[j].what = w
    BY DEF Heard
  <2>1. i # 1
    BY <1>3
  <2>2. i - 1 \in 1 .. Len(bus') /\ bus'[i - 1] = bus[i]
    BY <1>3, <2>1
  <2> QED
    BY <2>2
<1>7. \A u : Silent(u) => u # e.id /\ Silent(u)'
  BY <1>3 DEF Silent
<1>8. \A u : NewsComing(u) => NewsComing(u)' \/ (u = e.id /\ jobs[u] = e.what)
  BY <1>1, <1>6 DEF NewsComing
<1>9. /\ rows' \in [Transfer -> Row \cup {NoRow}]
      /\ \A t \in Rows' :
           \/ /\ t \in Rows /\ rows'[t] = rows[t]
              /\ t # e.id \/ e.what = "progress"
           \/ t = e.id /\ e.what = "progress" /\ rows'[t].late /\ rows'[t].state = "running"
           \/ /\ t = e.id /\ t \in Rows /\ rows'[t].state = e.what /\ rows'[t].late = rows[t].late
              /\ e.what # "progress"
  <2>1. CASE e.what = "progress"
    <3> DEFINE new == [state |-> "running", batch |-> {}, late |-> TRUE]
    <3>1. new \in Row /\ new.state = "running" /\ new.late
      BY DEF Row, Active
    <3>2. rows' = [rows EXCEPT ![e.id] = IF rows[e.id] # NoRow THEN rows[e.id] ELSE new]
      BY <1>1, <2>1 DEF ApplyProgressEvent, Upsert
    <3> HIDE DEF new
    <3> QED
      BY <1>2, <1>4, <2>1, <3>1, <3>2 DEF ViewTypes, Rows
  <2>2. CASE e.what # "progress"
    <3> DEFINE new == IF rows[e.id] = NoRow THEN NoRow ELSE [rows[e.id] EXCEPT !.state = e.what]
    <3>1. rows[e.id] \in Row \cup {NoRow} /\ e.what \in Active \cup Completed
      BY <1>2, <1>4, <2>2 DEF ViewTypes, Active
    <3>2. /\ new \in Row \cup {NoRow}
          /\ rows[e.id] = NoRow => new = NoRow
          /\ rows[e.id] # NoRow => new.state = e.what /\ new.late = rows[e.id].late
      BY <3>1 DEF Row
    <3>3. rows' = [rows EXCEPT ![e.id] = new]
      BY <1>1, <2>2 DEF ApplyStateEvent, Upsert
    <3> HIDE DEF new
    <3> QED
      BY <1>2, <1>4, <2>2, <3>2, <3>3 DEF ViewTypes, Rows
  <2> QED
    BY <2>1, <2>2
<1>10. \A b \in answers' : b \in Answer /\ \E a \in answers :
         b.ids = a.ids /\ a.late \subseteq b.late /\ (e.id \in b.ids => e.id \in b.late)
  <2> SUFFICES ASSUME NEW a \in answers
               PROVE  LET b == IF e.id \in a.ids THEN [a EXCEPT !.late = @ \cup {e.id}] ELSE a IN
                      b \in Answer /\ b.ids = a.ids /\ a.late \subseteq b.late
                      /\ (e.id \in b.ids => e.id \in b.late)
    BY <1>1
  <2>1. a \in Answer
    BY <1>2 DEF ViewTypes
  <2> QED
    BY <1>4, <2>1 DEF Answer
<1>11. ViewTypes'
  BY <1>1, <1>2, <1>3, <1>9, <1>10 DEF ViewTypes
<1>12. BusFits'
  <2>1. \A i \in 1 .. Len(bus') : i + 1 \in 1 .. Len(bus) /\ bus'[i] = bus[i + 1]
    BY <1>3
  <2>2. \A i \in 1 .. Len(bus') : jobs[bus'[i].id] \in Completed =>
          \E k \in 1 .. Len(bus') : bus'[k].id = bus'[i].id /\ bus'[k].what = jobs[bus'[i].id]
    <3> SUFFICES ASSUME NEW i \in 1 .. Len(bus'), NEW u, u = bus'[i].id, NEW w, w = jobs[u],
                        w \in Completed
                 PROVE  \E k \in 1 .. Len(bus') : bus'[k].id = u /\ bus'[k].what = w
      OBVIOUS
    <3>1. Heard(u, w)
      BY <1>2, <2>1 DEF BusFits
    <3>2. ~(u = e.id /\ w = e.what)
      BY <1>5 DEF Silent
    <3>3. Heard(u, w)'
      BY <1>6, <3>1, <3>2
    <3> QED
      BY <3>3, Zenon DEF Heard
  <2>3. \A i \in 1 .. Len(bus') :
         /\ jobs[bus'[i].id] \notin {"none", "queued"}
         /\ bus'[i].what \in Completed =>
              /\ bus'[i].what = jobs[bus'[i].id]
              /\ \A k \in 1 .. Len(bus') : k > i => bus'[k].id # bus'[i].id
    <3> SUFFICES ASSUME NEW i \in 1 .. Len(bus')
                 PROVE  /\ jobs[bus[i + 1].id] \notin {"none", "queued"}
                        /\ bus[i + 1].what \in Completed =>
                             /\ bus[i + 1].what = jobs[bus[i + 1].id]
                             /\ \A k \in 1 .. Len(bus') : k > i => bus[k + 1].id # bus[i + 1].id
      BY <2>1
    <3>1. \A k \in 1 .. Len(bus') : k + 1 \in 1 .. Len(bus) /\ (k > i => k + 1 > i + 1)
      BY <1>3
    <3> QED
      BY <1>2, <3>1 DEF BusFits
  <2>4. SUFFICES ASSUME jobs' = jobs
                 PROVE  \A i \in 1 .. Len(bus') :
                   /\ jobs[bus'[i].id] \notin {"none", "queued"}
                   /\ bus'[i].what \in Completed =>
                        /\ bus'[i].what = jobs[bus'[i].id]
                        /\ \A k \in 1 .. Len(bus') : k > i => bus'[k].id # bus'[i].id
                   /\ jobs[bus'[i].id] \in Completed =>
                        \E k \in 1 .. Len(bus') : bus'[k].id = bus'[i].id /\ bus'[k].what = jobs[bus'[i].id]
    BY <1>1 DEF BusFits, Heard
  <2> QED
    BY <2>2, <2>3
<1>13. AnswersFit'
  BY <1>1, <1>2, <1>8, <1>10 DEF AnswersFit
<1>14. RowsFit'
  <2>0. jobs[e.id] \in {"running"} \cup Completed
    BY <1>2, <1>4, <1>5 DEF ViewTypes, Active
  <2>5. e.what # jobs[e.id] /\ jobs[e.id] # "running" => NewsComing(e.id)'
    <3>1. SUFFICES ASSUME e.what # jobs[e.id], jobs[e.id] # "running" PROVE NewsComing(e.id)'
      OBVIOUS
    <3>2. Heard(e.id, jobs[e.id])
      <4>1. 1 \in 1 .. Len(bus)
        BY <1>3
      <4> QED
        BY <1>2, <1>3, <2>0, <3>1, <4>1 DEF BusFits
    <3> QED
      BY <1>1, <1>6, <3>1, <3>2 DEF NewsComing
  <2> SUFFICES ASSUME NEW t \in Rows'
               PROVE  /\ jobs[t] # "none"
                      /\ rows'[t].state \in Completed => rows'[t].state = jobs[t] /\ Silent(t)'
                      /\ rows'[t].state = "running" => jobs[t] # "queued"
                      /\ rows'[t].state # jobs[t] =>
                           NewsComing(t)' \/ (rows'[t].late /\ rows'[t].state = "queued")
    BY <1>1 DEF RowsFit, Overtaken
  <2>1. CASE t \in Rows /\ rows'[t] = rows[t] /\ (t # e.id \/ e.what = "progress")
    <3>1. e.what = "progress" => jobs[t] # e.what
      BY <1>2, <2>1 DEF ViewTypes, Active, Completed, Rows
    <3> QED
      BY <1>2, <1>7, <1>8, <2>1, <3>1 DEF RowsFit, Overtaken
  <2>2. CASE t = e.id /\ e.what = "progress" /\ rows'[t].late /\ rows'[t].state = "running"
    <3>1. jobs[t] = "running" \/ (jobs[t] \in Completed /\ e.what # jobs[e.id])
      BY <2>0, <2>2 DEF Completed
    <3> QED
      BY <1>5, <2>2, <2>5, <3>1 DEF Completed
  <2>3. CASE /\ t = e.id /\ t \in Rows /\ rows'[t].state = e.what /\ rows'[t].late = rows[t].late
             /\ e.what # "progress"
    <3>1. \/ e.what \in Completed /\ e.what = jobs[t] /\ Silent(t)'
          \/ e.what = "running"
      BY <1>4, <1>5, <2>3
    <3> QED
      BY <1>5, <2>3, <2>5, <3>1 DEF Completed
  <2> QED
    BY <1>9, <2>1, <2>2, <2>3
<1> QED
  BY <1>11, <1>12, <1>13, <1>14 DEF ViewInv

\* "Clear completed" only takes rows away.
LEMMA ClearKeeps ==
  ASSUME ViewInv, ClearCompleted
  PROVE  ViewInv'
<1>1. /\ UNCHANGED <<jobs, bus, answers, asked>>
      /\ rows' = [t \in Transfer |->
                    IF rows[t] # NoRow /\ rows[t].state \in Completed THEN NoRow ELSE rows[t]]
  BY DEF ClearCompleted
<1>2. ViewTypes /\ BusFits /\ AnswersFit /\ RowsFit
  BY DEF ViewInv
<1>3. rows' \in [Transfer -> Row \cup {NoRow}] /\ \A t \in Rows' : t \in Rows /\ rows'[t] = rows[t]
  BY <1>1, <1>2 DEF ViewTypes, Rows
<1>4. \A t : NewsComing(t)' = NewsComing(t) /\ Silent(t)' = Silent(t)
  BY <1>1 DEF NewsComing, Heard, Silent
<1>5. RowsFit'
  BY <1>1, <1>2, <1>3, <1>4 DEF RowsFit, Overtaken
<1>6. AnswersFit'
  BY <1>1, <1>2, <1>4 DEF AnswersFit
<1> QED
  BY <1>1, <1>2, <1>3, <1>5, <1>6 DEF ViewInv, ViewTypes, BusFits, Heard

LEMMA ViewStep == ViewInv /\ [TransferViewNext]_transferVars => ViewInv'
<1> SUFFICES ASSUME ViewInv, [TransferViewNext]_transferVars PROVE ViewInv'
  OBVIOUS
<1>1. CASE \E s \in SUBSET Transfer \ {{}}, rejected \in BOOLEAN :
             \/ FileDownload(s, rejected) \/ HandleDownload(s, rejected)
             \/ HandleUpload(s, rejected) \/ HandleDrop(s, rejected)
  BY <1>1, StartKeeps DEF FileDownload, HandleDownload, HandleUpload, HandleDrop
<1>2. CASE \E a \in answers : SeedTransfers(a)
  BY <1>2, SeedKeeps
<1>3. CASE \E t \in Transfer, new \in Transfer : Retry(t, new)
  <2>1. PICK new \in Transfer : Start({new}, TRUE, "view")
    BY <1>3 DEF Retry
  <2> QED
    BY <2>1, StartKeeps
<1>4. CASE \E t \in Transfer : JobRuns(t) \/ JobProgresses(t)
  BY <1>4, AnnounceKeeps DEF JobRuns, JobProgresses, Active
<1>5. CASE \E t \in Transfer : JobEnds(t)
  <2>1. PICK t \in Transfer, end \in {"done", "failed", "canceled"} :
          jobs[t] = "running" /\ Announce(t, end, end)
    BY <1>5 DEF JobEnds
  <2> QED
    BY <2>1, AnnounceKeeps DEF Active, Completed
<1>6. CASE (\E t \in Transfer : Cancel(t)) \/ CancelAll
  <2>1. /\ UNCHANGED <<jobs, bus, answers, rows>>
        /\ asked' \subseteq asked \cup Transfer
    <3>1. \A list \in Lists : list \subseteq Transfer
      BY DEF Lists, TransferManager, ActivityCenter, Rows
    <3>2. CASE \E t \in Transfer : Cancel(t)
      BY <3>2 DEF Cancel, Cancels
    <3>3. CASE CancelAll
      <4>1. PICK list \in Lists : \E g \in GroupByBatch(list) :
              Cancels({t \in g : rows[t].state \in Active})
        BY <3>3 DEF CancelAll
      <4>2. \A g \in GroupByBatch(list) : g \subseteq list
        BY DEF GroupByBatch
      <4> QED
        BY <3>1, <4>1, <4>2 DEF Cancels
    <3> QED
      BY <1>6, <3>2, <3>3
  <2> QED
    BY <2>1, SameRows DEF ViewInv, ViewTypes
<1>7. CASE Deliver
  BY <1>7, DeliverKeeps
<1>8. CASE ClearCompleted
  BY <1>8, ClearKeeps
<1>9. CASE TogglePanel \/ SetMinimized \/ ToggleActivityCenter \/ UNCHANGED transferVars
  BY <1>9, SameRows DEF TogglePanel, SetMinimized, ToggleActivityCenter, transferVars, ViewInv, ViewTypes
<1> QED
  BY <1>1, <1>2, <1>3, <1>4, <1>5, <1>6, <1>7, <1>8, <1>9 DEF TransferViewNext

LEMMA InvRowsAgree == ViewInv => RowsAgree
<1> SUFFICES ASSUME ViewInv PROVE RowsAgree
  OBVIOUS
<1>1. ViewTypes /\ BusFits /\ AnswersFit /\ RowsFit
  BY DEF ViewInv
<1>2. RowsDoNotRunAhead
  BY <1>1 DEF RowsFit, RowsDoNotRunAhead
<1>3. \A t \in Rows : rows[t].state \in Active \cup Completed /\ jobs[t] \in {"none"} \cup Active \cup Completed
  BY <1>1 DEF ViewTypes, Rows, Row
<1>4. ASSUME NEW t \in Rows, ~Pending(t), ~Overtaken(t)
      PROVE  rows[t].state = jobs[t]
  <2>1. \A w : ~Heard(t, w)
    <3>1. \A i \in 1 .. Len(bus) : i \in DOMAIN bus
      BY <1>1 DEF ViewTypes
    <3> QED
      BY <1>4, <3>1 DEF Pending, Heard
  <2>2. rows[t].state # jobs[t] => jobs[t] \notin {"running"} \cup Completed
    BY <1>1, <1>4, <2>1 DEF RowsFit, NewsComing
  <2> QED
    BY <1>1, <1>3, <2>2 DEF RowsFit, Active
<1>5. (\A t \in Rows : ~Pending(t) /\ ~Overtaken(t) /\ jobs[t] \in Completed) => ActivityChip = "idle"
  BY <1>4 DEF ActivityChip, Active, Completed
<1> QED
  BY <1>2, <1>4, <1>5 DEF RowsAgree, SettledRowsAgree

\* For any transfers, however their events and answers overtake each other:
\* no row runs ahead of the backend, and as soon as nothing is under way every
\* row agrees with it, save one that its own late answer has put back to
\* "queued" (store/transfers.ts, query/client.ts).
THEOREM RowsFollowTheBackend == TransferViewSpec => []RowsAgree
<1>1. TransferViewInit => ViewInv
  BY DEF TransferViewInit, ViewInv, ViewTypes, BusFits, AnswersFit, RowsFit, Rows, NoRow
<1>2. ViewInv /\ [TransferViewNext]_transferVars => ViewInv'
  BY ViewStep
<1>3. ViewInv => RowsAgree
  BY InvRowsAgree
<1> QED
  BY <1>1, <1>2, <1>3, PTL DEF TransferViewSpec

-----------------------------------------------------------------------------
(* The store of locks.                                                     *)

Known == {l.id : l \in locks}

\* An event of the operation o is under way.
Coming(o, what) == \E i \in 1 .. Len(lockBus) : lockBus[i].op = o /\ lockBus[i].what = what

\* The operations, the events about them, and what the store has of them.  A
\* release is the last event of its operation; whoever has a lock in the
\* store, or is about to have one, and is over has its release under way.
LockTypes ==
  /\ held \subseteq Op /\ over \subseteq Op /\ held \cap over = {}
  /\ lockBus \in Seq([what : {"acquired", "released"}, op : Op])

EventsFit ==
  \A i \in 1 .. Len(lockBus) :
    /\ lockBus[i].what = "acquired" => lockBus[i].op \in Announced \cap (held \cup over)
    /\ lockBus[i].what = "released" =>
         /\ lockBus[i].op \in over
         /\ \A j \in 1 .. Len(lockBus) : j > i => lockBus[j].op # lockBus[i].op

StoreFits ==
  /\ Known \subseteq Announced \cap (held \cup over)
  /\ \A o \in held \cap Announced : o \in Known \/ Coming(o, "acquired")
  /\ \A o \in over : o \in Known \/ Coming(o, "acquired") => Coming(o, "released")

LockInv == LockTypes /\ EventsFit /\ StoreFits

LEMMA AcquireKeeps ==
  ASSUME LockInv, NEW o \in Op, AnnounceLock(o)
  PROVE  LockInv'
<1> USE LockMenuAssumption
<1>1. LockTypes /\ EventsFit /\ StoreFits
  BY DEF LockInv
<1>2. /\ o \notin held \cup over /\ held' = held \cup {o} /\ over' = over
      /\ locks' = locks /\ Known' = Known
  BY DEF AnnounceLock, Known
<1>3. CASE o \notin Announced
  <2>1. lockBus' = lockBus
    BY <1>3 DEF AnnounceLock
  <2> QED
    BY <1>1, <1>2, <1>3, <2>1 DEF LockInv, LockTypes, EventsFit, StoreFits, Coming
<1>4. CASE o \in Announced
  <2> DEFINE e == [what |-> "acquired", op |-> o]
  <2>1. lockBus' = Append(lockBus, e) /\ e \in [what : {"acquired", "released"}, op : Op]
    BY <1>4 DEF AnnounceLock
  <2>2. e.what = "acquired" /\ e.op = o
    OBVIOUS
  <2> HIDE DEF e
  <2>3. /\ lockBus' \in Seq([what : {"acquired", "released"}, op : Op])
        /\ Len(lockBus) \in Nat /\ Len(lockBus') = Len(lockBus) + 1
        /\ \A i \in 1 .. Len(lockBus) : lockBus'[i] = lockBus[i]
        /\ lockBus'[Len(lockBus) + 1] = e
    BY <1>1, <2>1, BusAppend DEF LockTypes
  <2>4. LockTypes'
    BY <1>1, <1>2, <2>3 DEF LockTypes
  <2>5. EventsFit'
    BY <1>1, <1>2, <1>4, <2>2, <2>3 DEF EventsFit
  <2>6. StoreFits'
    BY <1>1, <1>2, <2>2, <2>3 DEF StoreFits, Coming
  <2> QED
    BY <2>4, <2>5, <2>6 DEF LockInv
<1> QED
  BY <1>3, <1>4

LEMMA ReleaseKeeps ==
  ASSUME LockInv, NEW o \in Op, OperationEnds(o)
  PROVE  LockInv'
<1>1. LockTypes /\ EventsFit /\ StoreFits
  BY DEF LockInv
<1>2. /\ o \in held /\ held' = held \ {o} /\ over' = over \cup {o}
      /\ locks' = locks /\ Known' = Known
  BY DEF OperationEnds, Known
<1> DEFINE e == [what |-> "released", op |-> o]
<1>3. lockBus' = Append(lockBus, e) /\ e \in [what : {"acquired", "released"}, op : Op]
  BY DEF OperationEnds
<1>4. e.what = "released" /\ e.op = o
  OBVIOUS
<1> HIDE DEF e
<1>5. /\ lockBus' \in Seq([what : {"acquired", "released"}, op : Op])
      /\ Len(lockBus) \in Nat /\ Len(lockBus') = Len(lockBus) + 1
      /\ \A i \in 1 .. Len(lockBus) : lockBus'[i] = lockBus[i]
      /\ lockBus'[Len(lockBus) + 1] = e
  BY <1>1, <1>3, BusAppend DEF LockTypes
<1>6. LockTypes'
  BY <1>1, <1>2, <1>5 DEF LockTypes
<1>7. EventsFit'
  BY <1>1, <1>2, <1>4, <1>5 DEF EventsFit, LockTypes
<1>8. StoreFits'
  BY <1>1, <1>2, <1>4, <1>5 DEF StoreFits, Coming
<1> QED
  BY <1>6, <1>7, <1>8 DEF LockInv

LEMMA DeliverLockKeeps ==
  ASSUME LockInv, DeliverLock
  PROVE  LockInv'
<1>1. LockTypes /\ EventsFit /\ StoreFits
  BY DEF LockInv
<1> DEFINE e == Head(lockBus)
           Event == [what : {"acquired", "released"}, op : Op]
<1>2. /\ lockBus # <<>> /\ lockBus' = Tail(lockBus) /\ held' = held /\ over' = over
      /\ locks' = IF e.what = "acquired" THEN AddLock(e.op) ELSE RemoveLock(e.op)
  BY DEF DeliverLock
<1>3. /\ e \in Event /\ e = lockBus[1] /\ lockBus' \in Seq(Event)
      /\ Len(lockBus) \in Nat /\ Len(lockBus) > 0 /\ Len(lockBus') = Len(lockBus) - 1
      /\ \A i \in 1 .. Len(lockBus) - 1 : lockBus'[i] = lockBus[i + 1]
  <2>1. lockBus \in Seq(Event)
    BY <1>1 DEF LockTypes
  <2> HIDE DEF Event
  <2>2. /\ Head(lockBus) \in Event /\ Head(lockBus) = lockBus[1] /\ Tail(lockBus) \in Seq(Event)
        /\ Len(lockBus) \in Nat /\ Len(lockBus) > 0 /\ Len(Tail(lockBus)) = Len(lockBus) - 1
        /\ \A i \in 1 .. Len(lockBus) - 1 : Tail(lockBus)[i] = lockBus[i + 1]
    BY <1>2, <2>1, BusTail
  <2> QED
    BY <1>2, <2>2
<1>4. Known' = IF e.what = "acquired" THEN Known \cup {e.op} ELSE Known \ {e.op}
  <2> HIDE DEF e
  <2>1. {l.id : l \in AddLock(e.op)} = Known \cup {e.op}
    <3> DEFINE new == [id |-> e.op, resource |-> PayloadResource]
    <3>1. new.id = e.op
      OBVIOUS
    <3>2. AddLock(e.op) = IF e.op \in Known THEN locks ELSE locks \cup {new}
      BY DEF Known, AddLock
    <3> HIDE DEF new
    <3>3. {l.id : l \in locks \cup {new}} = Known \cup {e.op}
      BY <3>1 DEF Known
    <3> QED
      BY <3>2, <3>3 DEF Known
  <2>2. {l.id : l \in RemoveLock(e.op)} = Known \ {e.op}
    BY DEF Known, RemoveLock
  <2>3. Known' = {l.id : l \in locks'}
    BY DEF Known
  <2> QED
    BY <1>2, <2>1, <2>2, <2>3
<1> HIDE DEF e
<1>5. LockTypes'
  BY <1>1, <1>2, <1>3 DEF LockTypes
<1>6. EventsFit'
  BY <1>1, <1>2, <1>3 DEF EventsFit
<1>7. \A o, w : Coming(o, w) => Coming(o, w)' \/ (o = e.op /\ w = e.what)
  <2> SUFFICES ASSUME NEW o, NEW w, NEW i \in 1 .. Len(lockBus),
                      lockBus[i].op = o, lockBus[i].what = w, ~(o = e.op /\ w = e.what)
               PROVE  \E j \in 1 .. Len(lockBus') : lockBus'[j].op = o /\ lockBus'[j].what = w
    BY DEF Coming
  <2>1. i # 1
    BY <1>3
  <2>2. i - 1 \in 1 .. Len(lockBus') /\ lockBus'[i - 1] = lockBus[i]
    BY <1>3, <2>1
  <2> QED
    BY <2>2
<1>8. \A o, w : Coming(o, w)' => Coming(o, w) /\ (e.what = "released" => o # e.op)
  BY <1>1, <1>3 DEF Coming, EventsFit
<1>9. /\ e.what = "acquired" => e.op \in Announced \cap (held \cup over)
      /\ e.what = "released" => e.op \in over
      /\ Coming(e.op, e.what)
  BY <1>1, <1>3 DEF EventsFit, Coming
<1>10. StoreFits'
  <2>1. e.what \in {"acquired", "released"}
    BY <1>3
  <2> QED
    BY <1>1, <1>2, <1>4, <1>7, <1>8, <1>9, <2>1 DEF StoreFits, LockTypes
<1> QED
  BY <1>5, <1>6, <1>10 DEF LockInv

\* What the backend and the webview do keeps them.
LEMMA LockStep == LockInv /\ [LockMenuNext]_lockMenuVars => LockInv'
<1> SUFFICES ASSUME LockInv, [LockMenuNext]_lockMenuVars PROVE LockInv'
  OBVIOUS
<1>1. CASE DeliverLock
  BY <1>1, DeliverLockKeeps
<1>2. CASE ResetBoundary \/ LeaveList \/ ReturnToList \/ UNCHANGED lockMenuVars
  <2>1. UNCHANGED <<held, over, lockBus, locks>>
    BY <1>2 DEF ResetBoundary, LeaveList, ReturnToList, lockMenuVars
  <2> QED
    BY <2>1 DEF LockInv, LockTypes, EventsFit, StoreFits, Known, Coming
<1>3. CASE \E o \in Op : FileContextMenu(o) \/ BackendOperation(o) \/ OperationEnds(o)
  BY <1>3, AcquireKeeps, ReleaseKeeps DEF FileContextMenu, BackendOperation
<1> QED
  BY <1>1, <1>2, <1>3 DEF LockMenuNext

\* For any operations, and however late the events come: a store that has
\* been told everything holds the locks that were announced and are held, and
\* no other (store/locks.ts, query/client.ts).
THEOREM StoreMirrorsLocks == LockMenuSpec => []QuietStoreMirrorsLocks
<1>1. LockMenuInit => LockInv
  BY DEF LockMenuInit, LockInv, LockTypes, EventsFit, StoreFits, Known, Coming
<1>2. LockInv /\ [LockMenuNext]_lockMenuVars => LockInv'
  BY LockStep
<1>3. LockInv => QuietStoreMirrorsLocks
  <2> SUFFICES ASSUME LockInv, lockBus = <<>> PROVE Known = held \cap Announced
    BY DEF QuietStoreMirrorsLocks, Known
  <2>1. \A o, w : ~Coming(o, w)
    BY DEF Coming
  <2> QED
    BY <2>1 DEF LockInv, StoreFits
<1> QED
  BY <1>1, <1>2, <1>3, PTL DEF LockMenuSpec

-----------------------------------------------------------------------------
(* The dialog of a bulk download.                                          *)

\* A command that has not asked yet is undecided: what strengthens
\* NobodyWaitsForever, with the types, to an invariant.
UnaskedAreUndecided ==
  \A c \in Command : downloads[c].phase = "none" => downloads[c].decision = "none"

BulkInv == BulkTypeOK /\ UnaskedAreUndecided /\ NobodyWaitsForever

DownloadState ==
  [phase : {"none", "listing", "listed", "started", "empty", "dropped"},
   files : 0 .. MaxFiles, failed : BOOLEAN,
   decision : {"none", "confirmed", "canceled"}, shown : Estimate \cup {Counting}]

\* Answering the request that is shown leaves every command a command's
\* state, decides that one, and changes no phase.
LEMMA ResolveDecides ==
  ASSUME BulkTypeOK, NEW how \in {"confirmed", "canceled"}
  PROVE  /\ \A c \in Command :
              /\ Resolve(how)[c] \in DownloadState
              /\ Resolve(how)[c].phase = downloads[c].phase
              /\ Resolve(how)[c].decision = IF c = dialog.of THEN how ELSE downloads[c].decision
         /\ Resolve(how) = [c \in Command |-> Resolve(how)[c]]
<1>1. SUFFICES ASSUME NEW c \in Command
      PROVE  LET r == IF c = dialog.of
                      THEN [downloads[c] EXCEPT !.decision = how, !.shown = dialog.estimate]
                      ELSE downloads[c]
             IN /\ r \in DownloadState
                /\ r.phase = downloads[c].phase
                /\ r.decision = IF c = dialog.of THEN how ELSE downloads[c].decision
  BY DEF Resolve
<1>2. downloads[c] \in DownloadState /\ dialog.estimate \in Estimate \cup {Counting}
  BY DEF BulkTypeOK, DownloadState
<1> QED
  BY <1>2 DEF DownloadState

LEMMA ClosedIsADialog ==
  Closed \in [of : Command \cup {Nobody}, estimate : Estimate \cup {Counting}, error : BOOLEAN]
BY DEF Closed

\* Closing the dialog with a decision keeps the invariant.
LEMMA CloseKeeps ==
  ASSUME BulkInv, NEW how \in {"confirmed", "canceled"}, dialog # Closed, Close(how)
  PROVE  BulkInv'
<1> USE BulkAssumption
<1>1. BulkTypeOK /\ UnaskedAreUndecided /\ NobodyWaitsForever
  BY DEF BulkInv
<1>2. dialog.of \in Command
  BY <1>1 DEF BulkTypeOK
<1>3. dialog' = Closed /\ downloads' = Resolve(how)
  BY DEF Close
<1>4. BulkTypeOK'
  <2> DEFINE resolved == Resolve(how)
  <2>1. downloads' = resolved /\ resolved \in [Command -> DownloadState]
    BY <1>1, <1>3, ResolveDecides
  <2> HIDE DEF resolved
  <2> QED
    BY <1>3, <2>1, ClosedIsADialog, Zenon DEF BulkTypeOK, DownloadState
<1>5. UnaskedAreUndecided'
  BY <1>1, <1>2, <1>3, ResolveDecides DEF UnaskedAreUndecided, NobodyWaitsForever
<1>6. NobodyWaitsForever'
  BY <1>1, <1>2, <1>3, ResolveDecides DEF NobodyWaitsForever, Closed
<1> QED
  BY <1>4, <1>5, <1>6 DEF BulkInv

\* A new request keeps it: the one that was shown is answered no.
LEMMA RequestKeeps ==
  ASSUME BulkInv, NEW c \in Command, Request(c)
  PROVE  BulkInv'
<1> USE BulkAssumption
<1>1. BulkTypeOK /\ UnaskedAreUndecided /\ NobodyWaitsForever
  BY DEF BulkInv
<1>2. /\ downloads[c].phase = "none" /\ dialog.of # c /\ downloads[c].decision = "none"
  BY <1>1 DEF Request, NobodyWaitsForever, UnaskedAreUndecided
<1>3. dialog' = [of |-> c, estimate |-> Counting, error |-> FALSE]
  BY DEF Request, Closed
<1>4. /\ downloads' \in [Command -> DownloadState]
      /\ \A d \in Command :
           /\ downloads'[d].phase = IF d = c THEN "listing" ELSE downloads[d].phase
           /\ downloads'[d].decision = IF d = dialog.of THEN "canceled" ELSE downloads[d].decision
  <2> DEFINE resolved == Resolve("canceled")
  <2>1. downloads' = [resolved EXCEPT ![c].phase = "listing"]
    BY DEF Request
  <2>2. /\ \A d \in Command :
             /\ resolved[d] \in DownloadState
             /\ resolved[d].phase = downloads[d].phase
             /\ resolved[d].decision = IF d = dialog.of THEN "canceled" ELSE downloads[d].decision
        /\ resolved = [d \in Command |-> resolved[d]]
    BY <1>1, ResolveDecides
  <2>3. resolved \in [Command -> DownloadState]
    BY <2>2, Zenon
  <2> HIDE DEF resolved
  <2> QED
    BY <2>1, <2>2, <2>3 DEF DownloadState
<1>5. BulkTypeOK'
  <2>1. /\ dialog' \in [of : Command \cup {Nobody}, estimate : Estimate \cup {Counting}, error : BOOLEAN]
        /\ dialog'.of = c
    BY <1>3
  <2> QED
    BY <1>4, <2>1 DEF BulkTypeOK, DownloadState
<1>6. UnaskedAreUndecided'
  BY <1>1, <1>4 DEF UnaskedAreUndecided, NobodyWaitsForever
<1>7. NobodyWaitsForever'
  BY <1>1, <1>2, <1>3, <1>4 DEF NobodyWaitsForever
<1> QED
  BY <1>5, <1>6, <1>7 DEF BulkInv

\* Listing, and acting on the decision, keep it: neither asks nor answers.
LEMMA ListingKeeps ==
  ASSUME BulkInv, NEW c \in Command, ListPage(c) \/ Listed(c) \/ Decided(c)
  PROVE  BulkInv'
<1> USE BulkAssumption
<1>1. BulkTypeOK /\ UnaskedAreUndecided /\ NobodyWaitsForever
  BY DEF BulkInv
<1>2. CASE ListPage(c)
  <2>1. BulkTypeOK'
    BY <1>1, <1>2, SMTT(20) DEF BulkTypeOK, ListPage
  <2>2. /\ dialog' = dialog
        /\ \A d \in Command : downloads'[d].phase = downloads[d].phase /\ downloads'[d].decision = downloads[d].decision
    BY <1>1, <1>2 DEF BulkTypeOK, ListPage
  <2> QED
    BY <1>1, <2>1, <2>2 DEF BulkInv, UnaskedAreUndecided, NobodyWaitsForever
<1>3. CASE Listed(c)
  <2>1. PICK failed \in BOOLEAN :
          /\ downloads' = [downloads EXCEPT ![c].phase = "listed", ![c].failed = failed]
          /\ dialog' = Update([of |-> c, files |-> downloads[c].files], failed)
    BY <1>3 DEF Listed
  <2>2. [of |-> c, files |-> downloads[c].files] \in Estimate
    BY <1>1 DEF BulkTypeOK, Estimate
  <2>3. /\ dialog' \in [of : Command \cup {Nobody}, estimate : Estimate \cup {Counting}, error : BOOLEAN]
        /\ dialog'.of = dialog.of
        /\ dialog'.of = Nobody => dialog' = Closed
    BY <1>1, <2>1, <2>2 DEF BulkTypeOK, Update
  <2>4. BulkTypeOK'
    <3> DEFINE new == [downloads[c] EXCEPT !.phase = "listed", !.failed = failed]
    <3>1. downloads \in [Command -> DownloadState] /\ new \in DownloadState
      BY <1>1 DEF BulkTypeOK, DownloadState
    <3>2. downloads' = [downloads EXCEPT ![c] = new]
      BY <2>1, <3>1, Zenon
    <3> HIDE DEF new
    <3>3. downloads' \in [Command -> DownloadState]
      BY <3>1, <3>2
    <3> QED
      BY <2>3, <3>3 DEF BulkTypeOK, DownloadState
  <2>5. \A d \in Command :
          /\ downloads'[d].phase = IF d = c THEN "listed" ELSE downloads[d].phase
          /\ downloads'[d].decision = downloads[d].decision
    BY <1>1, <2>1 DEF BulkTypeOK
  <2>6. downloads[c].phase = "listing"
    BY <1>3 DEF Listed
  <2> QED
    BY <1>1, <2>3, <2>4, <2>5, <2>6 DEF BulkInv, UnaskedAreUndecided, NobodyWaitsForever
<1>4. CASE Decided(c)
  <2>1. PICK end \in {"dropped", "empty", "started"} :
          downloads' = [downloads EXCEPT ![c].phase = end]
    BY <1>4 DEF Decided
  <2>2. dialog' = dialog /\ downloads[c].phase = "listed" /\ downloads[c].decision # "none"
    BY <1>4 DEF Decided
  <2>3. BulkTypeOK'
    BY <1>1, <2>1, <2>2, SMTT(20) DEF BulkTypeOK
  <2>4. \A d \in Command :
          /\ downloads'[d].phase = IF d = c THEN end ELSE downloads[d].phase
          /\ downloads'[d].decision = downloads[d].decision
    BY <1>1, <2>1 DEF BulkTypeOK
  <2> QED
    BY <1>1, <2>2, <2>3, <2>4 DEF BulkInv, UnaskedAreUndecided, NobodyWaitsForever
<1> QED
  BY <1>2, <1>3, <1>4

\* However many runs of the Download command share the dialog, however their
\* listings end and whichever request replaces which, the undecided command
\* is the one whose request is shown, so none waits for an answer that
\* cannot come (BulkDownloadHost.tsx, commands/definitions/file.ts).
THEOREM BulkNobodyWaits == BulkSpec => [](BulkTypeOK /\ NobodyWaitsForever)
<1> USE BulkAssumption
<1>1. BulkInit => BulkInv
  BY DEF BulkInit, BulkInv, BulkTypeOK, UnaskedAreUndecided, NobodyWaitsForever, Closed, Counting,
         Estimate
<1>2. BulkInv /\ [BulkNext]_bulkVars => BulkInv'
  <2> SUFFICES ASSUME BulkInv, [BulkNext]_bulkVars PROVE BulkInv'
    OBVIOUS
  <2>1. CASE Confirm
    BY <2>1, CloseKeeps DEF Confirm
  <2>2. CASE CancelDialog
    BY <2>2, CloseKeeps DEF CancelDialog
  <2>3. CASE \E c \in Command : Request(c) \/ ListPage(c) \/ Listed(c) \/ Decided(c)
    BY <2>3, RequestKeeps, ListingKeeps
  <2>4. CASE UNCHANGED bulkVars
    BY <2>4 DEF bulkVars, BulkInv, BulkTypeOK, UnaskedAreUndecided, NobodyWaitsForever
  <2> QED
    BY <2>1, <2>2, <2>3, <2>4 DEF BulkNext
<1>3. BulkInv => BulkTypeOK /\ NobodyWaitsForever
  BY DEF BulkInv
<1> QED
  BY <1>1, <1>2, <1>3, PTL DEF BulkSpec

-----------------------------------------------------------------------------
(* The chip of the notices.                                                *)

ANotice == [at : Nat, severity : Severity, transfer : BOOLEAN, seen : BOOLEAN]

\* What the chip needs: a notice the center has not displayed is newer than
\* its last opening, and the clock does not run behind that.
UnseenAreNewer ==
  \A n \in notices : ~n.transfer /\ ~n.seen => n.at > lastSeen

NoticesInv ==
  /\ IsFiniteSet(notices)
  /\ \A n \in notices : n \in ANotice
  /\ clock \in Nat /\ lastSeen \in Nat /\ lastSeen <= clock
  /\ notesPane \in [open : {"list", "notifications", "activity"}, filter : {"all"} \cup Severity]
  /\ UnseenAreNewer

\* Displaying takes nothing away and adds nothing: it only marks notices as
\* seen; in the center, without a filter, all that the chip could count.
LEMMA DisplayedIsMarked ==
  ASSUME NEW among, IsFiniteSet(among), \A n \in among : n \in ANotice, NEW pane
  PROVE  /\ IsFiniteSet(Displayed(among, pane))
         /\ \A m \in Displayed(among, pane) :
              /\ m \in ANotice
              /\ \E n \in among :
                   /\ m.at = n.at /\ m.transfer = n.transfer
                   /\ ~m.seen => ~n.seen
                   /\ (pane.open = "notifications" /\ pane.filter = "all") => m.transfer \/ m.seen
<1> DEFINE Mark(n) ==
             [n EXCEPT !.seen = n.seen \/ (/\ pane.open = "notifications"
                                           /\ n \in NonTransferEntries(among)
                                           /\ MatchesSeverity(n, pane.filter))]
           marked == {Mark(n) : n \in among}
<1>1. Displayed(among, pane) = marked
  BY DEF Displayed
<1>2. IsFiniteSet(marked)
  <2> DEFINE f == [n \in among |-> Mark(n)]
  <2>1. f \in [among -> marked] /\ \A m \in marked : \E n \in among : f[n] = m
    OBVIOUS
  <2> HIDE DEF f, marked
  <2>2. f \in Surjection(among, marked)
    BY <2>1, Fun_IsSurj
  <2> QED
    BY <2>2, FS_Surjection
<1>3. ASSUME NEW n \in among
      PROVE  /\ Mark(n) \in ANotice
             /\ Mark(n).at = n.at /\ Mark(n).transfer = n.transfer
             /\ ~Mark(n).seen => ~n.seen
             /\ (pane.open = "notifications" /\ pane.filter = "all") => Mark(n).transfer \/ Mark(n).seen
  <2>1. n \in ANotice
    OBVIOUS
  <2>2. (pane.open = "notifications" /\ pane.filter = "all" /\ ~n.transfer)
          => (n \in NonTransferEntries(among) /\ MatchesSeverity(n, pane.filter))
    BY DEF NonTransferEntries, MatchesSeverity
  <2> DEFINE displayed == /\ pane.open = "notifications"
                          /\ n \in NonTransferEntries(among)
                          /\ MatchesSeverity(n, pane.filter)
  <2>3. (pane.open = "notifications" /\ pane.filter = "all" /\ ~n.transfer) => displayed
    BY <2>2
  <2>4. Mark(n) = [n EXCEPT !.seen = n.seen \/ displayed]
    OBVIOUS
  <2> HIDE DEF displayed, Mark
  <2> QED
    BY <2>1, <2>3, <2>4 DEF ANotice
<1> HIDE DEF Mark
<1> QED
  BY <1>1, <1>2, <1>3

\* A notice that is told now keeps the invariant, wherever it is shown.
LEMMA DispatchKeeps ==
  ASSUME NoticesInv, NEW severity \in Severity, NEW transfer \in BOOLEAN, NEW placement,
         Dispatch(NoticeNow(severity, transfer), placement)
  PROVE  NoticesInv'
<1> DEFINE new == NoticeNow(severity, transfer)
           more == notices \cup {new}
<1>1. new \in ANotice /\ new.at = clock + 1
  BY DEF NoticesInv, NoticeNow, ANotice
<1>2. new.at > lastSeen
  BY <1>1 DEF NoticesInv
<1>3. IsFiniteSet(more)
  BY FS_AddElement DEF NoticesInv
<1>4. \A n \in more : n \in ANotice /\ (~n.transfer /\ ~n.seen => n.at > lastSeen)
  BY <1>1, <1>2 DEF NoticesInv, UnseenAreNewer
<1>5. clock' = clock + 1 /\ notesPane' = notesPane /\ lastSeen' = lastSeen
  BY DEF Dispatch
<1>6. notices' = notices \/ notices' = Displayed(more, notesPane)
  BY DEF Dispatch
<1> HIDE DEF new, more
<1>7. CASE notices' = notices
  BY <1>5, <1>7 DEF NoticesInv, UnseenAreNewer
<1>8. CASE notices' = Displayed(more, notesPane)
  <2>1. IsFiniteSet(notices') /\ \A m \in notices' :
           m \in ANotice /\ \E n \in more : m.at = n.at /\ m.transfer = n.transfer /\ (~m.seen => ~n.seen)
    BY <1>3, <1>4, <1>8, DisplayedIsMarked
  <2>2. UnseenAreNewer'
    BY <1>4, <1>5, <2>1 DEF UnseenAreNewer
  <2> QED
    BY <1>5, <2>1, <2>2 DEF NoticesInv
<1> QED
  BY <1>6, <1>7, <1>8

\* Opening or closing the center keeps it: what opening leaves uncounted it
\* displays, for the filter starts at "all".
LEMMA ToggleKeeps ==
  ASSUME NoticesInv, ToggleNotificationsCenter
  PROVE  NoticesInv'
<1> DEFINE pane == Pane(IF notesPane.open = "notifications" THEN "list" ELSE "notifications")
<1>1. /\ notesPane' = pane /\ notices' = Displayed(notices, pane)
      /\ clock' = clock + 1
      /\ lastSeen' = IF notesPane.open = "notifications" THEN lastSeen ELSE clock + 1
  BY DEF ToggleNotificationsCenter
<1>2. /\ pane \in [open : {"list", "notifications", "activity"}, filter : {"all"} \cup Severity]
      /\ pane.filter = "all"
      /\ notesPane.open # "notifications" => pane.open = "notifications"
  BY DEF Pane
<1> HIDE DEF pane
<1>3. /\ IsFiniteSet(notices')
      /\ \A m \in notices' :
           /\ m \in ANotice
           /\ \E n \in notices :
                /\ m.at = n.at /\ m.transfer = n.transfer
                /\ ~m.seen => ~n.seen
                /\ (pane.open = "notifications" /\ pane.filter = "all") => m.transfer \/ m.seen
  BY <1>1, DisplayedIsMarked DEF NoticesInv
<1>4. UnseenAreNewer'
  BY <1>1, <1>2, <1>3 DEF NoticesInv, UnseenAreNewer
<1> QED
  BY <1>1, <1>2, <1>3, <1>4 DEF NoticesInv

\* So do the filters, which only display more.
LEMMA FilterKeeps ==
  ASSUME NoticesInv, NotificationsCenter
  PROVE  NoticesInv'
<1>1. PICK filter \in {"all"} \cup Severity :
        /\ notesPane' = [notesPane EXCEPT !.filter = filter]
        /\ notices' = Displayed(notices, notesPane')
  BY DEF NotificationsCenter
<1>2. clock' = clock /\ lastSeen' = lastSeen
  BY DEF NotificationsCenter
<1>3. notesPane' \in [open : {"list", "notifications", "activity"}, filter : {"all"} \cup Severity]
  BY <1>1 DEF NoticesInv
<1>4. /\ IsFiniteSet(notices')
      /\ \A m \in notices' :
           m \in ANotice /\ \E n \in notices : m.at = n.at /\ m.transfer = n.transfer /\ (~m.seen => ~n.seen)
  BY <1>1, DisplayedIsMarked DEF NoticesInv
<1>5. UnseenAreNewer'
  BY <1>2, <1>4 DEF NoticesInv, UnseenAreNewer
<1> QED
  BY <1>2, <1>3, <1>4, <1>5 DEF NoticesInv

\* And what takes notices away.
LEMMA FewerNotices ==
  ASSUME NoticesInv, notices' \subseteq notices,
         UNCHANGED <<clock, lastSeen, notesPane>>
  PROVE  NoticesInv'
<1>1. IsFiniteSet(notices')
  BY FS_Subset DEF NoticesInv
<1> QED
  BY <1>1 DEF NoticesInv, UnseenAreNewer

LEMMA PolicySeverity ==
  ASSUME NEW kind \in AppErrorKind, NEW context
  PROVE  Present(kind, context).severity \in Severity
BY DEF Present, AppErrorKind, Severity

\* The chip's number is at least that of the notices nobody has seen.
LEMMA ChipCountsUnseen == NoticesInv => UnseenIsCounted
<1> SUFFICES ASSUME NoticesInv PROVE UnseenIsCounted
  OBVIOUS
<1> DEFINE unseen == {n \in NonTransferEntries(notices) : ~n.seen}
           counted == {n \in NonTransferEntries(notices) : n.at > lastSeen}
<1>1. unseen \subseteq counted /\ counted \subseteq notices
  BY DEF NoticesInv, UnseenAreNewer, NonTransferEntries
<1>2. UnseenIsCounted <=> Cardinality(unseen) <= Cardinality(counted)
  BY DEF UnseenIsCounted, NotificationsChip
<1> HIDE DEF unseen, counted
<1>3. IsFiniteSet(counted)
  BY <1>1, FS_Subset DEF NoticesInv
<1>4. Cardinality(unseen) <= Cardinality(counted)
  BY <1>1, <1>3, FS_Subset
<1> QED
  BY <1>2, <1>4

\* However many errors and notices there are, and whatever opens, closes or
\* takes the pane or filters the center: the chip of the status bar counts
\* every notice the center has not displayed (store/notifications.ts).
THEOREM NoNoticePassesForSeen == NoticesSpec => []UnseenIsCounted
<1>1. NoticesInit => NoticesInv
  BY FS_EmptySet DEF NoticesInit, NoticesInv, UnseenAreNewer
<1>2. NoticesInv /\ [NoticesNext]_noticesVars => NoticesInv'
  <2> SUFFICES ASSUME NoticesInv, [NoticesNext]_noticesVars PROVE NoticesInv'
    OBVIOUS
  <2>1. CASE SurfaceError
    <3>1. PICK kind \in AppErrorKind, context \in Context, transfer \in BOOLEAN :
            Dispatch(NoticeNow(Present(kind, context).severity, transfer), Present(kind, context).placement)
      BY <2>1 DEF SurfaceError
    <3>2. Present(kind, context).severity \in Severity
      BY PolicySeverity
    <3> QED
      BY <3>1, <3>2, DispatchKeeps
  <2>2. CASE SurfaceUnknownError
    BY <2>2, DispatchKeeps DEF SurfaceUnknownError, Severity
  <2>3. CASE NotificationNew
    BY <2>3, DispatchKeeps DEF NotificationNew
  <2>4. CASE ToggleNotificationsCenter
    BY <2>4, ToggleKeeps
  <2>5. CASE ActivityTakesPane
    <3>1. notesPane' \in [open : {"list", "notifications", "activity"}, filter : {"all"} \cup Severity]
      BY <2>5 DEF ActivityTakesPane, Pane
    <3> QED
      BY <2>5, <3>1 DEF ActivityTakesPane, NoticesInv, UnseenAreNewer
  <2>6. CASE NotificationsCenter
    BY <2>6, FilterKeeps
  <2>7. CASE ClearAll
    BY <2>7, FewerNotices DEF ClearAll
  <2>8. CASE \E n \in notices : NotificationRow(n)
    BY <2>8, FewerNotices DEF NotificationRow
  <2>9. CASE \E at \in toasts : ToastItem(at)
    BY <2>9, FewerNotices DEF ToastItem
  <2>10. CASE UNCHANGED noticesVars
    BY <2>10 DEF noticesVars, NoticesInv, UnseenAreNewer
  <2> QED
    BY <2>1, <2>2, <2>3, <2>4, <2>5, <2>6, <2>7, <2>8, <2>9, <2>10, <2>10 DEF NoticesNext
<1>3. NoticesInv => UnseenIsCounted
  BY ChipCountsUnseen
<1> QED
  BY <1>1, <1>2, <1>3, PTL DEF NoticesSpec
-----------------------------------------------------------------------------
(* The four together.                                                      *)

\* The types of the transfers: those of the rows, and the panel's switches.
LEMMA ViewTypesAlways == TransferViewSpec => []TransferViewTypeOK
<1> DEFINE Switches ==
      panel \in [open : BOOLEAN, minimized : BOOLEAN, surfaced : BOOLEAN] /\ center \in BOOLEAN
<1>1. TransferViewInit => ViewInv /\ Switches
  <2>1. TransferViewInit => ViewInv
    BY DEF TransferViewInit, ViewInv, ViewTypes, BusFits, AnswersFit, RowsFit, Rows, NoRow
  <2>2. ASSUME TransferViewInit PROVE Switches
    <3>1. panel = [open |-> FALSE, minimized |-> FALSE, surfaced |-> FALSE] /\ center = FALSE
      BY <2>2, Zenon DEF TransferViewInit
    <3> QED
      BY <3>1
  <2> QED
    BY <2>1, <2>2
<1>2. Switches /\ [TransferViewNext]_transferVars => Switches'
  <2> SUFFICES ASSUME Switches, [TransferViewNext]_transferVars PROVE Switches'
    OBVIOUS
  <2>1. CASE UNCHANGED <<panel, center>>
    BY <2>1
  <2>2. ASSUME NEW s, NEW rejected, NEW by, Start(s, rejected, by)
        PROVE  UNCHANGED <<panel, center>>
    BY <2>2 DEF Start
  <2>3. CASE \E s \in SUBSET Transfer \ {{}}, rejected \in BOOLEAN :
               \/ FileDownload(s, rejected) \/ HandleDownload(s, rejected)
               \/ HandleUpload(s, rejected) \/ HandleDrop(s, rejected)
    BY <2>1, <2>2, <2>3 DEF FileDownload, HandleDownload, HandleUpload, HandleDrop
  <2>4. CASE \E t, new \in Transfer : Retry(t, new)
    BY <2>1, <2>2, <2>4 DEF Retry
  <2>5. CASE \E t \in Transfer : JobRuns(t) \/ JobProgresses(t) \/ JobEnds(t) \/ Cancel(t)
    BY <2>1, <2>5 DEF JobRuns, JobProgresses, JobEnds, Announce, Cancel, Cancels
  <2>6. CASE CancelAll \/ ClearCompleted
    BY <2>1, <2>6 DEF CancelAll, Cancels, ClearCompleted
  <2>10. CASE \E a \in answers : SeedTransfers(a)
    BY <2>10 DEF SeedTransfers, OpenPanel
  <2>7. CASE Deliver
    <3>1. center' = center /\ (panel' = panel \/ OpenPanelMinimized)
      BY <2>7 DEF Deliver
    <3>2. ASSUME NEW b \in BOOLEAN
          PROVE  [open |-> TRUE, minimized |-> b, surfaced |-> TRUE]
                   \in [open : BOOLEAN, minimized : BOOLEAN, surfaced : BOOLEAN]
      OBVIOUS
    <3>3. (panel.minimized \/ ~panel.open) \in BOOLEAN
      OBVIOUS
    <3> QED
      BY <3>1, <3>2, <3>3, Zenon DEF OpenPanelMinimized
  <2>8. CASE TogglePanel \/ SetMinimized \/ ToggleActivityCenter
    BY <2>8 DEF TogglePanel, SetMinimized, ToggleActivityCenter
  <2>9. CASE UNCHANGED transferVars
    BY <2>1, <2>9 DEF transferVars
  <2> QED
    BY <2>3, <2>4, <2>5, <2>6, <2>7, <2>8, <2>9, <2>10 DEF TransferViewNext
<1>3. ViewInv /\ [TransferViewNext]_transferVars => ViewInv'
  BY ViewStep
<1>4. ViewInv /\ Switches => TransferViewTypeOK
  BY DEF ViewInv, ViewTypes, BusEvent, TransferViewTypeOK
<1> HIDE DEF Switches
<1> QED
  BY <1>1, <1>2, <1>3, <1>4, PTL DEF TransferViewSpec

\* So are those of the menu: an operation in the store is one of the backend's,
\* and the list is rendered from a list that was shown, failed or away.
LEMMA MenuTypesAlways == LockMenuSpec => []LockMenuTypeOK
<1> DEFINE Painted == /\ \A l \in locks : l \in [id : Op, resource : Resource]
                      /\ scene \in {"shown", "failed", "away"}
<1>1. LockMenuInit => LockInv /\ Painted
  BY DEF LockMenuInit, LockInv, LockTypes, EventsFit, StoreFits, Known, Coming
<1>2. LockInv /\ [LockMenuNext]_lockMenuVars => LockInv'
  BY LockStep
<1>3. LockInv /\ Painted /\ [LockMenuNext]_lockMenuVars => Painted'
  <2> SUFFICES ASSUME LockInv, Painted, [LockMenuNext]_lockMenuVars PROVE Painted'
    OBVIOUS
  <2>1. ASSUME NEW old \in {"shown", "failed", "away"}, NEW among
        PROVE  Render(old, among) \in {"shown", "failed", "away"}
    BY DEF Render
  <2>2. CASE UNCHANGED <<locks, scene>>
    BY <2>2
  <2>3. CASE DeliverLock
    <3>1. PICK e : e = Head(lockBus)
      OBVIOUS
    <3>2. e.op \in Op
      <4>1. PICK E : E = [what : {"acquired", "released"}, op : Op]
        OBVIOUS
      <4>2. lockBus \in Seq(E) /\ lockBus # <<>>
        BY <2>3, <4>1 DEF DeliverLock, LockInv, LockTypes
      <4>3. e \in E
        BY <3>1, <4>2
      <4> QED
        BY <4>1, <4>3
    <3>3. PayloadResource \in Resource
      BY DEF PayloadResource, Resource
    <3>4. \A l \in locks' : l \in [id : Op, resource : Resource]
      BY <2>3, <3>1, <3>2, <3>3 DEF DeliverLock, AddLock, RemoveLock
    <3>5. scene' \in {"shown", "failed", "away"}
      BY <2>1, <2>3 DEF DeliverLock
    <3> QED
      BY <3>4, <3>5
  <2>4. CASE ResetBoundary \/ LeaveList \/ ReturnToList
    BY <2>1, <2>4 DEF ResetBoundary, LeaveList, ReturnToList
  <2>5. CASE \E o \in Op : FileContextMenu(o) \/ BackendOperation(o) \/ OperationEnds(o)
    BY <2>2, <2>5 DEF FileContextMenu, BackendOperation, AnnounceLock, OperationEnds
  <2> QED
    BY <2>2, <2>3, <2>4, <2>5 DEF LockMenuNext, lockMenuVars
<1>4. ASSUME LockInv, Painted PROVE LockMenuTypeOK
  <2>1. ASSUME NEW E, lockBus \in Seq(E), NEW i \in DOMAIN lockBus
        PROVE  lockBus[i] \in E
    BY <2>1
  <2>2. LockTypes
    BY <1>4 DEF LockInv
  <2>3. \A i \in DOMAIN lockBus : lockBus[i] \in [what : {"acquired", "released"}, op : Op]
    BY <2>1, <2>2, Zenon DEF LockTypes
  <2>4. held \in SUBSET Op /\ over \in SUBSET (Op \ held)
    BY <2>2 DEF LockTypes
  <2>5. locks \subseteq [id : Op, resource : Resource]
    BY <1>4
  <2> QED
    BY <1>4, <2>3, <2>4, <2>5, Zenon DEF LockMenuTypeOK
<1> HIDE DEF Painted
<1> QED
  BY <1>1, <1>2, <1>3, <1>4, PTL DEF LockMenuSpec

\* A notice that is told now, and what the center makes of the notices.
LEMMA NoticesTyped ==
  ASSUME NoticesTypeOK, clock < MaxClock, NEW severity \in Severity, NEW transfer \in BOOLEAN
  PROVE  NoticeNow(severity, transfer) \in Notice
BY NoticesAssumption DEF NoticesTypeOK, NoticeNow, Notice

LEMMA DisplayedTyped ==
  ASSUME NEW among, \A n \in among : n \in Notice, NEW pane
  PROVE  \A m \in Displayed(among, pane) : m \in Notice
<1> SUFFICES ASSUME NEW m \in Displayed(among, pane) PROVE m \in Notice
  OBVIOUS
<1> DEFINE Shown(n) == n.seen \/ (/\ pane.open = "notifications"
                                 /\ n \in NonTransferEntries(among)
                                 /\ MatchesSeverity(n, pane.filter))
<1>1. PICK n \in among : m = [n EXCEPT !.seen = Shown(n)]
  BY DEF Displayed
<1>2. n.seen \in BOOLEAN /\ n \in Notice
  BY DEF Notice
<1>3. Shown(n) \in BOOLEAN
  BY <1>2
<1> HIDE DEF Shown
<1> QED
  BY <1>1, <1>2, <1>3 DEF Notice

\* Every notice, toast and inline error has a stamp of its own, so there are
\* never more of them than the clock has told.
LEMMA NoticesTypesAlways == NoticesSpec => []NoticesTypeOK
<1> DEFINE Typed == NoticesTypeOK /\ inline <= clock
<1> USE NoticesAssumption
<1>1. NoticesInit => Typed
  BY DEF NoticesInit, NoticesTypeOK, Severity
<1>2. Typed /\ [NoticesNext]_noticesVars => Typed'
  <2> SUFFICES ASSUME Typed, [NoticesNext]_noticesVars PROVE Typed'
    OBVIOUS
  <2>1. ASSUME NEW severity \in Severity, NEW transfer \in BOOLEAN, NEW placement,
               Dispatch(NoticeNow(severity, transfer), placement)
        PROVE  Typed'
    <3>1. PICK n : n = NoticeNow(severity, transfer)
      OBVIOUS
    <3>2. n \in Notice /\ n.at = clock + 1
      BY <2>1, <3>1, NoticesTyped DEF Dispatch, NoticeNow
    <3>3. \A m \in notices' : m \in Notice
      <4>1. \A m \in notices \cup {n} : m \in Notice
        BY <3>2 DEF NoticesTypeOK
      <4> QED
        BY <2>1, <3>1, <4>1, DisplayedTyped DEF Dispatch
    <3>4. /\ clock < MaxClock /\ clock' = clock + 1 /\ (inline' = inline \/ inline' = inline + 1)
          /\ (toasts' = toasts \/ toasts' = toasts \cup {clock + 1})
          /\ notesPane' = notesPane /\ lastSeen' = lastSeen
      BY <2>1, <3>1, <3>2 DEF Dispatch
    <3>5. /\ inline \in 0 .. MaxClock /\ clock \in 0 .. MaxClock /\ inline <= clock
          /\ toasts \subseteq 1 .. MaxClock
      BY DEF NoticesTypeOK
    <3>6. /\ clock' \in 0 .. MaxClock /\ inline' \in 0 .. MaxClock /\ inline' <= clock'
          /\ clock + 1 \in 1 .. MaxClock
      BY <3>4, <3>5
    <3>7. toasts' \subseteq 1 .. MaxClock
      BY <3>4, <3>5, <3>6
    <3> QED
      BY <3>3, <3>4, <3>6, <3>7 DEF NoticesTypeOK
  <2>2. CASE SurfaceError \/ SurfaceUnknownError \/ NotificationNew
    <3>1. CASE SurfaceError
      <4>1. PICK kind \in AppErrorKind, context \in Context, transfer \in BOOLEAN :
              Dispatch(NoticeNow(Present(kind, context).severity, transfer), Present(kind, context).placement)
        BY <3>1 DEF SurfaceError
      <4> QED
        BY <2>1, <4>1, PolicySeverity
    <3>2. CASE SurfaceUnknownError
      BY <2>1, <3>2 DEF SurfaceUnknownError, Severity
    <3>3. CASE NotificationNew
      BY <2>1, <3>3 DEF NotificationNew
    <3> QED
      BY <2>2, <3>1, <3>2, <3>3
  <2>3. CASE ToggleNotificationsCenter
    <3>1. \A m \in notices' : m \in Notice
      BY <2>3, DisplayedTyped DEF ToggleNotificationsCenter, NoticesTypeOK
    <3>2. notesPane' \in [open : {"list", "notifications", "activity"}, filter : {"all"} \cup Severity]
      BY <2>3 DEF ToggleNotificationsCenter, Pane
    <3> QED
      BY <2>3, <3>1, <3>2 DEF ToggleNotificationsCenter, NoticesTypeOK
  <2>4. CASE ActivityTakesPane
    <3>1. notesPane' \in [open : {"list", "notifications", "activity"}, filter : {"all"} \cup Severity]
      BY <2>4 DEF ActivityTakesPane, Pane
    <3> QED
      BY <2>4, <3>1 DEF ActivityTakesPane, NoticesTypeOK
  <2>5. CASE NotificationsCenter
    <3>1. \A m \in notices' : m \in Notice
      BY <2>5, DisplayedTyped DEF NotificationsCenter, NoticesTypeOK
    <3>2. notesPane' \in [open : {"list", "notifications", "activity"}, filter : {"all"} \cup Severity]
      BY <2>5 DEF NotificationsCenter, NoticesTypeOK
    <3> QED
      BY <2>5, <3>1, <3>2 DEF NotificationsCenter, NoticesTypeOK
  <2>6. CASE ClearAll \/ (\E n \in notices : NotificationRow(n)) \/ \E at \in toasts : ToastItem(at)
    BY <2>6 DEF ClearAll, NotificationRow, ToastItem, NoticesTypeOK
  <2>7. CASE UNCHANGED noticesVars
    BY <2>7 DEF noticesVars, NoticesTypeOK
  <2> QED
    BY <2>2, <2>3, <2>4, <2>5, <2>6, <2>7 DEF NoticesNext
<1>3. Typed => NoticesTypeOK
  OBVIOUS
<1> HIDE DEF Typed
<1> QED
  BY <1>1, <1>2, <1>3, PTL DEF NoticesSpec

(***************************************************************************)
(* Run side by side, each of the four behaves as it does by itself: what   *)
(* is proved of one holds of the whole, and what a run of the whole finds  *)
(* is a behaviour of one.                                                  *)
(***************************************************************************)
THEOREM TransfersUiIsItsParts ==
  TransfersUiSpec => TransferViewSpec /\ BulkSpec /\ LockMenuSpec /\ NoticesSpec
<1>1. TransfersUiInit => TransferViewInit /\ BulkInit /\ LockMenuInit /\ NoticesInit
  BY DEF TransfersUiInit
<1>2. [TransfersUiNext]_<<part, transferVars, bulkVars, lockMenuVars, noticesVars>> =>
        /\ [TransferViewNext]_transferVars /\ [BulkNext]_bulkVars
        /\ [LockMenuNext]_lockMenuVars /\ [NoticesNext]_noticesVars
  BY DEF TransfersUiNext
<1> QED
  BY <1>1, <1>2, PTL DEF TransfersUiSpec, TransferViewSpec, BulkSpec, LockMenuSpec, NoticesSpec

\* Whichever of the four a behaviour of the run moves, its state keeps its type:
\* for any transfers, commands, operations and bounds.
THEOREM TransfersUiTypes == TransfersUiSpec => []TransfersUiTypeOK
<1>1. TransferViewTypeOK /\ BulkTypeOK /\ LockMenuTypeOK /\ NoticesTypeOK => TransfersUiTypeOK
  BY DEF TransfersUiTypeOK
<1> QED
  BY <1>1, TransfersUiIsItsParts, ViewTypesAlways, BulkNobodyWaits, MenuTypesAlways,
     NoticesTypesAlways, PTL

\* What the run of the four checks on a small instance, for every instance.  At
\* rest the rows are those of the backend except those a late answer has put
\* back to "queued", and the store has the locks that are announced and held:
\* a lock that is not announced is none of its business, as in RowsAgree and
\* QuietStoreMirrorsLocks.
THEOREM TransfersUiIsTrue ==
  TransfersUiSpec =>
    [](RowsAgree /\ NobodyWaitsForever /\ QuietStoreMirrorsLocks /\ UnseenIsCounted)
BY TransfersUiIsItsParts, RowsFollowTheBackend, BulkNobodyWaits, StoreMirrorsLocks,
   NoNoticePassesForSeen, PTL
=============================================================================
