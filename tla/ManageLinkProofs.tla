-------------------------- MODULE ManageLinkProofs --------------------------
(***************************************************************************)
(* What the links of a customer's bookings may do: proofs for any number   *)
(* of documents, bookings, slots and other customers.                      *)
(***************************************************************************)
EXTENDS ManageLink, TLAPS

-----------------------------------------------------------------------------
(* The inductive invariant, of the documents and of the server's rows.     *)

Page == [hash: Links \cup {None}, token: Links \cup {None}, shown: Seen \cup {None},
         notFound: BOOLEAN, confirmCancel: BOOLEAN, rescheduling: BOOLEAN,
         pick: Slots \cup {None}, op: Ops \cup {None},
         loads: SUBSET [id: Links, view: Seen \cup {None}]]

\* Whatever is asked or under way is about a booking that is shown, and nothing
\* is shown or loaded before an address is opened.
Ready(p) == /\ (p.op # None \/ p.confirmCancel \/ p.rescheduling) => p.shown # None
            /\ (p.shown # None \/ p.loads # {} \/ p.token # None) => p.hash # None

Formed(p) == Ready(p) /\ (p.hash # None => p.token # None)

PagesOK == page \in [Tabs -> Page] /\ \A t \in Tabs : Formed(page[t])

\* A booking that its customer moved is marked for good, which no other move takes back.
MovesAreMarked == \A b \in Bookings : moves[b] # 0 => booking[b].moved

RowsOK == /\ booking \in [Bookings -> Rows] /\ others \subseteq Slots /\ late \in BOOLEAN
          /\ moves \in [Bookings -> 0 .. 2]
          /\ MovesAreMarked /\ MovedOnce /\ SlotsApart

LinkInv == PagesOK /\ RowsOK

LEMMA InvImpliesType == LinkInv => TypeOK
  BY DEF LinkInv, PagesOK, RowsOK, TypeOK, Page, Formed, Ready

-----------------------------------------------------------------------------
(* The documents                                                           *)

\* Rendering keeps a document formed that has an address, or has none and never had.
LEMMA RenderedFormed ==
    ASSUME NEW p \in Page, Ready(p)
    PROVE  Rendered(p) \in Page /\ Formed(Rendered(p))
  <1>1. CASE p.token = p.hash
    BY <1>1 DEF Rendered, Formed
  <1>2. CASE p.token # p.hash
    <2>1. p.hash \in Links
      BY <1>2 DEF Page, Ready
    <2> DEFINE load == [id |-> p.hash, view |-> None]
               q == [p EXCEPT !.token = p.hash, !.loads = @ \cup {load}]
    <2>2. load \in [id: Links, view: Seen \cup {None}]
      BY <2>1
    <2>3. Rendered(p) = q
      BY <1>2 DEF Rendered
    <2>4. /\ q \in Page /\ q.token = p.hash /\ q.hash = p.hash /\ q.op = p.op /\ q.shown = p.shown
          /\ q.confirmCancel = p.confirmCancel /\ q.rescheduling = p.rescheduling
      <3> HIDE DEF load
      <3> QED
        BY <2>1, <2>2 DEF Page
    <2> HIDE DEF q
    <2> QED
      BY <2>1, <2>3, <2>4, LinkAssumption DEF Formed, Ready
  <1> QED
    BY <1>1, <1>2

\* What is rendered of a formed document is formed.
LEMMA SetsKeeps ==
    ASSUME PagesOK, NEW t \in Tabs, NEW p \in Page, Sets(t, p), Ready(p)
    PROVE  PagesOK'
  <1>1. Rendered(p) \in Page /\ Formed(Rendered(p))
    BY RenderedFormed
  <1>2. page' = [page EXCEPT ![t] = Rendered(p)]
    BY DEF Sets
  <1> QED
    BY <1>1, <1>2 DEF PagesOK

\* A change that does not render.
LEMMA WritesKeeps ==
    ASSUME PagesOK, NEW t \in Tabs, NEW p \in Page, Formed(p), page' = [page EXCEPT ![t] = p]
    PROVE  PagesOK'
  BY DEF PagesOK

\* A press on a document that shows a booking: its address and what it shows stay.
SameButAsked(p, q) == /\ q.hash = p.hash /\ q.token = p.token
                      /\ q.shown = p.shown /\ q.loads = p.loads

LEMMA AskingKeeps ==
    ASSUME PagesOK, NEW t \in Tabs, NEW p \in Page, NEW q \in Page, Ready(p), p.shown # None,
           SameButAsked(p, q), Sets(t, q)
    PROVE  PagesOK'
  <1>1. Ready(q)
    BY DEF Ready, SameButAsked
  <1> QED
    BY <1>1, SetsKeeps

LEMMA CustomerKeepsPages ==
    ASSUME PagesOK, NEW t \in Tabs, Customer(t)
    PROVE  PagesOK'
  <1> DEFINE p == page[t]
  <1>1. p \in Page /\ Ready(p) /\ Formed(p)
    BY DEF PagesOK, Formed
  <1>2. Blank \in Page /\ Formed(Blank)
    BY DEF Blank, Page, Formed, Ready
  <1>3. ASSUME NEW l \in Links, OpenLink(t, l) PROVE PagesOK'
    <2> DEFINE q == [Blank EXCEPT !.hash = l]
    <2>1. q \in Page /\ q.hash = l /\ q.op = None /\ ~q.confirmCancel /\ ~q.rescheduling
      BY <1>2 DEF Page, Blank
    <2>2. Ready(q)
      BY <2>1, LinkAssumption DEF Ready
    <2>3. Sets(t, q)
      BY <1>3 DEF OpenLink
    <2> HIDE DEF q
    <2> QED
      BY <2>1, <2>2, <2>3, SetsKeeps
  <1>4. ASSUME NEW l \in Links, PasteLink(t, l) PROVE PagesOK'
    <2> DEFINE q == [p EXCEPT !.hash = l]
    <2>1. q \in Page /\ q.hash = l /\ q.op = p.op /\ q.confirmCancel = p.confirmCancel
          /\ q.rescheduling = p.rescheduling /\ q.shown = p.shown /\ q.token = p.token
      BY <1>1 DEF Page
    <2>2. p.hash # None /\ page' = [page EXCEPT ![t] = q]
      BY <1>4 DEF PasteLink
    <2> HIDE DEF q, p
    <2>3. Formed(q)
      BY <1>1, <2>1, <2>2, LinkAssumption DEF Formed, Ready
    <2> QED
      BY <2>1, <2>2, <2>3, WritesKeeps
  <1>5. CASE CloseTab(t)
    BY <1>2, <1>5, WritesKeeps DEF CloseTab
  <1>6. CASE AskCancel(t)
    <2> DEFINE q == [p EXCEPT !.confirmCancel = TRUE]
    <2>1. q \in Page /\ SameButAsked(p, q)
      BY <1>1 DEF Page, SameButAsked
    <2>2. Sets(t, q) /\ p.shown # None
      BY <1>6 DEF AskCancel, Changeable
    <2> HIDE DEF q
    <2> QED
      BY <1>1, <2>1, <2>2, AskingKeeps
  <1>7. CASE KeepBooking(t)
    <2> DEFINE q == [p EXCEPT !.confirmCancel = FALSE]
    <2>1. q \in Page /\ SameButAsked(p, q) /\ ~q.confirmCancel /\ q.rescheduling = p.rescheduling /\ q.op = p.op
      BY <1>1 DEF Page, SameButAsked
    <2>2. Ready(q)
      <3> HIDE DEF q, p
      <3> QED
        BY <1>1, <2>1 DEF Ready, SameButAsked
    <2>3. Sets(t, q)
      BY <1>7 DEF KeepBooking
    <2> HIDE DEF q
    <2> QED
      BY <2>1, <2>2, <2>3, SetsKeeps
  <1>8. CASE StartReschedule(t) \/ KeepTime(t)
    <2>1. PICK value \in BOOLEAN : Sets(t, [p EXCEPT !.rescheduling = value])
      BY <1>8 DEF StartReschedule, KeepTime
    <2> DEFINE q == [p EXCEPT !.rescheduling = value]
    <2>2. q \in Page /\ SameButAsked(p, q)
      BY <1>1 DEF Page, SameButAsked
    <2>3. p.shown # None
      BY <1>8 DEF StartReschedule, KeepTime, Changeable
    <2>4. Sets(t, q)
      BY <2>1
    <2> HIDE DEF q
    <2> QED
      BY <1>1, <2>2, <2>3, <2>4, AskingKeeps
  <1>9. ASSUME NEW s \in Slots, Pick(t, s) PROVE PagesOK'
    <2> DEFINE q == [p EXCEPT !.pick = s]
    <2>1. q \in Page /\ SameButAsked(p, q)
      BY <1>1 DEF Page, SameButAsked
    <2>2. Sets(t, q) /\ p.shown # None
      BY <1>9 DEF Pick, Changeable
    <2> HIDE DEF q
    <2> QED
      BY <1>1, <2>1, <2>2, AskingKeeps
  <1>10. CASE cancelManagedBooking(t) \/ rescheduleManagedBooking(t)
    <2>1. PICK slot \in Slots \cup {None} : Sends(t, slot)
      BY <1>1, <1>10 DEF cancelManagedBooking, rescheduleManagedBooking, Page
    <2>2. p.shown # None
      BY <1>1, <1>10 DEF cancelManagedBooking, rescheduleManagedBooking, Changeable, Ready
    <2>3. p.token \in Links
      BY <1>1, <2>2 DEF Page, Formed, Ready
    <2> DEFINE o == [id |-> p.token, to |-> slot, stage |-> "sent", view |-> None]
               q == [p EXCEPT !.op = o]
    <2>4. o \in Ops
      BY <2>3 DEF Ops
    <2>5. q \in Page /\ SameButAsked(p, q)
      <3> HIDE DEF o
      <3> QED
        BY <1>1, <2>4 DEF Page, SameButAsked
    <2>6. Sets(t, q)
      BY <2>1 DEF Sends
    <2> HIDE DEF q
    <2> QED
      BY <1>1, <2>2, <2>5, <2>6, AskingKeeps
  <1> QED
    BY <1>3, <1>4, <1>5, <1>6, <1>7, <1>8, <1>9, <1>10 DEF Customer

\* What the server answers is a view of the booking that was asked for.
LEMMA ViewTyped ==
    ASSUME NEW b \in Bookings, NEW row \in Rows
    PROVE  ViewOf(b, row) \in Seen /\ ViewOf(b, row).row = row
  BY DEF ViewOf, Seen, CanCancel, CanReschedule, Live, Rows

LEMMA AnswersKeepPages ==
    ASSUME PagesOK, NEW t \in Tabs, page[t].op # None,
           \/ Refuses(t)
           \/ \E row \in Rows : page[t].op.id \in Bookings /\ Serves(t, row)
    PROVE  PagesOK'
  <1> DEFINE p == page[t]
  <1>1. p \in Page /\ Formed(p) /\ p.op \in Ops
    BY DEF PagesOK, Page
  <1>2. PICK o \in Ops : page' = [page EXCEPT ![t] = [p EXCEPT !.op = o]]
    <2>1. CASE Refuses(t)
      <3>1. [p.op EXCEPT !.stage = "refused"] \in Ops
        BY <1>1 DEF Ops
      <3>2. page' = [page EXCEPT ![t] = [p EXCEPT !.op = [p.op EXCEPT !.stage = "refused"]]]
        BY <2>1 DEF Refuses
      <3> QED
        BY <3>1, <3>2
    <2>2. CASE \E row \in Rows : p.op.id \in Bookings /\ Serves(t, row)
      <3>1. PICK row \in Rows : p.op.id \in Bookings /\ Serves(t, row)
        BY <2>2
      <3> DEFINE v == ViewOf(p.op.id, row)
      <3>2. v \in Seen
        BY <3>1, ViewTyped
      <3> HIDE DEF v
      <3>3. [p.op EXCEPT !.stage = "served", !.view = v] \in Ops
        BY <1>1, <3>2 DEF Ops
      <3>4. page' = [page EXCEPT ![t].op.stage = "served", ![t].op.view = v]
        BY <3>1 DEF Serves, v
      <3>5. page' = [page EXCEPT ![t] = [p EXCEPT !.op = [p.op EXCEPT !.stage = "served", !.view = v]]]
        BY <1>1, <3>4 DEF PagesOK, Page, Ops
      <3> QED
        BY <3>3, <3>5
    <2> QED
      BY <2>1, <2>2
  <1> DEFINE q == [p EXCEPT !.op = o]
  <1>3. q \in Page /\ SameButAsked(p, q) /\ q.op = o /\ q.confirmCancel = p.confirmCancel
        /\ q.rescheduling = p.rescheduling
    BY <1>1 DEF Page, SameButAsked
  <1>4. page' = [page EXCEPT ![t] = q]
    BY <1>2
  <1> HIDE DEF q, p
  <1>5. Formed(q)
    <2>1. p.op # None
      BY DEF p
    <2> QED
      BY <1>1, <1>3, <2>1 DEF Formed, Ready, SameButAsked
  <1> QED
    BY <1>3, <1>4, <1>5, WritesKeeps

LEMMA RequestsKeepPages ==
    ASSUME PagesOK, RowsOK, NEW t \in Tabs, Requests(t)
    PROVE  PagesOK'
  <1> DEFINE p == page[t]
             Given == [id: Links, view: Seen \cup {None}]
  <1>1. p \in Page /\ Formed(p) /\ Ready(p) /\ p.loads \subseteq Given
    BY DEF PagesOK, Page, Formed
  <1>2. CASE getManagedBooking(t)
    <2>1. PICK l \in p.loads :
            /\ l.id \in Bookings
            /\ page' = [page EXCEPT ![t].loads = (@ \ {l}) \cup {[l EXCEPT !.view = ViewOf(l.id, booking[l.id])]}]
      BY <1>2 DEF getManagedBooking
    <2> DEFINE answer == [l EXCEPT !.view = ViewOf(l.id, booking[l.id])]
               q == [p EXCEPT !.loads = (@ \ {l}) \cup {answer}]
    <2>2. ViewOf(l.id, booking[l.id]) \in Seen
      BY <2>1, ViewTyped DEF RowsOK
    <2>3. answer \in Given
      BY <1>1, <2>2
    <2>4. page' = [page EXCEPT ![t] = q]
      BY <2>1
    <2> HIDE DEF answer
    <2>5. q \in Page /\ q.hash = p.hash /\ q.token = p.token /\ q.shown = p.shown /\ q.op = p.op
          /\ q.confirmCancel = p.confirmCancel /\ q.rescheduling = p.rescheduling
      BY <1>1, <2>3 DEF Page
    <2>6. p.loads # {}
      BY <2>1
    <2> HIDE DEF q, p
    <2>7. Formed(q)
      BY <1>1, <2>5, <2>6 DEF Formed, Ready
    <2> QED
      BY <2>4, <2>5, <2>7, WritesKeeps
  <1>3. CASE Loaded(t)
    <2>1. PICK l \in p.loads : l.view # None /\ Sets(t, [p EXCEPT !.shown = l.view, !.loads = @ \ {l}])
      BY <1>3 DEF Loaded
    <2> DEFINE q == [p EXCEPT !.shown = l.view, !.loads = @ \ {l}]
    <2>2. l.view \in Seen /\ p.loads # {}
      BY <1>1, <2>1
    <2>3. q \in Page /\ q.hash = p.hash /\ q.shown = l.view
      BY <1>1, <2>2 DEF Page
    <2>4. Sets(t, q)
      BY <2>1
    <2> HIDE DEF q, p
    <2>5. Ready(q)
      BY <1>1, <2>1, <2>2, <2>3 DEF Ready
    <2> QED
      BY <2>3, <2>4, <2>5, SetsKeeps
  <1>4. CASE LoadFailed(t)
    <2>1. PICK l \in p.loads : Sets(t, [p EXCEPT !.notFound = TRUE, !.loads = @ \ {l}])
      BY <1>4 DEF LoadFailed
    <2> DEFINE q == [p EXCEPT !.notFound = TRUE, !.loads = @ \ {l}]
    <2>2. p.loads # {}
      BY <2>1
    <2>3. q \in Page /\ q.hash = p.hash /\ q.shown = p.shown /\ q.op = p.op
          /\ q.confirmCancel = p.confirmCancel /\ q.rescheduling = p.rescheduling
      BY <1>1 DEF Page
    <2>4. Sets(t, q)
      BY <2>1
    <2> HIDE DEF q, p
    <2>5. Ready(q)
      BY <1>1, <2>2, <2>3 DEF Ready
    <2> QED
      BY <2>3, <2>4, <2>5, SetsKeeps
  <1>5. CASE cancel(t)
    <2>1. p.op # None /\ p.op.id \in Bookings
      BY <1>5 DEF cancel, Asks, Busy
    <2> DEFINE b == p.op.id
    <2>2. Refuses(t) \/ Serves(t, booking[b]) \/ Serves(t, [booking[b] EXCEPT !.status = "cancelled"])
      BY <1>5, <2>1 DEF cancel, RowsOK
    <2>3. booking[b] \in Rows /\ [booking[b] EXCEPT !.status = "cancelled"] \in Rows
      BY <2>1 DEF RowsOK, Rows
    <2> QED
      BY <2>1, <2>2, <2>3, AnswersKeepPages
  <1>6. CASE reschedule(t)
    <2>1. p.op # None /\ p.op.id \in Bookings /\ p.op.to \in Slots
      BY <1>1, <1>6 DEF reschedule, Asks, Busy, Page, Ops
    <2> DEFINE b == p.op.id
               moved == [booking[b] EXCEPT !.slot = p.op.to, !.moved = TRUE]
    <2>2. Refuses(t) \/ Serves(t, booking[b]) \/ Serves(t, moved)
      BY <1>6, <2>1 DEF reschedule, RowsOK
    <2>3. booking[b] \in Rows /\ moved \in Rows
      BY <2>1 DEF RowsOK, Rows
    <2> QED
      BY <2>1, <2>2, <2>3, AnswersKeepPages
  <1>7. CASE Succeeded(t)
    <2> DEFINE q == [p EXCEPT !.shown = p.op.view, !.op = None, !.rescheduling = FALSE,
                              !.confirmCancel = FALSE]
    <2>1. p.op # None /\ p.op \in Ops /\ p.shown # None /\ p.hash # None
      BY <1>1, <1>7 DEF Succeeded, Busy, Page, Ready
    <2>2. q \in Page /\ q.hash = p.hash /\ q.op = None /\ ~q.rescheduling /\ ~q.confirmCancel
      BY <1>1, <2>1 DEF Page, Ops
    <2>3. Sets(t, q)
      BY <1>7 DEF Succeeded
    <2> HIDE DEF q
    <2>4. Ready(q)
      BY <2>1, <2>2 DEF Ready
    <2> QED
      BY <2>2, <2>3, <2>4, SetsKeeps
  <1>8. CASE Failed(t)
    <2> DEFINE q == [p EXCEPT !.op = None]
    <2>1. q \in Page /\ SameButAsked(p, q)
      BY <1>1 DEF Page, SameButAsked
    <2>2. Sets(t, q) /\ p.shown # None
      BY <1>1, <1>8 DEF Failed, Busy, Ready
    <2> HIDE DEF q
    <2> QED
      BY <1>1, <2>1, <2>2, AskingKeeps
  <1> QED
    BY <1>2, <1>3, <1>4, <1>5, <1>6, <1>7, <1>8 DEF Requests

-----------------------------------------------------------------------------
(* The rows.  Whoever acts, a step does one of these to them.              *)

RowsStay == UNCHANGED <<booking, others, moves>>

\* A live booking ends.
Ends(b) == /\ Live(booking[b])
           /\ \E s \in {"cancelled", "completed"} : booking' = [booking EXCEPT ![b].status = s]
           /\ UNCHANGED <<others, moves>>

\* The operator moves a live booking, as often as wanted.
Shifts(b, s) == /\ Live(booking[b]) /\ Free(s) /\ booking' = [booking EXCEPT ![b].slot = s]
                /\ UNCHANGED <<others, moves>>

\* Its customer does, once.
Moves(b, s) == /\ Live(booking[b]) /\ ~booking[b].moved /\ Free(s)
               /\ booking' = [booking EXCEPT ![b].slot = s, ![b].moved = TRUE]
               /\ moves' = [moves EXCEPT ![b] = IF @ = 2 THEN 2 ELSE @ + 1]
               /\ UNCHANGED others

\* Another customer takes a free slot, or gives one back.
Taken(s) == Free(s) /\ others' = others \cup {s} /\ UNCHANGED <<booking, moves>>
GivenBack == others' \subseteq others /\ UNCHANGED <<booking, moves>>

RowsStep == \/ RowsStay \/ GivenBack
            \/ \E b \in Bookings : \/ Ends(b)
                                   \/ \E s \in Slots : Shifts(b, s) \/ Moves(b, s)
            \/ \E s \in Slots : Taken(s)

LEMMA CustomerStaysOff ==
    ASSUME NEW t \in Tabs, Customer(t)
    PROVE  RowsStay /\ UNCHANGED late
  BY DEF Customer, OpenLink, PasteLink, CloseTab, AskCancel, KeepBooking, StartReschedule, KeepTime,
         Pick, cancelManagedBooking, rescheduleManagedBooking, RowsStay

\* A request changes the row of a live booking only, and moves it only to a free slot.
LEMMA RequestsStep ==
    ASSUME PagesOK, RowsOK, NEW t \in Tabs, Requests(t)
    PROVE  RowsStep /\ UNCHANGED late
  <1>1. CASE getManagedBooking(t) \/ Loaded(t) \/ LoadFailed(t) \/ Succeeded(t) \/ Failed(t)
    BY <1>1 DEF getManagedBooking, Loaded, LoadFailed, Succeeded, Failed, RowsStep, RowsStay
  <1>2. CASE cancel(t)
    <2> DEFINE b == page[t].op.id
    <2>1. b \in Bookings
      BY <1>2 DEF cancel, Asks
    <2>2. RowsStay \/ (CanCancel(booking[b]) /\ booking' = [booking EXCEPT ![b].status = "cancelled"]
                        /\ UNCHANGED <<others, moves>>)
      BY <1>2 DEF cancel, RowsStay
    <2> HIDE DEF b
    <2> QED
      BY <1>2, <2>1, <2>2 DEF cancel, RowsStep, Ends, CanCancel
  <1>3. CASE reschedule(t)
    <2> DEFINE b == page[t].op.id
               s == page[t].op.to
    <2>1. b \in Bookings /\ s \in Slots
      BY <1>3 DEF reschedule, Asks, Busy, PagesOK, Page, Ops
    <2>2. RowsStay \/ (CanReschedule(booking[b]) /\ Free(s)
                        /\ booking' = [booking EXCEPT ![b].slot = s, ![b].moved = TRUE]
                        /\ moves' = [moves EXCEPT ![b] = IF @ = 2 THEN 2 ELSE @ + 1]
                        /\ UNCHANGED others)
      BY <1>3 DEF reschedule, RowsStay
    <2> HIDE DEF b, s
    <2> QED
      BY <1>3, <2>1, <2>2 DEF reschedule, RowsStep, Moves, CanReschedule, CanCancel
  <1> QED
    BY <1>1, <1>2, <1>3 DEF Requests

LEMMA OthersStep ==
    ASSUME Others
    PROVE  RowsStep /\ late' \in {late, TRUE} /\ UNCHANGED page
  <1>1. ASSUME NEW b \in Bookings, OperatorEnds(b) PROVE RowsStep /\ UNCHANGED <<late, page>>
    BY <1>1 DEF OperatorEnds, RowsStep, Ends
  <1>2. ASSUME NEW b \in Bookings, NEW s \in Slots, OperatorMoves(b, s)
        PROVE  RowsStep /\ UNCHANGED <<late, page>>
    BY <1>2 DEF OperatorMoves, RowsStep, Shifts
  <1>3. ASSUME NEW s \in Slots, OthersBook(s) \/ OthersCancel(s)
        PROVE  RowsStep /\ UNCHANGED <<late, page>>
    BY <1>3 DEF OthersBook, OthersCancel, RowsStep, Taken, GivenBack
  <1>4. CASE NoticePasses
    BY <1>4 DEF NoticePasses, RowsStep, RowsStay
  <1> QED
    BY <1>1, <1>2, <1>3, <1>4 DEF Others

\* A live booking whose slot becomes s, which was free, is apart from all others.
LEMMA MovedApart ==
    ASSUME RowsOK, NEW b \in Bookings, NEW s \in Slots, Live(booking[b]), Free(s), UNCHANGED others,
           booking' \in [Bookings -> Rows], booking'[b].slot = s, Live(booking'[b]),
           \A a \in Bookings \ {b} : booking'[a] = booking[a]
    PROVE  SlotsApart'
  <1>1. s \notin others /\ \A a \in Bookings : Live(booking[a]) => booking[a].slot # s
    BY DEF Free
  <1> QED
    BY <1>1 DEF RowsOK, SlotsApart, Live

LEMMA RowsKept ==
    ASSUME RowsOK, RowsStep, late' \in BOOLEAN
    PROVE  RowsOK'
  <1> USE DEF RowsOK
  <1>1. CASE RowsStay
    BY <1>1 DEF RowsStay, MovesAreMarked, MovedOnce, SlotsApart, Live
  <1>2. CASE GivenBack
    BY <1>2 DEF GivenBack, MovesAreMarked, MovedOnce, SlotsApart, Live
  <1>3. ASSUME NEW b \in Bookings, Ends(b) PROVE RowsOK'
    <2>1. PICK s \in {"cancelled", "completed"} : booking' = [booking EXCEPT ![b].status = s]
      BY <1>3 DEF Ends
    <2>2. /\ booking' \in [Bookings -> Rows] /\ ~Live(booking'[b]) /\ booking'[b].moved = booking[b].moved
          /\ \A a \in Bookings \ {b} : booking'[a] = booking[a]
      BY <2>1 DEF Rows, Live
    <2>3. others' = others /\ moves' = moves
      BY <1>3 DEF Ends
    <2>4. SlotsApart'
      BY <2>2, <2>3 DEF SlotsApart, Live
    <2> QED
      BY <2>2, <2>3, <2>4 DEF MovesAreMarked, MovedOnce
  <1>4. ASSUME NEW b \in Bookings, NEW s \in Slots, Shifts(b, s) PROVE RowsOK'
    <2>1. booking' = [booking EXCEPT ![b].slot = s] /\ others' = others /\ moves' = moves
      BY <1>4 DEF Shifts
    <2>2. /\ booking' \in [Bookings -> Rows] /\ booking'[b].slot = s
          /\ booking'[b].status = booking[b].status /\ booking'[b].moved = booking[b].moved
          /\ \A a \in Bookings \ {b} : booking'[a] = booking[a]
      BY <2>1 DEF Rows
    <2>3. SlotsApart'
      BY <1>4, <2>1, <2>2, MovedApart DEF Shifts, Live
    <2> QED
      BY <2>1, <2>2, <2>3 DEF MovesAreMarked, MovedOnce
  <1>5. ASSUME NEW b \in Bookings, NEW s \in Slots, Moves(b, s) PROVE RowsOK'
    <2>1. /\ booking' = [booking EXCEPT ![b].slot = s, ![b].moved = TRUE] /\ others' = others
          /\ moves' = [moves EXCEPT ![b] = IF @ = 2 THEN 2 ELSE @ + 1]
      BY <1>5 DEF Moves
    <2>2. /\ booking' \in [Bookings -> Rows] /\ booking'[b].slot = s
          /\ booking'[b].status = booking[b].status /\ booking'[b].moved
          /\ \A a \in Bookings \ {b} : booking'[a] = booking[a]
      BY <2>1 DEF Rows
    <2>3. SlotsApart'
      BY <1>5, <2>1, <2>2, MovedApart DEF Moves, Live
    <2>4. moves[b] = 0
      BY <1>5 DEF Moves, MovesAreMarked
    <2>5. moves' \in [Bookings -> 0 .. 2] /\ moves'[b] = 1 /\ \A a \in Bookings \ {b} : moves'[a] = moves[a]
      BY <2>1, <2>4
    <2> QED
      BY <2>1, <2>2, <2>3, <2>5 DEF MovesAreMarked, MovedOnce
  <1>6. ASSUME NEW s \in Slots, Taken(s) PROVE RowsOK'
    <2>1. s \notin {booking[b].slot : b \in {a \in Bookings : Live(booking[a])}}
      BY <1>6 DEF Taken, Free
    <2> QED
      BY <1>6, <2>1 DEF Taken, MovesAreMarked, MovedOnce, SlotsApart, Live
  <1> QED
    BY <1>1, <1>2, <1>3, <1>4, <1>5, <1>6 DEF RowsStep

\* None of them touches a booking that ended.
LEMMA EndedKept ==
    ASSUME RowsOK, RowsStep, NEW b \in Bookings, ~Live(booking[b])
    PROVE  booking'[b] = booking[b]
  BY DEF RowsOK, RowsStep, RowsStay, GivenBack, Ends, Shifts, Moves, Taken

-----------------------------------------------------------------------------
(* The specification                                                       *)

LEMMA InitInv == Init => LinkInv
  <1> SUFFICES ASSUME Init PROVE LinkInv
    OBVIOUS
  <1>1. PagesOK
    BY DEF Init, PagesOK, Blank, Page, Formed, Ready
  <1>2. booking \in [Bookings -> Rows] /\ others \subseteq Slots /\ late \in BOOLEAN
        /\ moves \in [Bookings -> 0 .. 2] /\ \A b \in Bookings : moves[b] = 0
    <2>1. booking \in [Bookings -> Rows]
      <3>1. [status: {"live"}, slot: Slots, moved: {FALSE}] \subseteq Rows
        BY DEF Rows
      <3> QED
        BY <3>1 DEF Init
    <2>2. others \subseteq Slots /\ late \in BOOLEAN
      BY DEF Init
    <2>3. moves \in [Bookings -> 0 .. 2] /\ \A b \in Bookings : moves[b] = 0
      BY DEF Init
    <2> QED
      BY <2>1, <2>2, <2>3
  <1>3. SlotsApart
    BY DEF Init, SlotsApart
  <1> QED
    BY <1>1, <1>2, <1>3 DEF LinkInv, RowsOK, MovesAreMarked, MovedOnce

\* Every step of the system, for the rows.
LEMMA NextRows ==
    ASSUME LinkInv, [Next]_vars
    PROVE  RowsStep /\ late' \in BOOLEAN
  <1>1. ASSUME NEW t \in Tabs, Customer(t) PROVE RowsStep /\ late' \in BOOLEAN
    BY <1>1, CustomerStaysOff DEF RowsStep, LinkInv, RowsOK
  <1>2. ASSUME NEW t \in Tabs, Requests(t) PROVE RowsStep /\ late' \in BOOLEAN
    BY <1>2, RequestsStep DEF LinkInv, RowsOK
  <1>3. CASE Others
    BY <1>3, OthersStep DEF LinkInv, RowsOK
  <1>4. CASE UNCHANGED vars
    BY <1>4 DEF vars, RowsStep, RowsStay, LinkInv, RowsOK
  <1> QED
    BY <1>1, <1>2, <1>3, <1>4 DEF Next

LEMMA NextInv == LinkInv /\ [Next]_vars => LinkInv'
  <1> SUFFICES ASSUME LinkInv, [Next]_vars PROVE LinkInv'
    OBVIOUS
  <1>1. RowsOK'
    BY NextRows, RowsKept DEF LinkInv
  <1>2. PagesOK'
    <2>1. ASSUME NEW t \in Tabs, Customer(t) PROVE PagesOK'
      BY <2>1, CustomerKeepsPages DEF LinkInv
    <2>2. ASSUME NEW t \in Tabs, Requests(t) PROVE PagesOK'
      BY <2>2, RequestsKeepPages DEF LinkInv
    <2>3. CASE Others
      BY <2>3, OthersStep DEF LinkInv, PagesOK
    <2>4. CASE UNCHANGED vars
      BY <2>4 DEF vars, LinkInv, PagesOK
    <2> QED
      BY <2>1, <2>2, <2>3, <2>4 DEF Next
  <1> QED
    BY <1>1, <1>2 DEF LinkInv

LEMMA SpecInv == Spec => []LinkInv
  BY InitInv, NextInv, PTL DEF Spec

\* The variables are always of their types, with any links opened, pasted and rendered in any
\* number of documents.
THEOREM TypeCorrect == Spec => []TypeOK
  BY SpecInv, InvImpliesType, PTL

\* A customer moves a booking once, with requests sent again and from many documents at a time.
THEOREM MovesOnce == Spec => []MovedOnce
  <1>1. LinkInv => MovedOnce
    BY DEF LinkInv, RowsOK
  <1> QED
    BY <1>1, SpecInv, PTL

\* No slot is sold twice, whoever books, cancels and moves beside the customer.
THEOREM SlotsKeptApart == Spec => []SlotsApart
  <1>1. LinkInv => SlotsApart
    BY DEF LinkInv, RowsOK
  <1> QED
    BY <1>1, SpecInv, PTL

\* A booking that ended is never changed again, whatever an old document still offers.
THEOREM EndedIsOver == Spec => EndedStays
  <1>1. LinkInv /\ [Next]_vars => [\A b \in Bookings : ~Live(booking[b]) => booking'[b] = booking[b]]_vars
    BY NextRows, EndedKept DEF LinkInv
  <1> QED
    BY <1>1, SpecInv, PTL DEF Spec, EndedStays

=============================================================================
