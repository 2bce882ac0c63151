------------------------- MODULE OperatorFormsProofs -------------------------
(***************************************************************************)
(* The drawer that books a client into a session: proofs for any number of *)
(* forms, clients, sessions and seats.                                     *)
(***************************************************************************)
EXTENDS OperatorForms, FiniteSetTheorems, TLAPS

-----------------------------------------------------------------------------
(* The inductive invariant: the types by variable, the seats, the keys,    *)
(* and what the operator was told.                                         *)

ListsType == [stage: {"loading", "failed", "shown"}, room: SUBSET Sessions]
DrawerType == [mode: {"closed", "view", "new"}, key: 0 .. keys,
               client: Clients \cup {None}, session: Sessions \cup {None}]
ViewType == [stage: {"loading", "read", "settled", "failed"}, answer: SUBSET Bookings,
             rows: SUBSET Bookings, client: Clients \cup {None}]

PageOK == /\ keys \in 0 .. MaxKeys /\ told \subseteq 1 .. keys
          /\ lists \in ListsType /\ view \in ViewType
          /\ drawer \in DrawerType /\ (drawer.mode = "new" <=> drawer.key # 0)
          /\ op \in Requests \cup {None} /\ (op # None => op.key <= keys)
          /\ busy \in BOOLEAN /\ (busy <=> op # None)

SeatsOK == /\ booked \subseteq Bookings /\ IsFiniteSet(booked)
           /\ others \in [Sessions -> 0 .. Capacity] /\ off \subseteq Sessions
           /\ SeatsFit

\* "Booking created" is said of a form that has a booking.
ToldIsBooked == \A k \in told : \E b \in booked : b.key = k
CreatedIsBooked == op # None /\ op.stage = "created" => \E b \in booked : b.key = op.key

FormsInv == PageOK /\ SeatsOK /\ OnePerForm /\ ToldIsBooked /\ CreatedIsBooked

LEMMA InvImpliesType == FormsInv => TypeOK
  BY DEF FormsInv, PageOK, SeatsOK, TypeOK, ListsType, DrawerType, ViewType

-----------------------------------------------------------------------------
(* Seats                                                                   *)

\* The bookings of a session, as many as they may be.
OfSession(B, s) == {b \in B : b.session = s}

LEMMA Counted ==
    ASSUME NEW B, IsFiniteSet(B), NEW s
    PROVE  /\ IsFiniteSet(OfSession(B, s))
           /\ Cardinality(OfSession(B, s)) \in Nat
  <1>1. OfSession(B, s) \subseteq B
    BY DEF OfSession
  <1> QED
    BY <1>1, FS_Subset, FS_CardinalityType

\* One more booking takes one more seat, and of its session only.
LEMMA OneMoreSeat ==
    ASSUME NEW B, IsFiniteSet(B), NEW c, NEW s
    PROVE  /\ c.session = s => Cardinality(OfSession(B \cup {c}, s))
                                 <= Cardinality(OfSession(B, s)) + 1
           /\ c.session # s => Cardinality(OfSession(B \cup {c}, s))
                                 = Cardinality(OfSession(B, s))
  <1> DEFINE S == OfSession(B, s)
             T == OfSession(B \cup {c}, s)
  <1>1. IsFiniteSet(S) /\ Cardinality(S) \in Nat
    BY Counted
  <1>2. CASE c.session = s
    <2>1. T = S \cup {c}
      BY <1>2 DEF OfSession
    <2>2. Cardinality(S \cup {c}) = IF c \in S THEN Cardinality(S) ELSE Cardinality(S) + 1
      BY <1>1, FS_AddElement
    <2> HIDE DEF S, T
    <2>3. Cardinality(T) <= Cardinality(S) + 1
      BY <1>1, <2>1, <2>2
    <2> QED
      BY <1>2, <2>3 DEF S, T
  <1>3. CASE c.session # s
    <2>1. T = S
      BY <1>3 DEF OfSession
    <2> QED
      BY <1>3, <2>1
  <1> QED
    BY <1>2, <1>3

-----------------------------------------------------------------------------
(* The browser                                                             *)

LEMMA PageStep ==
    ASSUME FormsInv, Page
    PROVE  PageOK' /\ UNCHANGED <<server, told, op>>
  <1>1. view \in ViewType /\ booked \subseteq Bookings
    BY DEF FormsInv, PageOK, SeatsOK
  <1>2. view' \in ViewType
    BY <1>1 DEF Page, loadAll, Settled, LoadFailed, Retry, Reloaded, clearClientFilter, ViewType
  <1>3. UNCHANGED <<server, keys, lists, drawer, busy, op, told>>
    BY DEF Page, loadAll, Settled, LoadFailed, Retry, clearClientFilter
  <1> QED
    BY <1>2, <1>3 DEF FormsInv, PageOK, ListsType, DrawerType

LEMMA FormStep ==
    ASSUME FormsInv, Form
    PROVE  PageOK' /\ UNCHANGED server
  <1>1. /\ keys \in 0 .. MaxKeys /\ told \subseteq 1 .. keys
        /\ lists \in ListsType /\ view \in ViewType
        /\ drawer \in DrawerType /\ (drawer.mode = "new" <=> drawer.key # 0)
        /\ op \in Requests \cup {None} /\ (op # None => op.key <= keys)
        /\ busy \in BOOLEAN /\ (busy <=> op # None)
    BY DEF FormsInv, PageOK
  <1>2. Closed \in DrawerType /\ Closed.mode = "closed" /\ Closed.key = 0
    BY <1>1, FormsAssumption DEF Closed, DrawerType
  <1>3. CASE ListsLoaded \/ ListsFailed
    <2>1. lists' \in ListsType
      BY <1>1, <1>3 DEF ListsLoaded, ListsFailed, ListsType
    <2>2. UNCHANGED <<server, keys, drawer, busy, op, view, told>>
      BY <1>3 DEF ListsLoaded, ListsFailed
    <2> QED
      BY <1>1, <2>1, <2>2 DEF PageOK, DrawerType, server
  <1>4. CASE OpenRow \/ Close
    <2>1. drawer' \in DrawerType /\ drawer'.mode # "new" /\ drawer'.key = 0
      BY <1>2, <1>4 DEF OpenRow, Close, Closed, DrawerType
    <2>2. UNCHANGED <<server, keys, lists, busy, op, view, told>>
      BY <1>4 DEF OpenRow, Close
    <2> QED
      BY <1>1, <2>1, <2>2 DEF PageOK, DrawerType, ListsType, server
  <1>5. CASE OpenNew
    <2>1. keys' = keys + 1 /\ keys' \in 0 .. MaxKeys
      BY <1>1, <1>5, FormsAssumption DEF OpenNew
    <2>2. drawer'.mode = "new" /\ drawer'.key = keys' /\ drawer' \in DrawerType'
      <3>1. drawer' = [mode |-> "new", key |-> keys', client |-> None, session |-> None]
        BY <1>5, <2>1 DEF OpenNew, Closed
      <3>2. keys' \in 0 .. keys'
        BY <2>1
      <3> QED
        BY <3>1, <3>2 DEF DrawerType
    <2>3. UNCHANGED <<server, lists, busy, op, view, told>>
      BY <1>5 DEF OpenNew
    <2>4. keys' # 0 /\ told \subseteq 1 .. keys' /\ (op # None => op.key <= keys')
      BY <1>1, <2>1, FormsAssumption DEF Requests
    <2> QED
      BY <1>1, <2>1, <2>2, <2>3, <2>4 DEF PageOK, ListsType, server
  <1>6. CASE Choose
    <2>1. /\ drawer' \in DrawerType /\ drawer'.mode = drawer.mode /\ drawer'.key = drawer.key
      BY <1>1, <1>6 DEF Choose, bookableSessions, ListsType, DrawerType
    <2>2. UNCHANGED <<server, keys, lists, busy, op, view, told>>
      BY <1>6 DEF Choose
    <2> QED
      BY <1>1, <2>1, <2>2 DEF PageOK, DrawerType, ListsType, server
  <1>7. CASE save
    <2>1. op' \in Requests /\ op'.key <= keys /\ busy'
      BY <1>1, <1>7, FormsAssumption DEF save, ready, DrawerType, Requests
    <2>2. UNCHANGED <<server, keys, lists, drawer, view, told>>
      BY <1>7 DEF save
    <2> QED
      BY <1>1, <1>7, <2>1, <2>2, FormsAssumption DEF PageOK, DrawerType, ListsType, server, save
  <1>8. CASE Created
    <2>1. op \in Requests /\ op.key \in 1 .. keys
      BY <1>1, <1>8, FormsAssumption DEF Created, Requests
    <2>2. told' \subseteq 1 .. keys /\ op' = None /\ busy' = FALSE /\ drawer' = Closed
      BY <1>1, <1>8, <2>1 DEF Created
    <2>3. view' \in ViewType
      BY <1>1, <1>8 DEF Created, Reloaded, ViewType
    <2>4. UNCHANGED <<server, keys, lists>>
      BY <1>8 DEF Created
    <2> QED
      BY <1>1, <1>2, <2>2, <2>3, <2>4 DEF PageOK, DrawerType, ListsType, server
  <1>9. CASE Failed
    BY <1>1, <1>9 DEF Failed, PageOK, DrawerType, ListsType, server
  <1> QED
    BY <1>3, <1>4, <1>5, <1>6, <1>7, <1>8, <1>9 DEF Form

\* What was said is said of a booking that is there.
LEMMA FormTells ==
    ASSUME FormsInv, Form
    PROVE  ToldIsBooked' /\ CreatedIsBooked'
  <1>1. UNCHANGED booked
    BY FormStep DEF server
  <1>2. CASE Created
    <2>1. told' = told \cup {op.key} /\ op # None /\ op.stage = "created" /\ op' = None
      BY <1>2 DEF Created, FormsInv, PageOK
    <2>2. \E b \in booked : b.key = op.key
      BY <2>1 DEF FormsInv, CreatedIsBooked
    <2> QED
      BY <1>1, <2>1, <2>2 DEF FormsInv, ToldIsBooked, CreatedIsBooked
  <1>3. CASE ~Created
    <2>1. told' = told /\ (op' = op \/ op' = None \/ op'.stage = "sent")
      BY <1>3 DEF Form, ListsLoaded, ListsFailed, OpenRow, OpenNew, Close, Choose, save, Failed
    <2> QED
      BY <1>1, <2>1 DEF FormsInv, ToldIsBooked, CreatedIsBooked
  <1> QED
    BY <1>2, <1>3

-----------------------------------------------------------------------------
(* The server                                                              *)

\* What its steps leave of the browser.
LEMMA ServerKeepsPage ==
    ASSUME FormsInv, UNCHANGED <<keys, lists, drawer, busy, view, told>>,
           op' \in Requests \cup {None}, op' # None <=> op # None, op # None => op'.key = op.key
    PROVE  PageOK'
  BY DEF FormsInv, PageOK, DrawerType, ListsType

\* The lock on the session makes the count that was read the one that is written upon.
LEMMA BookingFits ==
    ASSUME SeatsOK, NEW c \in Bookings, Taken(c.session) < Capacity, booked' = booked \cup {c},
           UNCHANGED <<others, off>>
    PROVE  SeatsOK'
  <1>1. booked' \subseteq Bookings /\ IsFiniteSet(booked')
    BY FS_AddElement DEF SeatsOK
  <1>2. ASSUME NEW s \in Sessions
        PROVE  others[s] + Cardinality(OfSession(booked', s)) <= Capacity
    <2> DEFINE N == Cardinality(OfSession(booked, s))
               M == Cardinality(OfSession(booked', s))
    <2>1. N \in Nat /\ M \in Nat
      BY <1>1, Counted DEF SeatsOK
    <2>2. others[s] \in Nat /\ Capacity \in Nat /\ others[s] + N <= Capacity
      BY FormsAssumption DEF SeatsOK, SeatsFit, OfSession
    <2>3. (c.session = s => M <= N + 1) /\ (c.session # s => M = N)
      <3>1. IsFiniteSet(booked)
        BY DEF SeatsOK
      <3>2. M = Cardinality(OfSession(booked \cup {c}, s))
        OBVIOUS
      <3> QED
        BY <3>1, <3>2, OneMoreSeat
    <2>4. c.session = s => others[s] + N < Capacity
      BY DEF Taken, OfSession
    <2> HIDE DEF N, M
    <2>5. others[s] + M <= Capacity
      BY <2>1, <2>2, <2>3, <2>4
    <2> QED
      BY <2>5 DEF M
  <1> QED
    BY <1>1, <1>2 DEF SeatsOK, SeatsFit, OfSession

LEMMA CreateStep ==
    ASSUME FormsInv, create_operator_booking
    PROVE  FormsInv'
  <1> DEFINE c == [key |-> op.key, client |-> op.client, session |-> op.session]
             fits == Recorded = {} /\ op.session \notin off /\ Taken(op.session) < Capacity
  <1>1. op \in Requests /\ op # None /\ c \in Bookings /\ c.key = op.key /\ c.session = op.session
    BY DEF create_operator_booking, FormsInv, PageOK, Requests, Bookings
  <1>2. /\ booked' = IF fits THEN booked \cup {c} ELSE booked
        /\ op' = [op EXCEPT !.stage = IF fits \/ Replays THEN "created" ELSE "refused"]
        /\ UNCHANGED <<others, off, keys, lists, drawer, busy, view, told>>
    BY DEF create_operator_booking
  <1>3. Replays => \E b \in booked : b.key = op.key
    BY DEF Replays, Recorded
  <1>4. Recorded = {} => \A b \in booked : b.key # op.key
    BY DEF Recorded
  <1> HIDE DEF c
  <1>5. op' \in Requests /\ op'.key = op.key
        /\ (op'.stage = "created" => fits \/ Replays)
    <2> HIDE DEF fits
    <2> QED
      BY <1>1, <1>2 DEF Requests
  <1>6. PageOK'
    BY <1>1, <1>2, <1>5, ServerKeepsPage, FormsAssumption
  <1>7. SeatsOK'
    BY <1>1, <1>2, BookingFits DEF FormsInv, SeatsOK, SeatsFit
  <1>8. OnePerForm'
    BY <1>1, <1>2, <1>4 DEF FormsInv, OnePerForm
  <1>9. booked \subseteq booked' /\ (fits => c \in booked')
    BY <1>2
  <1>10. ToldIsBooked'
    BY <1>2, <1>9 DEF FormsInv, ToldIsBooked
  <1>11. CreatedIsBooked'
    BY <1>1, <1>3, <1>5, <1>9 DEF CreatedIsBooked
  <1> QED
    BY <1>6, <1>7, <1>8, <1>10, <1>11 DEF FormsInv

\* A customer takes one of the seats that are left, or gives one back.
LEMMA OthersStep ==
    ASSUME FormsInv, NEW s \in Sessions, CustomerBooks(s) \/ CustomerCancels(s) \/ SessionCancelled(s)
    PROVE  FormsInv'
  <1>1. UNCHANGED <<booked, keys, lists, drawer, busy, op, view, told>>
    BY DEF CustomerBooks, CustomerCancels, SessionCancelled
  <1>2. PageOK'
    BY <1>1, ServerKeepsPage DEF FormsInv, PageOK
  <1>3. OnePerForm' /\ ToldIsBooked' /\ CreatedIsBooked'
    BY <1>1 DEF FormsInv, OnePerForm, ToldIsBooked, CreatedIsBooked
  <1>4. SeatsOK'
    <2> DEFINE N(r) == Cardinality(OfSession(booked, r))
    <2>1. \A r \in Sessions : N(r) \in Nat /\ others[r] \in 0 .. Capacity /\ others[r] + N(r) <= Capacity
      BY Counted DEF FormsInv, SeatsOK, SeatsFit, OfSession
    <2>2. CASE SessionCancelled(s)
      BY <1>1, <2>2 DEF SessionCancelled, FormsInv, SeatsOK, SeatsFit
    <2>3. CASE CustomerBooks(s) \/ CustomerCancels(s)
      <3>1. others[s] + N(s) < Capacity \/ others[s] > 0
        BY <2>3 DEF CustomerBooks, CustomerCancels, HasRoom, Taken, OfSession
      <3>2. PICK n : /\ others' = [others EXCEPT ![s] = n]
                     /\ \/ n = others[s] + 1 /\ others[s] + N(s) < Capacity
                        \/ n = others[s] - 1 /\ others[s] > 0
        BY <2>3 DEF CustomerBooks, CustomerCancels, HasRoom, Taken, OfSession
      <3> HIDE DEF N
      <3>3. n \in 0 .. Capacity /\ n + N(s) <= Capacity
        BY <2>1, <3>2, FormsAssumption
      <3>4. others' \in [Sessions -> 0 .. Capacity] /\ \A r \in Sessions : others'[r] + N(r) <= Capacity
        BY <2>1, <3>2, <3>3 DEF FormsInv, SeatsOK
      <3>5. off' = off
        BY <2>3 DEF CustomerBooks, CustomerCancels
      <3> QED
        BY <1>1, <3>4, <3>5 DEF N, FormsInv, SeatsOK, SeatsFit, OfSession
    <2> QED
      BY <2>2, <2>3
  <1> QED
    BY <1>2, <1>3, <1>4 DEF FormsInv

-----------------------------------------------------------------------------
(* The specification                                                       *)

LEMMA InitInv == Init => FormsInv
  <1> SUFFICES ASSUME Init PROVE FormsInv
    OBVIOUS
  <1>1. PageOK
    <2>1. keys \in 0 .. MaxKeys /\ told \subseteq 1 .. keys
      BY FormsAssumption DEF Init
    <2>2. lists \in ListsType
      BY DEF Init, ListsType
    <2>3. view \in ViewType
      <3>1. [stage: {"loading"}, answer: {{}}, rows: {{}}, client: Clients \cup {None}] \subseteq ViewType
        BY DEF ViewType
      <3> QED
        BY <3>1 DEF Init
    <2>4. drawer \in DrawerType /\ (drawer.mode = "new" <=> drawer.key # 0)
      <3>1. drawer = [mode |-> "closed", key |-> 0, client |-> None, session |-> None] /\ 0 \in 0 .. keys
        BY DEF Init, Closed
      <3> QED
        BY <3>1 DEF DrawerType
    <2>5. op = None /\ busy = FALSE
      BY DEF Init
    <2> QED
      BY <2>1, <2>2, <2>3, <2>4, <2>5 DEF PageOK
  <1>2. SeatsOK
    <2>1. booked = {} /\ \A s \in Sessions : {b \in booked : b.session = s} = {}
      BY DEF Init
    <2>2. IsFiniteSet({}) /\ Cardinality({}) = 0
      BY FS_EmptySet
    <2>3. \A s \in Sessions : others[s] \in 0 .. Capacity
      BY DEF Init
    <2>4. SeatsFit
      BY <2>1, <2>2, <2>3, FormsAssumption DEF SeatsFit
    <2> QED
      BY <2>1, <2>2, <2>4 DEF Init, SeatsOK
  <1> QED
    BY <1>1, <1>2 DEF Init, FormsInv, OnePerForm, ToldIsBooked, CreatedIsBooked

LEMMA NextInv == FormsInv /\ [Next]_vars => FormsInv'
  <1> SUFFICES ASSUME FormsInv, [Next]_vars PROVE FormsInv'
    OBVIOUS
  <1>1. ASSUME UNCHANGED server PROVE SeatsOK' /\ OnePerForm'
    BY <1>1 DEF server, FormsInv, SeatsOK, SeatsFit, OnePerForm
  <1>2. CASE Page
    <2>1. ToldIsBooked' /\ CreatedIsBooked'
      BY <1>2, PageStep DEF server, FormsInv, ToldIsBooked, CreatedIsBooked
    <2> QED
      BY <1>1, <1>2, <2>1, PageStep DEF FormsInv
  <1>3. CASE Form
    BY <1>1, <1>3, FormStep, FormTells DEF FormsInv
  <1>4. CASE Server
    BY <1>4, CreateStep, OthersStep DEF Server
  <1>5. CASE UNCHANGED vars
    BY <1>5 DEF vars, server, FormsInv, PageOK, SeatsOK, SeatsFit, OnePerForm, ToldIsBooked,
                CreatedIsBooked, ListsType, DrawerType, ViewType
  <1> QED
    BY <1>2, <1>3, <1>4, <1>5 DEF Next

LEMMA SpecInv == Spec => []FormsInv
  BY InitInv, NextInv, PTL DEF Spec

\* The variables are always of their types, with any number of forms opened, closed and sent.
THEOREM TypeCorrect == Spec => []TypeOK
  BY SpecInv, InvImpliesType, PTL

\* A form makes one booking at most, though it is sent again after an answer was lost, with
\* the client or the session changed in between.
THEOREM FormsBookOnce == Spec => []OnePerForm
  <1>1. FormsInv => OnePerForm
    BY DEF FormsInv
  <1> QED
    BY <1>1, SpecInv, PTL

\* A session is never overbooked, though the form offers sessions that were free when the layout
\* was mounted.
THEOREM NeverOverbooked == Spec => []SeatsFit
  <1>1. FormsInv => SeatsFit
    BY DEF FormsInv, SeatsOK
  <1> QED
    BY <1>1, SpecInv, PTL

\* "Booking created" is only ever said of a form whose booking the server has.
THEOREM ToldOfWhatIs == Spec => []ToldIsBooked
  <1>1. FormsInv => ToldIsBooked
    BY DEF FormsInv
  <1> QED
    BY <1>1, SpecInv, PTL

=============================================================================
