------------------------ MODULE BookingLedgerProofs ------------------------
(* What the ledger keeps for every pool of bookings and sessions, every    *)
(* setting and every bound.                                                *)
EXTENDS BookingLedger, FiniteSetTheorems, TLAPS

-----------------------------------------------------------------------------
(* Lemmas about the operators of the ledger *)

\* Releasing a seat cancels session s or changes nothing, and s only if no other
\* booking holds a seat of it.
LEMMA ReleasedRows ==
    ASSUME NEW ss \in [Sessions -> SessionRow \cup {None}],
           NEW s \in Sessions, ss[s] # None, NEW b, NEW bk
    PROVE  /\ Released(bk, ss, b, s) \in [Sessions -> SessionRow \cup {None}]
           /\ \A o \in Sessions : Released(bk, ss, b, s)[o] = None <=> ss[o] = None
           /\ \A o \in Sessions : o # s => Released(bk, ss, b, s)[o] = ss[o]
           /\ \/ Released(bk, ss, b, s)[s] = ss[s]
              \/ /\ Released(bk, ss, b, s)[s] = [ss[s] EXCEPT !.status = "cancelled"]
                 /\ ss[s].origin = "public_open"
                 /\ Holders(bk, s) \ {b} = {}
  <1> DEFINE row == [ss[s] EXCEPT !.status = "cancelled"]
  <1>1. ss[s] \in SessionRow
    OBVIOUS
  <1>2. row \in SessionRow
    BY <1>1 DEF SessionRow, SessionStatuses
  <1>3. row # None
    BY <1>2, LedgerAssumption
  <1> QED
    BY <1>2, <1>3 DEF Released

LEMMA ReleasedType ==
    ASSUME NEW ss \in [Sessions -> SessionRow \cup {None}],
           NEW s \in Sessions, ss[s] # None, NEW b, NEW bk
    PROVE  /\ Released(bk, ss, b, s) \in [Sessions -> SessionRow \cup {None}]
           /\ \A o \in Sessions : Released(bk, ss, b, s)[o] = None <=> ss[o] = None
  <1> DEFINE row == [ss[s] EXCEPT !.status = "cancelled"]
  <1>1. row \in SessionRow /\ row # None
    BY LedgerAssumption DEF SessionRow, SessionStatuses
  <1> QED
    BY <1>1 DEF Released

\* The sweep keeps the tables typed; it cancels pending bookings and public
\* sessions and touches no other row.
LEMMA SweptRows ==
    ASSUME TypeOK
    PROVE  /\ SweptBookings \in [Bookings -> BookingRow \cup {None}]
           /\ \A b \in Bookings : SweptBookings[b] = None <=> booking[b] = None
           /\ \A b \in Bookings : booking[b] # None =>
                SweptBookings[b].session = booking[b].session
           /\ SweptSessions \in [Sessions -> SessionRow \cup {None}]
           /\ \A s \in Sessions : SweptSessions[s] = None <=> session[s] = None
           /\ \A s \in Sessions :
                \/ SweptSessions[s] = session[s]
                \/ /\ session[s] # None
                   /\ session[s].origin = "public_open"
                   /\ SweptSessions[s] = [session[s] EXCEPT !.status = "cancelled"]
  <1>1. ASSUME NEW b \in Bookings
        PROVE  /\ SweptBookings[b] \in BookingRow \cup {None}
               /\ SweptBookings[b] = None <=> booking[b] = None
               /\ booking[b] # None => SweptBookings[b].session = booking[b].session
    <2> DEFINE row == [booking[b] EXCEPT !.status = "cancelled", !.payment = "overdue"]
    <2>1. CASE Expirable(b)
      <3>1. booking[b] \in BookingRow
        BY <2>1 DEF TypeOK, Expirable
      <3>2. row \in BookingRow /\ row.session = booking[b].session
        BY <3>1 DEF BookingRow, BookingStatuses
      <3> QED
        BY <2>1, <3>1, <3>2, LedgerAssumption DEF SweptBookings
    <2>2. CASE ~Expirable(b)
      BY <2>2 DEF SweptBookings, TypeOK
    <2> QED
      BY <2>1, <2>2
  <1>2. ASSUME NEW s \in Sessions
        PROVE  /\ SweptSessions[s] \in SessionRow \cup {None}
               /\ SweptSessions[s] = None <=> session[s] = None
               /\ \/ SweptSessions[s] = session[s]
                  \/ /\ session[s] # None
                     /\ session[s].origin = "public_open"
                     /\ SweptSessions[s] = [session[s] EXCEPT !.status = "cancelled"]
    <2> DEFINE row == [session[s] EXCEPT !.status = "cancelled"]
               hit == \E b \in Bookings : /\ Expirable(b)
                                          /\ booking[b].session = s
                                          /\ session[s].origin = "public_open"
    <2>1. CASE hit
      <3>1. session[s] # None
        BY <2>1 DEF TypeOK, Expirable
      <3>2. session[s] \in SessionRow
        BY <3>1 DEF TypeOK
      <3>3. row \in SessionRow
        BY <3>2 DEF SessionRow, SessionStatuses
      <3> QED
        BY <2>1, <3>1, <3>3, LedgerAssumption DEF SweptSessions
    <2>2. CASE ~hit
      BY <2>2 DEF SweptSessions, TypeOK
    <2> QED
      BY <2>1, <2>2
  <1>3. SweptBookings = [b \in Bookings |-> SweptBookings[b]]
    BY DEF SweptBookings
  <1>4. SweptSessions = [s \in Sessions |-> SweptSessions[s]]
    BY DEF SweptSessions
  <1>5. SweptBookings \in [Bookings -> BookingRow \cup {None}]
    BY <1>1, <1>3
  <1>6. SweptSessions \in [Sessions -> SessionRow \cup {None}]
    BY <1>2, <1>4
  <1> QED
    BY <1>1, <1>2, <1>5, <1>6

\* A pending row that a command changed stays typed and may become confirmed.
LEMMA ConfirmedRow ==
    ASSUME NEW r \in BookingRow
    PROVE  /\ Confirmed(r) \in BookingRow
           /\ Confirmed(r).session = r.session
           /\ Confirmed(r) = r \/ (Ready(r) /\ Confirmed(r) = [r EXCEPT !.status = "confirmed"])
  BY DEF Confirmed, BookingRow, BookingStatuses

\* The rows that the two ways of creating a booking insert are typed.
LEMMA NewRows ==
    ASSUME NEW s \in Sessions, NEW t \in Starts, NEW method \in Methods,
           NEW policy \in Policies, now \in 0..MaxTime
    PROVE  /\ OperatorRow(s, method) \in BookingRow
           /\ OperatorRow(s, method).session = s
           /\ PublicRow(s, t, method, policy) \in BookingRow
           /\ PublicRow(s, t, method, policy).session = s
  <1> DEFINE due == IF method = "manual" THEN Earlier(now + PaymentWindow, t) ELSE None
             row == [session |-> s, status |-> "pending",
                     payment |-> IF method = "free" THEN "free" ELSE "pending",
                     approval |-> IF policy = "automatic" THEN "not_required" ELSE "pending",
                     policy |-> policy, origin |-> "public", method |-> method,
                     due |-> due, rescheduled |-> FALSE, link |-> TRUE]
  <1>1. due \in Nat \cup {None}
    BY LedgerAssumption DEF Earlier
  <1>2. method \in {"free", "manual"} /\ policy \in {"automatic", "operator_approval"}
    BY LedgerAssumption
  <1>3. row \in BookingRow /\ row.session = s
    BY <1>1, <1>2 DEF BookingRow, BookingStatuses
  <1>4. PublicRow(s, t, method, policy) = Confirmed(row)
    BY DEF PublicRow
  <1>5. OperatorRow(s, method) \in BookingRow /\ OperatorRow(s, method).session = s
    BY <1>2 DEF OperatorRow, BookingRow, BookingStatuses
  <1> QED
    BY <1>3, <1>4, <1>5, ConfirmedRow

LEMMA OpenRowType ==
    ASSUME NEW v \in Services, NEW t \in Starts
    PROVE  OpenRow(v, t) \in SessionRow
  BY LedgerAssumption DEF OpenRow, SessionRow, SessionStatuses
-----------------------------------------------------------------------------
(* Types *)

\* A transaction that writes one booking row and keeps the sessions.
LEMMA BookingWrite ==
    ASSUME TypeOK, NEW b \in Bookings, NEW row \in BookingRow,
           booking' = [booking EXCEPT ![b] = row],
           session' \in [Sessions -> SessionRow \cup {None}],
           \A s \in Sessions : session[s] # None => session'[s] # None,
           session'[row.session] # None,
           now' = now
    PROVE  TypeOK'
  <1>1. booking' \in [Bookings -> BookingRow \cup {None}]
    BY DEF TypeOK
  <1>2. ASSUME NEW c \in Bookings, booking'[c] # None
        PROVE  session'[booking'[c].session] # None
    <2>1. CASE c = b
      BY <2>1 DEF TypeOK
    <2>2. CASE c # b
      <3>1. booking'[c] = booking[c] /\ booking[c] \in BookingRow
        BY <1>2, <2>2 DEF TypeOK
      <3>2. session[booking[c].session] # None /\ booking[c].session \in Sessions
        BY <1>2, <3>1 DEF TypeOK, BookingRow
      <3> QED
        BY <3>1, <3>2
    <2> QED
      BY <2>1, <2>2
  <1> QED
    BY <1>1, <1>2 DEF TypeOK

\* The row of an existing booking and that of its session.
LEMMA ExistingRow ==
    ASSUME TypeOK, NEW b \in Bookings, booking[b] # None
    PROVE  /\ booking[b] \in BookingRow
           /\ booking[b].session \in Sessions
           /\ session[booking[b].session] # None
           /\ session[booking[b].session] \in SessionRow
  BY DEF TypeOK, BookingRow

\* A change of one existing row that leaves the sessions alone, and one that also
\* gives up the seat of the booking's session.
LEMMA RowChange ==
    ASSUME TypeOK, NEW b \in Bookings, booking[b] # None,
           NEW row \in BookingRow, row.session = booking[b].session,
           booking' = [booking EXCEPT ![b] = row],
           \/ session' = session
           \/ session' = Released(booking', session, b, booking[b].session),
           now' = now
    PROVE  TypeOK'
  <1>1. /\ booking[b].session \in Sessions
        /\ session[booking[b].session] # None
    BY ExistingRow
  <1>2. session \in [Sessions -> SessionRow \cup {None}]
    BY DEF TypeOK
  <1>3. /\ session' \in [Sessions -> SessionRow \cup {None}]
        /\ \A s \in Sessions : session'[s] = None <=> session[s] = None
    BY <1>1, <1>2, ReleasedType
  <1> QED
    BY <1>1, <1>3, BookingWrite

LEMMA OperatorType ==
    ASSUME TypeOK, NEW b \in Bookings, OperatorStep(b)
    PROVE  TypeOK'
  <1>1. ASSUME NEW s \in Sessions, NEW method \in Methods,
               CreateOperatorBooking(b, s, method)
        PROVE  TypeOK'
    <2>1. OperatorRow(s, method) \in BookingRow /\ OperatorRow(s, method).session = s
      BY NewRows, LedgerAssumption DEF TypeOK, OperatorRow, BookingRow, BookingStatuses
    <2> QED
      BY <1>1, <2>1, BookingWrite DEF CreateOperatorBooking, TypeOK
  <1>2. ASSUME NEW s \in Sessions, MoveBooking(b, s)
        PROVE  TypeOK'
    <2> DEFINE row == [booking[b] EXCEPT !.session = s]
               previous == booking[b].session
    <2>1. booking[b] \in BookingRow /\ previous \in Sessions /\ session[previous] # None
      BY <1>2, ExistingRow DEF MoveBooking
    <2>2. row \in BookingRow /\ row.session = s
      BY <2>1 DEF BookingRow
    <2>3. booking' = [booking EXCEPT ![b] = row]
      BY <1>2 DEF MoveBooking
    <2>4. session' = Released(booking', session, b, previous)
      BY <1>2 DEF MoveBooking
    <2>5. /\ session' \in [Sessions -> SessionRow \cup {None}]
          /\ \A o \in Sessions : session'[o] = None <=> session[o] = None
      BY <2>1, <2>4, ReleasedType DEF TypeOK
    <2>6. session'[s] # None /\ now' = now
      BY <1>2, <2>5 DEF MoveBooking
    <2> QED
      BY <2>2, <2>3, <2>5, <2>6, BookingWrite
  <1>3. ASSUME RecordAttendance(b)
        PROVE  TypeOK'
    <2> DEFINE row == [booking[b] EXCEPT !.status = "completed"]
    <2>1. booking[b] # None /\ booking[b] \in BookingRow
      BY <1>3, ExistingRow DEF RecordAttendance
    <2>2. row \in BookingRow /\ row.session = booking[b].session
      BY <2>1 DEF BookingRow, BookingStatuses
    <2> QED
      BY <1>3, <2>1, <2>2, RowChange DEF RecordAttendance
  <1>4. ASSUME RecordPaymentReceived(b)
        PROVE  TypeOK'
    <2> DEFINE paid == [booking[b] EXCEPT !.payment = "paid"]
    <2>1. booking[b] # None /\ booking[b] \in BookingRow
      BY <1>4, ExistingRow DEF RecordPaymentReceived
    <2>2. paid \in BookingRow /\ paid.session = booking[b].session
      BY <2>1 DEF BookingRow
    <2>3. Confirmed(paid) \in BookingRow /\ Confirmed(paid).session = booking[b].session
      BY <2>2, ConfirmedRow
    <2>4. booking' = [booking EXCEPT ![b] = Confirmed(paid)]
      BY <1>4 DEF RecordPaymentReceived
    <2>5. session' = session /\ now' = now
      BY <1>4 DEF RecordPaymentReceived
    <2> QED
      BY <2>1, <2>3, <2>4, <2>5, RowChange
  <1>5. ASSUME Approve(b)
        PROVE  TypeOK'
    <2> DEFINE approved == [booking[b] EXCEPT !.approval = "approved"]
    <2>1. booking[b] # None /\ booking[b] \in BookingRow
      BY <1>5, ExistingRow DEF Approve, AwaitsApproval
    <2>2. approved \in BookingRow /\ approved.session = booking[b].session
      BY <2>1 DEF BookingRow
    <2>3. Confirmed(approved) \in BookingRow
          /\ Confirmed(approved).session = booking[b].session
      BY <2>2, ConfirmedRow
    <2>4. booking' = [booking EXCEPT ![b] = Confirmed(approved)]
      BY <1>5 DEF Approve
    <2>5. session' = session /\ now' = now
      BY <1>5 DEF Approve
    <2> QED
      BY <2>1, <2>3, <2>4, <2>5, RowChange
  <1>6. ASSUME Decline(b)
        PROVE  TypeOK'
    <2> DEFINE row == [booking[b] EXCEPT !.approval = "declined", !.status = "cancelled"]
    <2>1. booking[b] # None /\ booking[b] \in BookingRow
      BY <1>6, ExistingRow DEF Decline, AwaitsApproval
    <2>2. row \in BookingRow /\ row.session = booking[b].session
      BY <2>1 DEF BookingRow, BookingStatuses
    <2>3. booking' = [booking EXCEPT ![b] = row]
      BY <1>6, <2>1 DEF Decline, TypeOK
    <2> QED
      BY <1>6, <2>1, <2>2, <2>3, RowChange DEF Decline
  <1>7. ASSUME Confirm(b)
        PROVE  TypeOK'
    <2> DEFINE row == [booking[b] EXCEPT !.status = "confirmed"]
    <2>1. booking[b] # None /\ booking[b] \in BookingRow
      BY <1>7, ExistingRow DEF Confirm
    <2>2. row \in BookingRow /\ row.session = booking[b].session
      BY <2>1 DEF BookingRow, BookingStatuses
    <2> QED
      BY <1>7, <2>1, <2>2, RowChange DEF Confirm
  <1>8. ASSUME Cancel(b)
        PROVE  TypeOK'
    <2> DEFINE row == [booking[b] EXCEPT !.status = "cancelled"]
    <2>1. booking[b] # None /\ booking[b] \in BookingRow
      BY <1>8, ExistingRow DEF Cancel
    <2>2. row \in BookingRow /\ row.session = booking[b].session
      BY <2>1 DEF BookingRow, BookingStatuses
    <2> QED
      BY <1>8, <2>1, <2>2, RowChange DEF Cancel
  <1>9. ASSUME NEW outcome \in {"completed", "noshow"}, Finish(b, outcome)
        PROVE  TypeOK'
    <2> DEFINE row == [booking[b] EXCEPT !.status = outcome]
    <2>1. booking[b] # None /\ booking[b] \in BookingRow
      BY <1>9, ExistingRow DEF Finish
    <2>2. row \in BookingRow /\ row.session = booking[b].session
      BY <2>1 DEF BookingRow, BookingStatuses
    <2> QED
      BY <1>9, <2>1, <2>2, RowChange DEF Finish
  <1> QED
    BY <1>1, <1>2, <1>3, <1>4, <1>5, <1>6, <1>7, <1>8, <1>9 DEF OperatorStep
LEMMA SweptType ==
    ASSUME TypeOK
    PROVE  /\ SweptBookings \in [Bookings -> BookingRow \cup {None}]
           /\ \A b \in Bookings : SweptBookings[b] = None <=> booking[b] = None
           /\ \A b \in Bookings : booking[b] # None =>
                SweptBookings[b].session = booking[b].session
           /\ SweptSessions \in [Sessions -> SessionRow \cup {None}]
           /\ \A s \in Sessions : SweptSessions[s] = None <=> session[s] = None
  BY SweptRows

\* A public booking commits the sweep together with its own row.
LEMMA SweepAndWrite ==
    ASSUME TypeOK, NEW b \in Bookings, NEW row \in BookingRow,
           booking' = [SweptBookings EXCEPT ![b] = row],
           session' \in [Sessions -> SessionRow \cup {None}],
           \A s \in Sessions : session[s] # None => session'[s] # None,
           session'[row.session] # None,
           now' = now
    PROVE  TypeOK'
  <1>1. booking' \in [Bookings -> BookingRow \cup {None}]
    BY SweptType
  <1>2. ASSUME NEW c \in Bookings, booking'[c] # None
        PROVE  session'[booking'[c].session] # None
    <2>1. CASE c = b
      BY <2>1, SweptType
    <2>2. CASE c # b
      <3>1. booking'[c] = SweptBookings[c]
        BY <2>2, SweptType
      <3>2. booking[c] # None
        BY <1>2, <3>1, SweptType
      <3>3. /\ booking'[c].session = booking[c].session
            /\ booking[c].session \in Sessions
            /\ session[booking[c].session] # None
        BY <3>1, <3>2, SweptType, ExistingRow
      <3> QED
        BY <3>3
    <2> QED
      BY <2>1, <2>2
  <1> QED
    BY <1>1, <1>2 DEF TypeOK

LEMMA CustomerType ==
    ASSUME TypeOK, NEW b \in Bookings, CustomerStep(b)
    PROVE  TypeOK'
  <1>1. ASSUME NEW s \in Sessions, NEW method \in Methods, NEW policy \in Policies,
               PublicBookScheduled(b, s, method, policy)
        PROVE  TypeOK'
    <2> DEFINE row == PublicRow(s, session[s].start, method, policy)
    <2>1. session[s] # None
      BY <1>1, SweptType DEF PublicBookScheduled, OffersSeat
    <2>2. session[s].start \in Starts
      BY <2>1 DEF TypeOK, SessionRow
    <2>3. row \in BookingRow /\ row.session = s
      BY <2>2, NewRows DEF TypeOK
    <2>4. /\ booking' = [SweptBookings EXCEPT ![b] = row]
          /\ session' = SweptSessions /\ now' = now
      BY <1>1 DEF PublicBookScheduled
    <2> QED
      BY <2>1, <2>3, <2>4, SweptType, SweepAndWrite
  <1>2. ASSUME NEW s \in Sessions, NEW method \in Methods, NEW policy \in Policies,
               NEW v \in Services, NEW t \in Starts,
               PublicBookOpen(b, s, v, t, method, policy)
        PROVE  TypeOK'
    <2> DEFINE row == PublicRow(s, t, method, policy)
    <2>1. row \in BookingRow /\ row.session = s
      BY NewRows DEF TypeOK
    <2>2. /\ booking' = [SweptBookings EXCEPT ![b] = row]
          /\ session' = [SweptSessions EXCEPT ![s] = OpenRow(v, t)] /\ now' = now
      BY <1>2 DEF PublicBookOpen
    <2>3. OpenRow(v, t) \in SessionRow /\ OpenRow(v, t) # None
      BY OpenRowType, LedgerAssumption
    <2>4. /\ session' \in [Sessions -> SessionRow \cup {None}]
          /\ \A o \in Sessions : session[o] # None => session'[o] # None
          /\ session'[s] # None
      BY <2>2, <2>3, SweptType
    <2> QED
      BY <2>1, <2>2, <2>4, SweepAndWrite
  <1>3. ASSUME CustomerCancel(b)
        PROVE  TypeOK'
    <2> DEFINE row == [booking[b] EXCEPT !.status = "cancelled"]
    <2>1. booking[b] # None /\ booking[b] \in BookingRow
      BY <1>3, ExistingRow DEF CustomerCancel, CanChange
    <2>2. row \in BookingRow /\ row.session = booking[b].session
      BY <2>1 DEF BookingRow, BookingStatuses
    <2> QED
      BY <1>3, <2>1, <2>2, RowChange DEF CustomerCancel
  <1>4. ASSUME NEW s \in Sessions,
               \/ CustomerRescheduleScheduled(b, s)
               \/ \E t \in Starts : CustomerRescheduleOpen(b, s, t)
        PROVE  TypeOK'
    <2> DEFINE row == [booking[b] EXCEPT !.session = s, !.rescheduled = TRUE]
               previous == booking[b].session
    <2>1. /\ booking[b] # None /\ booking[b] \in BookingRow
          /\ previous \in Sessions /\ session[previous] # None
          /\ session[previous] \in SessionRow
      BY <1>4, ExistingRow
         DEF CustomerRescheduleScheduled, CustomerRescheduleOpen, CanChange
    <2>2. row \in BookingRow /\ row.session = s
      BY <2>1 DEF BookingRow
    <2>3. booking' = [booking EXCEPT ![b] = row] /\ now' = now
      BY <1>4, <2>1 DEF CustomerRescheduleScheduled, CustomerRescheduleOpen, Rebooked, TypeOK
    <2>4. PICK ss \in [Sessions -> SessionRow \cup {None}] :
            /\ session' = Released(booking', ss, b, previous)
            /\ \A o \in Sessions : session[o] # None => ss[o] # None
            /\ ss[s] # None
      <3>1. CASE CustomerRescheduleScheduled(b, s)
        BY <3>1 DEF CustomerRescheduleScheduled, OffersSeat, TypeOK
      <3>2. ASSUME NEW t \in Starts, CustomerRescheduleOpen(b, s, t)
            PROVE  \E ss \in [Sessions -> SessionRow \cup {None}] :
                     /\ session' = Released(booking', ss, b, previous)
                     /\ \A o \in Sessions : session[o] # None => ss[o] # None
                     /\ ss[s] # None
        <4> DEFINE new == OpenRow(session[previous].service, t)
                   opened == [session EXCEPT ![s] = new]
        <4>1. session[previous].service \in Services
          BY <2>1 DEF SessionRow
        <4>2. new \in SessionRow /\ new # None
          BY <4>1, OpenRowType, LedgerAssumption
        <4>3. /\ opened \in [Sessions -> SessionRow \cup {None}]
              /\ \A o \in Sessions : session[o] # None => opened[o] # None
              /\ opened[s] # None
          BY <4>2 DEF TypeOK
        <4>4. session' = Released(booking', opened, b, previous)
          BY <3>2 DEF CustomerRescheduleOpen
        <4> QED
          BY <4>3, <4>4
      <3> QED
        BY <1>4, <3>1, <3>2
    <2>5. ss[previous] # None
      BY <2>1, <2>4
    <2>6. /\ session' \in [Sessions -> SessionRow \cup {None}]
          /\ \A o \in Sessions : session'[o] = None <=> ss[o] = None
      BY <2>1, <2>4, <2>5, ReleasedType
    <2>7. /\ \A o \in Sessions : session[o] # None => session'[o] # None
          /\ session'[s] # None
      BY <2>4, <2>6
    <2> QED
      BY <2>2, <2>3, <2>6, <2>7, BookingWrite
  <1> QED
    BY <1>1, <1>2, <1>3, <1>4 DEF CustomerStep

LEMMA EditorType ==
    ASSUME TypeOK, EditorStep
    PROVE  TypeOK'
  <1>1. PICK s \in Sessions, row \in SessionRow :
          session' = [session EXCEPT ![s] = row] /\ UNCHANGED <<booking, now>>
    BY DEF EditorStep, CreateSession, UpdateSession
  <1>2. row # None
    BY LedgerAssumption
  <1>3. /\ session' \in [Sessions -> SessionRow \cup {None}]
        /\ \A o \in Sessions : session[o] # None => session'[o] # None
    BY <1>1, <1>2 DEF TypeOK
  <1>4. ASSUME NEW b \in Bookings, booking'[b] # None
        PROVE  session'[booking'[b].session] # None
    BY <1>1, <1>3, <1>4, ExistingRow
  <1> QED
    BY <1>1, <1>3, <1>4 DEF TypeOK

LEMMA SweepType ==
    ASSUME TypeOK, ExpireManualBookings
    PROVE  TypeOK'
  <1>1. ASSUME NEW b \in Bookings, booking'[b] # None
        PROVE  session'[booking'[b].session] # None
    <2>1. booking[b] # None /\ booking'[b].session = booking[b].session
      BY <1>1, SweptType DEF ExpireManualBookings
    <2> QED
      BY <2>1, ExistingRow, SweptType DEF ExpireManualBookings
  <1> QED
    BY <1>1, SweptType DEF ExpireManualBookings, TypeOK

\* A reminder gives a booking its link and leaves the rest of its row.
LEMMA ReminderRow ==
    ASSUME TypeOK, NEW b \in Bookings, QueueReminder(b)
    PROVE  \E row \in BookingRow :
              /\ booking[b] \in BookingRow /\ booking[b] # None
              /\ booking' = [booking EXCEPT ![b] = row]
              /\ row.session = booking[b].session /\ row.status = booking[b].status
              /\ row.payment = booking[b].payment /\ row.approval = booking[b].approval
  <1> DEFINE row == [booking[b] EXCEPT !.link = TRUE]
  <1>1. booking[b] \in BookingRow /\ booking[b] # None
    BY ExistingRow DEF QueueReminder
  <1>2. row \in BookingRow
    BY <1>1 DEF BookingRow
  <1>3. /\ row.session = booking[b].session /\ row.status = booking[b].status
        /\ row.payment = booking[b].payment /\ row.approval = booking[b].approval
    BY <1>1 DEF BookingRow
  <1>4. booking' = [booking EXCEPT ![b] = row]
    BY DEF QueueReminder
  <1> HIDE DEF row
  <1> QED
    BY <1>1, <1>2, <1>3, <1>4

LEMMA ReminderType ==
    ASSUME TypeOK, NEW b \in Bookings, QueueReminder(b)
    PROVE  TypeOK'
  <1>1. PICK row \in BookingRow :
          /\ booking[b] # None /\ row.session = booking[b].session
          /\ booking' = [booking EXCEPT ![b] = row]
    BY ReminderRow
  <1>2. session' = session /\ now' = now
    BY DEF QueueReminder
  <1> QED
    BY <1>1, <1>2, RowChange

\* Every step of the ledger keeps the tables typed and their references valid.
LEMMA StepType == TypeOK /\ [Next]_vars => TypeOK'
  <1> SUFFICES ASSUME TypeOK, [Next]_vars PROVE TypeOK'
    OBVIOUS
  <1>1. CASE UNCHANGED vars
    BY <1>1 DEF vars, TypeOK
  <1>2. CASE Tick
    BY <1>2, LedgerAssumption DEF Tick, TypeOK
  <1> QED
    BY <1>1, <1>2, OperatorType, CustomerType, ReminderType, EditorType, SweepType
       DEF Next

\* In every reachable state the rows of both tables have their types and no booking
\* refers to a session that does not exist: the foreign key that create_booking's
\* early flush serves (public_booking/repository.py:743).
THEOREM TypeCorrect == Spec => []TypeOK
  <1>1. Init => TypeOK
    BY LedgerAssumption DEF Init, TypeOK
  <1> QED
    BY <1>1, StepType, PTL DEF Spec
-----------------------------------------------------------------------------
(* The ledger implements BookingLifecycle *)

LifeSteps == \A c \in Bookings :
                Lifecycle!Step(LifeOf(booking[c]), LifeOf(booking'[c]))

LEMMA LifeOfRow ==
    ASSUME NEW r \in BookingRow
    PROVE  LifeOf(r) = [status |-> r.status, payment |-> r.payment,
                        approval |-> r.approval]
  BY LedgerAssumption DEF LifeOf

LEMMA WriteLife ==
    ASSUME TypeOK, NEW b \in Bookings, NEW row,
           booking' = [booking EXCEPT ![b] = row],
           Lifecycle!Step(LifeOf(booking[b]), LifeOf(row))
    PROVE  LifeSteps
  <1> SUFFICES ASSUME NEW c \in Bookings
               PROVE  Lifecycle!Step(LifeOf(booking[c]), LifeOf(booking'[c]))
    BY DEF LifeSteps
  <1>1. CASE c = b
    <2>1. booking'[b] = row
      BY DEF TypeOK
    <2> QED
      BY <1>1, <2>1
  <1>2. CASE c # b
    <2>1. booking'[c] = booking[c]
      BY <1>2 DEF TypeOK
    <2> QED
      BY <2>1 DEF Lifecycle!Step
  <1> QED
    BY <1>1, <1>2

\* The life of a pending row after a command opened one of its gates.
LEMMA ConfirmedLife ==
    ASSUME NEW r \in BookingRow, r.status = "pending"
    PROVE  /\ Lifecycle!Awaits(LifeOf(Confirmed(r)))
           /\ LifeOf(Confirmed(r)).payment = r.payment
           /\ LifeOf(Confirmed(r)).approval = r.approval
  <1>1. CASE Ready(r)
    <2> DEFINE row == [r EXCEPT !.status = "confirmed"]
    <2>1. /\ row \in BookingRow /\ row.status = "confirmed"
          /\ row.payment = r.payment /\ row.approval = r.approval
      BY DEF BookingRow, BookingStatuses
    <2>2. LifeOf(row) = [status |-> "confirmed", payment |-> r.payment,
                         approval |-> r.approval]
      BY <2>1, LifeOfRow
    <2>3. Confirmed(r) = row
      BY <1>1 DEF Confirmed
    <2> QED
      BY <1>1, <2>2, <2>3 DEF Ready, Lifecycle!Awaits, Lifecycle!GatesPassed
  <1>2. CASE ~Ready(r)
    <2>1. Confirmed(r) = r
      BY <1>2 DEF Confirmed
    <2> QED
      BY <1>2, <2>1, LifeOfRow DEF Ready, Lifecycle!Awaits, Lifecycle!GatesPassed
  <1> QED
    BY <1>1, <1>2

\* A booking that the public page creates comes to life as promised.
LEMMA NewLife ==
    ASSUME NEW s \in Sessions, NEW t \in Starts, NEW method \in Methods,
           NEW policy \in Policies, now \in 0..MaxTime
    PROVE  Lifecycle!Step(LifeOf(None), LifeOf(PublicRow(s, t, method, policy)))
  <1> DEFINE due == IF method = "manual" THEN Earlier(now + PaymentWindow, t) ELSE None
             row == [session |-> s, status |-> "pending",
                     payment |-> IF method = "free" THEN "free" ELSE "pending",
                     approval |-> IF policy = "automatic" THEN "not_required" ELSE "pending",
                     policy |-> policy, origin |-> "public", method |-> method,
                     due |-> due, rescheduled |-> FALSE, link |-> TRUE]
  <1>1. LifeOf(None) = Lifecycle!Absent
    BY DEF LifeOf, Lifecycle!Absent
  <1>2. Lifecycle!Books(LifeOf(None), LifeOf(PublicRow(s, t, method, policy)))
    <2>1. due \in Nat \cup {None}
      BY LedgerAssumption DEF Earlier
    <2>2. method \in {"free", "manual"} /\ policy \in {"automatic", "operator_approval"}
      BY LedgerAssumption
    <2>3. /\ row \in BookingRow /\ row.status = "pending"
          /\ row.payment \in {"free", "pending"}
          /\ row.approval \in {"not_required", "pending"}
      BY <2>1, <2>2 DEF BookingRow, BookingStatuses
    <2>4. PublicRow(s, t, method, policy) = Confirmed(row)
      BY DEF PublicRow
    <2> HIDE DEF row
    <2>5. /\ Lifecycle!Awaits(LifeOf(Confirmed(row)))
          /\ LifeOf(Confirmed(row)).payment = row.payment
          /\ LifeOf(Confirmed(row)).approval = row.approval
      BY <2>3, ConfirmedLife
    <2> QED
      BY <1>1, <2>3, <2>4, <2>5 DEF Lifecycle!Books, Lifecycle!Awaits
  <1> QED
    BY <1>2 DEF Lifecycle!Step

LEMMA SweptLife ==
    ASSUME TypeOK, NEW b \in Bookings
    PROVE  Lifecycle!Step(LifeOf(booking[b]), LifeOf(SweptBookings[b]))
  <1>1. CASE Expirable(b)
    <2> DEFINE row == [booking[b] EXCEPT !.status = "cancelled", !.payment = "overdue"]
    <2>1. booking[b] \in BookingRow
      BY <1>1 DEF TypeOK, Expirable
    <2>2. row \in BookingRow /\ row.status = "cancelled" /\ row.payment = "overdue"
          /\ row.approval = booking[b].approval
      BY <2>1 DEF BookingRow, BookingStatuses
    <2>3. LifeOf(row) = [status |-> row.status, payment |-> row.payment,
                         approval |-> row.approval]
      BY <2>2, LifeOfRow
    <2>4. Lifecycle!Expires(LifeOf(booking[b]), LifeOf(row))
      BY <1>1, <2>1, <2>2, <2>3, LifeOfRow DEF Expirable, Lifecycle!Expires
    <2>5. SweptBookings[b] = row
      BY <1>1 DEF SweptBookings
    <2> QED
      BY <2>4, <2>5 DEF Lifecycle!Step
  <1>2. CASE ~Expirable(b)
    BY <1>2 DEF SweptBookings, Lifecycle!Step
  <1> QED
    BY <1>1, <1>2

\* A row whose status alone changed.
LEMMA StatusLife ==
    ASSUME NEW r \in BookingRow, NEW status \in BookingStatuses
    PROVE  LifeOf([r EXCEPT !.status = status]) = [LifeOf(r) EXCEPT !.status = status]
  <1> DEFINE row == [r EXCEPT !.status = status]
  <1>1. /\ row \in BookingRow /\ row.status = status
        /\ row.payment = r.payment /\ row.approval = r.approval
    BY DEF BookingRow
  <1>2. LifeOf(r) = [status |-> r.status, payment |-> r.payment, approval |-> r.approval]
    BY LifeOfRow
  <1>3. LifeOf(row) = [status |-> status, payment |-> r.payment, approval |-> r.approval]
    BY <1>1, LifeOfRow
  <1> HIDE DEF row
  <1>4. LifeOf(row) = [LifeOf(r) EXCEPT !.status = status]
    BY <1>2, <1>3
  <1> QED
    BY <1>4 DEF row

LEMMA OperatorLife ==
    ASSUME TypeOK, NEW b \in Bookings, OperatorStep(b)
    PROVE  LifeSteps
  <1>1. ASSUME NEW s \in Sessions, NEW method \in Methods,
               CreateOperatorBooking(b, s, method)
        PROVE  LifeSteps
    <2>1. Lifecycle!Books(LifeOf(None), LifeOf(OperatorRow(s, method)))
      BY LifeOfRow, LedgerAssumption
         DEF OperatorRow, LifeOf, BookingRow, BookingStatuses, Lifecycle!Books, Lifecycle!Absent
    <2> QED
      BY <1>1, <2>1, WriteLife DEF CreateOperatorBooking, Lifecycle!Step
  <1>2. ASSUME NEW s \in Sessions, MoveBooking(b, s)
        PROVE  LifeSteps
    <2> DEFINE row == [booking[b] EXCEPT !.session = s]
    <2>1. booking[b] \in BookingRow
      BY <1>2, ExistingRow DEF MoveBooking
    <2>2. /\ row \in BookingRow /\ row.status = booking[b].status
          /\ row.payment = booking[b].payment /\ row.approval = booking[b].approval
      BY <2>1 DEF BookingRow
    <2>3. LifeOf(row) = LifeOf(booking[b])
      BY <2>1, <2>2, LifeOfRow
    <2>4. booking' = [booking EXCEPT ![b] = row]
      BY <1>2 DEF MoveBooking
    <2> QED
      BY <2>3, <2>4, WriteLife DEF Lifecycle!Step
  <1>3. ASSUME NEW status \in BookingStatuses,
               booking[b] # None,
               booking' = [booking EXCEPT ![b].status = status],
               \/ booking[b].status = status
               \/ booking[b].status = "pending" /\ Ready(booking[b]) /\ status = "confirmed"
               \/ booking[b].status \in Consuming /\ status = "cancelled"
               \/ booking[b].status = "confirmed" /\ status \in {"completed", "noshow"}
        PROVE  LifeSteps
    <2> DEFINE r == LifeOf(booking[b])
               n == LifeOf([booking[b] EXCEPT !.status = status])
    <2>1. booking[b] \in BookingRow
      BY <1>3, ExistingRow
    <2>2. r = [status |-> booking[b].status, payment |-> booking[b].payment,
               approval |-> booking[b].approval]
      BY <2>1, LifeOfRow
    <2>3. n = [r EXCEPT !.status = status]
      BY <2>1, StatusLife
    <2>4. \/ n = r \/ Lifecycle!Confirms(r, n) \/ Lifecycle!Cancels(r, n)
          \/ Lifecycle!Finishes(r, n)
      BY <1>3, <2>2, <2>3
         DEF Ready, Consuming, Lifecycle!Confirms, Lifecycle!Cancels, Lifecycle!Finishes,
             Lifecycle!GatesPassed
    <2> QED
      BY <1>3, <2>4, WriteLife DEF Lifecycle!Step
  <1>4. ASSUME RecordPaymentReceived(b)
        PROVE  LifeSteps
    <2> DEFINE paid == [booking[b] EXCEPT !.payment = "paid"]
    <2>1. booking[b] \in BookingRow
      BY <1>4, ExistingRow DEF RecordPaymentReceived
    <2>2. /\ paid \in BookingRow /\ paid.status = "pending"
          /\ paid.payment = "paid" /\ paid.approval = booking[b].approval
      BY <1>4, <2>1 DEF RecordPaymentReceived, BookingRow
    <2>3. /\ Lifecycle!Awaits(LifeOf(Confirmed(paid)))
          /\ LifeOf(Confirmed(paid)).payment = "paid"
          /\ LifeOf(Confirmed(paid)).approval = booking[b].approval
      BY <2>2, ConfirmedLife
    <2>4. Lifecycle!Pays(LifeOf(booking[b]), LifeOf(Confirmed(paid)))
      BY <1>4, <2>1, <2>3, LifeOfRow DEF RecordPaymentReceived, Lifecycle!Pays
    <2>5. booking' = [booking EXCEPT ![b] = Confirmed(paid)]
      BY <1>4 DEF RecordPaymentReceived
    <2> QED
      BY <2>4, <2>5, WriteLife DEF Lifecycle!Step
  <1>5. ASSUME Approve(b)
        PROVE  LifeSteps
    <2> DEFINE approved == [booking[b] EXCEPT !.approval = "approved"]
    <2>1. booking[b] \in BookingRow
      BY <1>5, ExistingRow DEF Approve, AwaitsApproval
    <2>2. /\ approved \in BookingRow /\ approved.status = "pending"
          /\ approved.approval = "approved" /\ approved.payment = booking[b].payment
      BY <1>5, <2>1 DEF Approve, AwaitsApproval, BookingRow
    <2>3. /\ Lifecycle!Awaits(LifeOf(Confirmed(approved)))
          /\ LifeOf(Confirmed(approved)).approval = "approved"
          /\ LifeOf(Confirmed(approved)).payment = booking[b].payment
      BY <2>2, ConfirmedLife
    <2>4. Lifecycle!Approves(LifeOf(booking[b]), LifeOf(Confirmed(approved)))
      BY <1>5, <2>1, <2>3, LifeOfRow DEF Approve, AwaitsApproval, Lifecycle!Approves
    <2>5. booking' = [booking EXCEPT ![b] = Confirmed(approved)]
      BY <1>5 DEF Approve
    <2> QED
      BY <2>4, <2>5, WriteLife DEF Lifecycle!Step
  <1>6. ASSUME Decline(b)
        PROVE  LifeSteps
    <2> DEFINE row == [booking[b] EXCEPT !.approval = "declined", !.status = "cancelled"]
    <2>1. booking[b] \in BookingRow
      BY <1>6, ExistingRow DEF Decline, AwaitsApproval
    <2>2. /\ row \in BookingRow /\ row.status = "cancelled"
          /\ row.approval = "declined" /\ row.payment = booking[b].payment
      BY <2>1 DEF BookingRow, BookingStatuses
    <2>3. LifeOf(row) = [status |-> row.status, payment |-> row.payment,
                         approval |-> row.approval]
      BY <2>2, LifeOfRow
    <2>4. Lifecycle!Declines(LifeOf(booking[b]), LifeOf(row))
      BY <1>6, <2>1, <2>2, <2>3, LifeOfRow DEF Decline, AwaitsApproval, Lifecycle!Declines
    <2>5. booking' = [booking EXCEPT ![b] = row]
      BY <1>6, <2>1 DEF Decline, TypeOK
    <2> QED
      BY <2>4, <2>5, WriteLife DEF Lifecycle!Step
  <1>7. RecordAttendance(b) => LifeSteps
    BY <1>3 DEF RecordAttendance, BookingStatuses
  <1>8. Confirm(b) => LifeSteps
    BY <1>3 DEF Confirm, BookingStatuses
  <1>9. Cancel(b) => LifeSteps
    BY <1>3 DEF Cancel, BookingStatuses
  <1>10. ASSUME NEW outcome \in {"completed", "noshow"}, Finish(b, outcome)
         PROVE  LifeSteps
    BY <1>3, <1>10 DEF Finish, BookingStatuses
  <1> QED
    BY <1>1, <1>2, <1>4, <1>5, <1>6, <1>7, <1>8, <1>9, <1>10 DEF OperatorStep
\* A sweep that commits with the row of a booking that did not exist.
LEMMA SweepLife ==
    ASSUME TypeOK, NEW b \in Bookings, NEW row,
           \/ booking' = SweptBookings
           \/ /\ SweptBookings[b] = None
              /\ booking' = [SweptBookings EXCEPT ![b] = row]
              /\ Lifecycle!Step(LifeOf(None), LifeOf(row))
    PROVE  LifeSteps
  <1> SUFFICES ASSUME NEW c \in Bookings
               PROVE  Lifecycle!Step(LifeOf(booking[c]), LifeOf(booking'[c]))
    BY DEF LifeSteps
  <1>1. CASE booking'[c] = SweptBookings[c]
    BY <1>1, SweptLife
  <1>2. CASE booking'[c] # SweptBookings[c]
    <2>1. c = b /\ booking'[b] = row /\ booking[b] = None
      BY <1>2, SweptType
    <2>2. Lifecycle!Step(LifeOf(None), LifeOf(row))
      BY <1>2
    <2> QED
      BY <2>1, <2>2
  <1> QED
    BY <1>1, <1>2

LEMMA CustomerLife ==
    ASSUME TypeOK, NEW b \in Bookings, CustomerStep(b)
    PROVE  LifeSteps
  <1>1. ASSUME NEW s \in Sessions, NEW method \in Methods, NEW policy \in Policies,
               PublicBookScheduled(b, s, method, policy)
        PROVE  LifeSteps
    <2> DEFINE row == PublicRow(s, session[s].start, method, policy)
    <2>1. session[s].start \in Starts
      BY <1>1, SweptType DEF PublicBookScheduled, OffersSeat, TypeOK, SessionRow
    <2>2. Lifecycle!Step(LifeOf(None), LifeOf(row))
      BY <2>1, NewLife DEF TypeOK
    <2>3. SweptBookings[b] = None /\ booking' = [SweptBookings EXCEPT ![b] = row]
      BY <1>1 DEF PublicBookScheduled
    <2> QED
      BY <2>2, <2>3, SweepLife
  <1>2. ASSUME NEW s \in Sessions, NEW method \in Methods, NEW policy \in Policies,
               NEW v \in Services, NEW t \in Starts,
               PublicBookOpen(b, s, v, t, method, policy)
        PROVE  LifeSteps
    <2> DEFINE row == PublicRow(s, t, method, policy)
    <2>1. Lifecycle!Step(LifeOf(None), LifeOf(row))
      BY NewLife DEF TypeOK
    <2>2. SweptBookings[b] = None /\ booking' = [SweptBookings EXCEPT ![b] = row]
      BY <1>2 DEF PublicBookOpen
    <2> QED
      BY <2>1, <2>2, SweepLife
  <1>3. ASSUME CustomerCancel(b)
        PROVE  LifeSteps
    <2> DEFINE row == [booking[b] EXCEPT !.status = "cancelled"]
    <2>1. booking[b] \in BookingRow
      BY <1>3, ExistingRow DEF CustomerCancel, CanChange
    <2>2. LifeOf(row) = [LifeOf(booking[b]) EXCEPT !.status = "cancelled"]
      BY <2>1, StatusLife DEF BookingStatuses
    <2>3. LifeOf(booking[b]).status \in {"pending", "confirmed"}
      BY <1>3, <2>1, LifeOfRow DEF CustomerCancel, CanChange, Consuming
    <2>4. booking' = [booking EXCEPT ![b] = row]
      BY <1>3 DEF CustomerCancel
    <2> QED
      BY <2>2, <2>3, <2>4, WriteLife DEF Lifecycle!Step, Lifecycle!Cancels
  <1>4. ASSUME NEW s \in Sessions,
               \/ CustomerRescheduleScheduled(b, s)
               \/ \E t \in Starts : CustomerRescheduleOpen(b, s, t)
        PROVE  LifeSteps
    <2> DEFINE row == [booking[b] EXCEPT !.session = s, !.rescheduled = TRUE]
    <2>1. booking[b] # None /\ booking[b] \in BookingRow
      BY <1>4, ExistingRow
         DEF CustomerRescheduleScheduled, CustomerRescheduleOpen, CanChange
    <2>2. /\ row \in BookingRow /\ row.status = booking[b].status
          /\ row.payment = booking[b].payment /\ row.approval = booking[b].approval
      BY <2>1 DEF BookingRow
    <2>3. LifeOf(row) = LifeOf(booking[b])
      BY <2>1, <2>2, LifeOfRow
    <2>4. booking' = [booking EXCEPT ![b] = row]
      BY <1>4, <2>1 DEF CustomerRescheduleScheduled, CustomerRescheduleOpen, Rebooked, TypeOK
    <2> QED
      BY <2>3, <2>4, WriteLife DEF Lifecycle!Step
  <1> QED
    BY <1>1, <1>2, <1>3, <1>4 DEF CustomerStep

\* Whatever transaction commits, every booking's life takes one promised step or none.
LEMMA StepLife == TypeOK /\ [Next]_vars => LifeSteps
  <1> SUFFICES ASSUME TypeOK, [Next]_vars PROVE LifeSteps
    OBVIOUS
  <1>1. CASE booking' = booking
    BY <1>1 DEF LifeSteps, Lifecycle!Step
  <1>2. CASE ExpireManualBookings
    BY <1>2, SweptLife DEF ExpireManualBookings, LifeSteps
  <1>3. ASSUME NEW b \in Bookings, QueueReminder(b)
        PROVE  LifeSteps
    <2>1. PICK row \in BookingRow :
            /\ booking[b] \in BookingRow /\ booking' = [booking EXCEPT ![b] = row]
            /\ row.status = booking[b].status /\ row.payment = booking[b].payment
            /\ row.approval = booking[b].approval
      BY <1>3, ReminderRow
    <2>2. LifeOf(row) = LifeOf(booking[b])
      BY <2>1, LifeOfRow
    <2> QED
      BY <2>1, <2>2, WriteLife DEF Lifecycle!Step
  <1> QED
    BY <1>1, <1>2, <1>3, OperatorLife, CustomerLife
       DEF Next, vars, Tick, EditorStep, CreateSession, UpdateSession

\* The ledger implements the abstract lifecycle: a booking's status, payment and
\* approval change only as BookingLifecycle says, under every interleaving of the
\* operator, the customers and the sweep (bookings/repository.py:458-637).
THEOREM LedgerImplementsLifecycle == Spec => ImplementsLifecycle
  <1>1. Init => Lifecycle!Init
    BY DEF Init, Lifecycle!Init, LifeOf, Lifecycle!Absent
  <1>2. TypeOK /\ [Next]_vars =>
          [Lifecycle!Next]_[b \in Bookings |-> LifeOf(booking[b])]
    <2> SUFFICES ASSUME TypeOK, [Next]_vars PROVE Lifecycle!Next
      OBVIOUS
    <2>1. LifeSteps
      BY StepLife
    <2> QED
      BY <2>1 DEF LifeSteps, Lifecycle!Next
  <1> QED
    BY <1>1, <1>2, TypeCorrect, PTL DEF Spec, ImplementsLifecycle, Lifecycle!Spec

-----------------------------------------------------------------------------
(* The confirmation gate *)

GateOf(l) == l.status \in {"confirmed", "completed", "noshow"} =>
                Lifecycle!GatesPassed(l)

\* A promised step passes the gate on: nothing is confirmed behind a shut gate, and
\* no payment or approval is withdrawn afterwards.
LEMMA GateStep ==
    ASSUME NEW r, NEW n, GateOf(r), Lifecycle!Step(r, n),
           NEW st, NEW pay, NEW app,
           r = [status |-> st, payment |-> pay, approval |-> app]
    PROVE  GateOf(n)
  <1>1. CASE n = r
    BY <1>1
  <1>2. CASE Lifecycle!Books(r, n)
    BY <1>2 DEF GateOf, Lifecycle!Books
  <1>3. CASE Lifecycle!Pays(r, n) \/ Lifecycle!Approves(r, n)
    BY <1>3 DEF GateOf, Lifecycle!Pays, Lifecycle!Approves, Lifecycle!Awaits
  <1>4. CASE Lifecycle!Declines(r, n) \/ Lifecycle!Expires(r, n)
    BY <1>4 DEF GateOf, Lifecycle!Declines, Lifecycle!Expires
  <1>5. ASSUME NEW status, n = [r EXCEPT !.status = status],
               status = "cancelled" \/ Lifecycle!GatesPassed(r)
        PROVE  GateOf(n)
    <2>1. n.status = status /\ n.payment = r.payment /\ n.approval = r.approval
      BY <1>5
    <2> QED
      BY <1>5, <2>1 DEF GateOf, Lifecycle!GatesPassed
  <1>6. CASE Lifecycle!Confirms(r, n) \/ Lifecycle!Cancels(r, n)
    BY <1>5, <1>6 DEF Lifecycle!Confirms, Lifecycle!Cancels
  <1>7. CASE Lifecycle!Finishes(r, n)
    BY <1>5, <1>7 DEF Lifecycle!Finishes, GateOf
  <1> QED
    BY <1>1, <1>2, <1>3, <1>4, <1>6, <1>7 DEF Lifecycle!Step

LEMMA GateOfLife ==
    ASSUME TypeOK
    PROVE  ConfirmationGate <=> \A b \in Bookings : GateOf(LifeOf(booking[b]))
  <1>1. ASSUME NEW b \in Bookings
        PROVE  GateOf(LifeOf(booking[b])) <=>
                 (booking[b] # None =>
                   (booking[b].status \in {"confirmed", "completed", "noshow"} =>
                      Ready(booking[b])))
    <2>1. CASE booking[b] = None
      BY <2>1 DEF LifeOf, GateOf
    <2>2. CASE booking[b] # None
      BY <2>2, ExistingRow, LifeOfRow DEF GateOf, Lifecycle!GatesPassed, Ready
    <2> QED
      BY <2>1, <2>2
  <1> QED
    BY <1>1 DEF ConfirmationGate

\* No booking of any reachable state is confirmed, completed or a no-show unless its
\* payment is free or paid and its approval was not required or given.
THEOREM GateHolds == Spec => []ConfirmationGate
  <1>1. Init => ConfirmationGate
    BY DEF Init, ConfirmationGate
  <1>2. TypeOK /\ ConfirmationGate /\ [Next]_vars => ConfirmationGate'
    <2> SUFFICES ASSUME TypeOK, ConfirmationGate, [Next]_vars,
                        NEW b \in Bookings, booking'[b] # None
                 PROVE  booking'[b].status \in {"confirmed", "completed", "noshow"}
                            => Ready(booking'[b])
      BY DEF ConfirmationGate
    <2>1. TypeOK'
      BY StepType
    <2>2. GateOf(LifeOf(booking[b]))
      BY GateOfLife
    <2>3. Lifecycle!Step(LifeOf(booking[b]), LifeOf(booking'[b]))
      BY StepLife DEF LifeSteps
    <2>4. PICK st, pay, app :
            LifeOf(booking[b]) = [status |-> st, payment |-> pay, approval |-> app]
      BY DEF LifeOf
    <2>5. GateOf(LifeOf(booking'[b]))
      BY <2>2, <2>3, <2>4, GateStep
    <2>6. booking'[b] \in BookingRow
      BY <2>1 DEF TypeOK
    <2> QED
      BY <2>5, <2>6, LifeOfRow DEF GateOf, Lifecycle!GatesPassed, Ready
  <1> QED
    BY <1>1, <1>2, TypeCorrect, PTL DEF Spec
-----------------------------------------------------------------------------
(* Operator sessions *)

\* A transaction that writes bookings leaves every session as it was, opens it, or
\* found it to be a public one.
LEMMA SideEffects ==
    ASSUME TypeOK, Next, booking' # booking, NEW s \in Sessions, session[s] # None
    PROVE  session'[s] = session[s] \/ session[s].origin = "public_open"
  <1>1. ASSUME NEW b \in Bookings, NEW bk, booking[b] # None,
               session' = Released(bk, session, b, booking[b].session)
        PROVE  session'[s] = session[s] \/ session[s].origin = "public_open"
    <2>1. booking[b].session \in Sessions /\ session[booking[b].session] # None
      BY <1>1, ExistingRow
    <2> QED
      BY <1>1, <2>1 DEF Released, TypeOK
  <1>2. SweptSessions[s] = session[s] \/ session[s].origin = "public_open"
    BY SweptRows
  <1>3. ASSUME NEW b \in Bookings, OperatorStep(b)
        PROVE  session'[s] = session[s] \/ session[s].origin = "public_open"
    BY <1>1, <1>3
       DEF OperatorStep, CreateOperatorBooking, MoveBooking, RecordAttendance,
           RecordPaymentReceived, Approve, Decline, AwaitsApproval, Confirm, Cancel, Finish
  <1>4. ASSUME NEW b \in Bookings, NEW o \in Sessions, NEW t \in Starts,
               CustomerRescheduleOpen(b, o, t)
        PROVE  session'[s] = session[s] \/ session[s].origin = "public_open"
    <2> DEFINE previous == booking[b].session
               opened == [session EXCEPT ![o] = OpenRow(session[previous].service, t)]
    <2>1. session[o] = None /\ session' = Released(booking', opened, b, previous)
      BY <1>4 DEF CustomerRescheduleOpen, OpensSlot
    <2>2. opened[s] = session[s] /\ DOMAIN opened = Sessions
      BY <2>1 DEF TypeOK
    <2> HIDE DEF opened
    <2> QED
      BY <2>1, <2>2 DEF Released
  <1>5. ASSUME NEW b \in Bookings, CustomerStep(b)
        PROVE  session'[s] = session[s] \/ session[s].origin = "public_open"
    <2>1. ASSUME NEW o \in Sessions, NEW v \in Services, NEW t \in Starts,
                 NEW method \in Methods, NEW policy \in Policies,
                 PublicBookOpen(b, o, v, t, method, policy)
          PROVE  session'[s] = session[s] \/ session[s].origin = "public_open"
      <3>1. session[o] = None /\ session' = [SweptSessions EXCEPT ![o] = OpenRow(v, t)]
        BY <2>1, SweptType DEF PublicBookOpen, OpensSlot
      <3>2. session'[s] = SweptSessions[s]
        BY <3>1, SweptType
      <3> QED
        BY <3>2, <1>2
    <2>2. CASE CustomerCancel(b)
      BY <2>2, <1>1 DEF CustomerCancel, CanChange
    <2>3. ASSUME NEW o \in Sessions, CustomerRescheduleScheduled(b, o)
          PROVE  session'[s] = session[s] \/ session[s].origin = "public_open"
      BY <2>3, <1>1 DEF CustomerRescheduleScheduled, CanChange
    <2>4. ASSUME NEW o \in Sessions, NEW method \in Methods, NEW policy \in Policies,
                 PublicBookScheduled(b, o, method, policy)
          PROVE  session'[s] = session[s] \/ session[s].origin = "public_open"
      BY <2>4, <1>2 DEF PublicBookScheduled
    <2> QED
      BY <1>4, <1>5, <2>1, <2>2, <2>3, <2>4 DEF CustomerStep
  <1> QED
    BY <1>2, <1>3, <1>5
       DEF Next, QueueReminder, ExpireManualBookings, EditorStep, CreateSession, UpdateSession, Tick

\* No cancellation, decline, expiry, move or reschedule of a booking ever cancels a
\* session that the operator created.
THEOREM OperatorSessionsSurvive == Spec => OperatorSessionsKept
  <1>1. TypeOK /\ [Next]_vars => [OperatorSessionKept]_vars
    BY SideEffects DEF OperatorSessionKept, vars
  <1> QED
    BY <1>1, TypeCorrect, PTL DEF Spec, OperatorSessionsKept

-----------------------------------------------------------------------------
(* Seats *)

LEMMA OneMoreSeat ==
    ASSUME NEW A, NEW B \in SUBSET Bookings, NEW b, NEW cap \in Nat,
           A \subseteq B \cup {b}, Cardinality(B) < cap
    PROVE  Cardinality(A) <= cap
  <1>1. IsFiniteSet(B)
    BY LedgerAssumption, FS_Subset
  <1>2. /\ IsFiniteSet(B \cup {b}) /\ Cardinality(B) \in Nat
        /\ Cardinality(B \cup {b}) <= Cardinality(B) + 1
    BY <1>1, FS_AddElement, FS_CardinalityType
  <1>3. /\ Cardinality(A) \in Nat /\ Cardinality(B \cup {b}) \in Nat
        /\ Cardinality(A) <= Cardinality(B \cup {b})
    BY <1>2, FS_Subset, FS_CardinalityType
  <1> QED
    BY <1>2, <1>3

\* A row that keeps its session and takes up no seat.
LEMMA NoNewSeat ==
    ASSUME TypeOK, NEW b \in Bookings, NEW row, booking[b] # None,
           booking' = [booking EXCEPT ![b] = row],
           row.session = booking[b].session,
           row.status \in Consuming => booking[b].status \in Consuming
    PROVE  SeatsWithinCapacity
  <1>1. ASSUME NEW c \in Bookings, NEW s \in Sessions, c \in Holders(booking', s)
        PROVE  c \in Holders(booking, s)
    <2>1. CASE c = b
      BY <1>1, <2>1 DEF Holders, TypeOK
    <2>2. CASE c # b
      BY <1>1, <2>2 DEF Holders, TypeOK
    <2> QED
      BY <2>1, <2>2
  <1> QED
    BY <1>1 DEF SeatsWithinCapacity

\* A row that takes a seat of s, after bookings bk in which every holder already
\* held its seat, when s has a seat left.
LEMMA NewSeat ==
    ASSUME NEW bk, DOMAIN bk = Bookings,
           \A c \in Bookings, s \in Sessions :
                c \in Holders(bk, s) => c \in Holders(booking, s),
           NEW b \in Bookings, NEW row, NEW seat \in Sessions, row.session = seat,
           booking' = [bk EXCEPT ![b] = row],
           session'[seat].capacity \in Nat,
           Cardinality(Holders(bk, seat)) < session'[seat].capacity
    PROVE  SeatsWithinCapacity
  <1> SUFFICES ASSUME NEW c \in Bookings, NEW s \in Sessions,
                      c \in Holders(booking', s), c \notin Holders(booking, s)
               PROVE  Cardinality(Holders(booking', s)) <= session'[s].capacity
    BY DEF SeatsWithinCapacity
  <1>1. ASSUME NEW d \in Bookings, NEW o \in Sessions, d \in Holders(booking', o), d # b
        PROVE  d \in Holders(bk, o)
    BY <1>1 DEF Holders
  <1>2. c = b
    BY <1>1
  <1>3. s = seat
    BY <1>2 DEF Holders
  <1>4. Holders(booking', seat) \subseteq Holders(bk, seat) \cup {b}
    BY <1>1 DEF Holders
  <1>5. Holders(bk, seat) \in SUBSET Bookings
    BY DEF Holders
  <1> QED
    BY <1>3, <1>4, <1>5, OneMoreSeat

LEMMA SweptHolders ==
    ASSUME TypeOK
    PROVE  \A c \in Bookings, s \in Sessions :
                c \in Holders(SweptBookings, s) => c \in Holders(booking, s)
  <1> SUFFICES ASSUME NEW c \in Bookings, NEW s \in Sessions,
                      c \in Holders(SweptBookings, s)
               PROVE  c \in Holders(booking, s)
    OBVIOUS
  <1>1. CASE Expirable(c)
    <2> DEFINE row == [booking[c] EXCEPT !.status = "cancelled", !.payment = "overdue"]
    <2>1. booking[c] \in BookingRow
      BY <1>1 DEF Expirable, TypeOK
    <2>2. row.status = "cancelled"
      BY <2>1 DEF BookingRow
    <2>3. SweptBookings[c] = row
      BY <1>1 DEF SweptBookings
    <2> QED
      BY <2>2, <2>3 DEF Holders, Consuming
  <1>2. CASE ~Expirable(c)
    BY <1>2 DEF Holders, SweptBookings
  <1> QED
    BY <1>1, <1>2

LEMMA CapacityNat ==
    ASSUME NEW row \in SessionRow
    PROVE  row.capacity \in Nat
  BY LedgerAssumption DEF SessionRow

\* Nobody holds a seat of a session that does not exist.
LEMMA NoHolders ==
    ASSUME TypeOK, NEW s \in Sessions, session[s] = None
    PROVE  Holders(SweptBookings, s) = {} /\ Holders(booking, s) = {}
  <1>1. Holders(booking, s) = {}
    BY ExistingRow DEF Holders
  <1> QED
    BY <1>1, SweptHolders DEF Holders

\* Cancelling a session, by a release or by the sweep, keeps its capacity.
LEMMA ReleasedCapacity ==
    ASSUME NEW ss \in [Sessions -> SessionRow \cup {None}],
           NEW s \in Sessions, ss[s] # None, NEW b, NEW bk,
           NEW o \in Sessions, ss[o] # None
    PROVE  Released(bk, ss, b, s)[o].capacity = ss[o].capacity
  <1> DEFINE row == [ss[s] EXCEPT !.status = "cancelled"]
  <1>1. ss[s] \in SessionRow
    OBVIOUS
  <1>2. row.capacity = ss[s].capacity
    BY <1>1 DEF SessionRow
  <1>3. \/ Released(bk, ss, b, s) = ss
        \/ Released(bk, ss, b, s) = [ss EXCEPT ![s] = row]
    BY DEF Released
  <1> HIDE DEF row
  <1> QED
    BY <1>2, <1>3

LEMMA SweptCapacity ==
    ASSUME TypeOK, NEW o \in Sessions, session[o] # None
    PROVE  SweptSessions[o].capacity = session[o].capacity
  <1> DEFINE row == [session[o] EXCEPT !.status = "cancelled"]
  <1>1. session[o] \in SessionRow
    BY DEF TypeOK
  <1>2. row.capacity = session[o].capacity
    BY <1>1 DEF SessionRow
  <1>3. SweptSessions[o] = session[o] \/ SweptSessions[o] = row
    BY DEF SweptSessions
  <1> HIDE DEF row
  <1> QED
    BY <1>2, <1>3

LEMMA OperatorSeats ==
    ASSUME TypeOK, NEW b \in Bookings, OperatorStep(b)
    PROVE  SeatsWithinCapacity
  <1>1. ASSUME NEW s \in Sessions, NEW method \in Methods,
               CreateOperatorBooking(b, s, method)
        PROVE  SeatsWithinCapacity
    <2>1. session[s] \in SessionRow /\ session' = session
      BY <1>1 DEF CreateOperatorBooking, TypeOK
    <2>2. OperatorRow(s, method).session = s
      BY DEF OperatorRow
    <2>3. /\ booking' = [booking EXCEPT ![b] = OperatorRow(s, method)]
          /\ Cardinality(Holders(booking, s)) < session'[s].capacity
      BY <1>1 DEF CreateOperatorBooking, HasSeat
    <2>4. session'[s].capacity \in Nat
      BY <2>1, CapacityNat
    <2>5. DOMAIN booking = Bookings
      BY DEF TypeOK
    <2> QED
      BY <2>2, <2>3, <2>4, <2>5, NewSeat
  <1>2. ASSUME NEW s \in Sessions, MoveBooking(b, s)
        PROVE  SeatsWithinCapacity
    <2> DEFINE row == [booking[b] EXCEPT !.session = s]
               previous == booking[b].session
    <2>1. /\ booking[b] \in BookingRow /\ previous \in Sessions
          /\ session[previous] # None
      BY <1>2, ExistingRow DEF MoveBooking
    <2>2. row.session = s
      BY <2>1 DEF BookingRow
    <2>3. session[s] # None /\ session[s] \in SessionRow
      BY <1>2 DEF MoveBooking, TypeOK
    <2>4. /\ booking' = [booking EXCEPT ![b] = row]
          /\ session' = Released(booking', session, b, previous)
          /\ Cardinality(Holders(booking, s)) < session[s].capacity
      BY <1>2 DEF MoveBooking, HasSeat
    <2>5. session'[s].capacity = session[s].capacity
      BY <2>1, <2>3, <2>4, ReleasedCapacity DEF TypeOK
    <2>6. session'[s].capacity \in Nat
      BY <2>3, <2>5, CapacityNat
    <2>7. DOMAIN booking = Bookings
      BY DEF TypeOK
    <2> HIDE DEF row
    <2> QED
      BY <2>2, <2>4, <2>5, <2>6, <2>7, NewSeat
  <1>3. ASSUME booking[b] # None, NEW row, row.session = booking[b].session,
               row.status \in Consuming => booking[b].status \in Consuming,
               booking' = [booking EXCEPT ![b] = row]
        PROVE  SeatsWithinCapacity
    BY <1>3, NoNewSeat
  <1>4. ASSUME booking[b] # None, NEW status,
               status \in Consuming => booking[b].status \in Consuming,
               booking' = [booking EXCEPT ![b].status = status]
        PROVE  SeatsWithinCapacity
    <2> DEFINE row == [booking[b] EXCEPT !.status = status]
    <2>1. booking[b] \in BookingRow
      BY <1>4, ExistingRow
    <2>2. row.session = booking[b].session /\ row.status = status
      BY <2>1 DEF BookingRow
    <2>3. booking' = [booking EXCEPT ![b] = row]
      BY <1>4
    <2> HIDE DEF row
    <2> QED
      BY <1>3, <1>4, <2>2, <2>3
  <1>5. ASSUME RecordPaymentReceived(b)
        PROVE  SeatsWithinCapacity
    <2> DEFINE paid == [booking[b] EXCEPT !.payment = "paid"]
    <2>1. booking[b] \in BookingRow
      BY <1>5, ExistingRow DEF RecordPaymentReceived
    <2>2. paid \in BookingRow /\ paid.session = booking[b].session
      BY <2>1 DEF BookingRow
    <2>3. booking' = [booking EXCEPT ![b] = Confirmed(paid)]
      BY <1>5 DEF RecordPaymentReceived
    <2>4. Confirmed(paid).session = booking[b].session
      BY <2>2, ConfirmedRow
    <2>5. booking[b] # None /\ booking[b].status \in Consuming
      BY <1>5 DEF RecordPaymentReceived, Consuming
    <2> HIDE DEF paid
    <2> QED
      BY <1>3, <2>3, <2>4, <2>5
  <1>6. ASSUME Approve(b)
        PROVE  SeatsWithinCapacity
    <2> DEFINE approved == [booking[b] EXCEPT !.approval = "approved"]
    <2>1. booking[b] \in BookingRow
      BY <1>6, ExistingRow DEF Approve, AwaitsApproval
    <2>2. approved \in BookingRow /\ approved.session = booking[b].session
      BY <2>1 DEF BookingRow
    <2>3. booking' = [booking EXCEPT ![b] = Confirmed(approved)]
      BY <1>6 DEF Approve
    <2>4. Confirmed(approved).session = booking[b].session
      BY <2>2, ConfirmedRow
    <2>5. booking[b] # None /\ booking[b].status \in Consuming
      BY <1>6 DEF Approve, AwaitsApproval, Consuming
    <2> HIDE DEF approved
    <2> QED
      BY <1>3, <2>3, <2>4, <2>5
  <1>7. ASSUME Decline(b)
        PROVE  SeatsWithinCapacity
    <2> DEFINE row == [booking[b] EXCEPT !.approval = "declined", !.status = "cancelled"]
    <2>1. booking[b] \in BookingRow /\ booking[b] # None
      BY <1>7, ExistingRow DEF Decline, AwaitsApproval
    <2>2. row.session = booking[b].session /\ row.status = "cancelled"
      BY <2>1 DEF BookingRow
    <2>3. booking' = [booking EXCEPT ![b] = row]
      BY <1>7, <2>1 DEF Decline, TypeOK
    <2> HIDE DEF row
    <2> QED
      BY <1>3, <2>1, <2>2, <2>3 DEF Consuming
  <1>8. RecordAttendance(b) \/ Confirm(b) \/ Cancel(b) => SeatsWithinCapacity
    BY <1>4 DEF RecordAttendance, Confirm, Cancel, Consuming
  <1>9. ASSUME NEW outcome \in {"completed", "noshow"}, Finish(b, outcome)
        PROVE  SeatsWithinCapacity
    BY <1>4, <1>9 DEF Finish, Consuming
  <1> QED
    BY <1>1, <1>2, <1>5, <1>6, <1>7, <1>8, <1>9 DEF OperatorStep

LEMMA CustomerSeats ==
    ASSUME TypeOK, NEW b \in Bookings, CustomerStep(b)
    PROVE  SeatsWithinCapacity
  <1>0. DOMAIN booking = Bookings /\ DOMAIN SweptBookings = Bookings
    BY DEF TypeOK, SweptBookings
  <1>1. ASSUME NEW s \in Sessions, NEW method \in Methods, NEW policy \in Policies,
               PublicBookScheduled(b, s, method, policy)
        PROVE  SeatsWithinCapacity
    <2> DEFINE row == PublicRow(s, session[s].start, method, policy)
    <2>1. /\ booking' = [SweptBookings EXCEPT ![b] = row]
          /\ session' = SweptSessions
          /\ SweptSessions[s] # None
          /\ Cardinality(Holders(SweptBookings, s)) < session'[s].capacity
      BY <1>1 DEF PublicBookScheduled, OffersSeat, HasSeat
    <2>2. session[s] # None /\ session[s] \in SessionRow
      BY <2>1, SweptType DEF TypeOK
    <2>3. row.session = s
      BY <2>2, NewRows DEF TypeOK, SessionRow
    <2>4. session'[s].capacity \in Nat
      BY <2>1, <2>2, SweptCapacity, CapacityNat
    <2> HIDE DEF row
    <2> QED
      BY <1>0, <2>1, <2>3, <2>4, SweptHolders, NewSeat
  <1>2. ASSUME NEW s \in Sessions, NEW v \in Services, NEW t \in Starts,
               NEW method \in Methods, NEW policy \in Policies,
               PublicBookOpen(b, s, v, t, method, policy)
        PROVE  SeatsWithinCapacity
    <2> DEFINE row == PublicRow(s, t, method, policy)
    <2>1. /\ booking' = [SweptBookings EXCEPT ![b] = row]
          /\ session' = [SweptSessions EXCEPT ![s] = OpenRow(v, t)]
          /\ SweptSessions[s] = None
      BY <1>2 DEF PublicBookOpen, OpensSlot
    <2>2. Holders(SweptBookings, s) = {}
      BY <2>1, SweptType, NoHolders
    <2>3. row.session = s
      BY NewRows DEF TypeOK
    <2>4. session'[s].capacity = 1
      BY <2>1, SweptType DEF OpenRow
    <2>5. /\ session'[s].capacity \in Nat
          /\ Cardinality(Holders(SweptBookings, s)) < session'[s].capacity
      BY <2>2, <2>4, FS_EmptySet
    <2> HIDE DEF row
    <2> QED
      BY <1>0, <2>1, <2>3, <2>5, SweptHolders, NewSeat
  <1>3. ASSUME CustomerCancel(b)
        PROVE  SeatsWithinCapacity
    <2> DEFINE row == [booking[b] EXCEPT !.status = "cancelled"]
    <2>1. booking[b] # None /\ booking[b] \in BookingRow
      BY <1>3, ExistingRow DEF CustomerCancel, CanChange
    <2>2. row.session = booking[b].session /\ row.status = "cancelled"
      BY <2>1 DEF BookingRow
    <2>3. booking' = [booking EXCEPT ![b] = row]
      BY <1>3 DEF CustomerCancel
    <2> HIDE DEF row
    <2> QED
      BY <2>1, <2>2, <2>3, NoNewSeat DEF Consuming
  <1>4. ASSUME NEW s \in Sessions, CustomerRescheduleScheduled(b, s)
        PROVE  SeatsWithinCapacity
    <2> DEFINE row == [booking[b] EXCEPT !.session = s, !.rescheduled = TRUE]
               previous == booking[b].session
    <2>1. /\ booking[b] \in BookingRow /\ previous \in Sessions
          /\ session[previous] # None
      BY <1>4, ExistingRow DEF CustomerRescheduleScheduled, CanChange
    <2>2. row.session = s
      BY <2>1 DEF BookingRow
    <2>3. session[s] # None /\ session[s] \in SessionRow
      BY <1>4 DEF CustomerRescheduleScheduled, OffersSeat, TypeOK
    <2>4. /\ booking' = [booking EXCEPT ![b] = row]
          /\ session' = Released(booking', session, b, previous)
          /\ Cardinality(Holders(booking, s)) < session[s].capacity
      BY <1>4, <2>1
         DEF CustomerRescheduleScheduled, OffersSeat, HasSeat, Rebooked, TypeOK
    <2>5. session'[s].capacity = session[s].capacity
      BY <2>1, <2>3, <2>4, ReleasedCapacity DEF TypeOK
    <2>6. session'[s].capacity \in Nat
      BY <2>3, <2>5, CapacityNat
    <2> HIDE DEF row
    <2> QED
      BY <1>0, <2>2, <2>4, <2>5, <2>6, NewSeat
  <1>5. ASSUME NEW s \in Sessions, NEW t \in Starts, CustomerRescheduleOpen(b, s, t)
        PROVE  SeatsWithinCapacity
    <2> DEFINE row == [booking[b] EXCEPT !.session = s, !.rescheduled = TRUE]
               previous == booking[b].session
               new == OpenRow(session[previous].service, t)
               opened == [session EXCEPT ![s] = new]
    <2>1. /\ booking[b] \in BookingRow /\ previous \in Sessions
          /\ session[previous] # None /\ session[previous] \in SessionRow
      BY <1>5, ExistingRow DEF CustomerRescheduleOpen, CanChange
    <2>2. row.session = s
      BY <2>1 DEF BookingRow
    <2>3. /\ booking' = [booking EXCEPT ![b] = row]
          /\ session' = Released(booking', opened, b, previous)
          /\ session[s] = None
      BY <1>5, <2>1 DEF CustomerRescheduleOpen, OpensSlot, Rebooked, TypeOK
    <2>4. session[previous].service \in Services
      BY <2>1 DEF SessionRow
    <2>5. new \in SessionRow /\ new # None /\ new.capacity = 1
      BY <2>4, OpenRowType, LedgerAssumption DEF OpenRow
    <2>6. /\ opened \in [Sessions -> SessionRow \cup {None}]
          /\ opened[previous] # None /\ opened[s] # None /\ opened[s].capacity = 1
      BY <2>1, <2>3, <2>5 DEF TypeOK
    <2> HIDE DEF row, new, opened
    <2>7. session'[s].capacity = 1
      BY <2>1, <2>3, <2>6, ReleasedCapacity
    <2>8. /\ session'[s].capacity \in Nat
          /\ Cardinality(Holders(booking, s)) < session'[s].capacity
      BY <2>3, <2>7, NoHolders, FS_EmptySet
    <2> QED
      BY <1>0, <2>2, <2>3, <2>8, NewSeat
  <1> QED
    BY <1>1, <1>2, <1>3, <1>4, <1>5 DEF CustomerStep

LEMMA StepSeats ==
    ASSUME TypeOK, Next
    PROVE  SeatsWithinCapacity
  <1>1. ASSUME booking' = booking \/ booking' = SweptBookings
        PROVE  SeatsWithinCapacity
    BY <1>1, SweptHolders DEF SeatsWithinCapacity, Holders
  <1>2. ASSUME NEW b \in Bookings, QueueReminder(b)
        PROVE  SeatsWithinCapacity
    <2>1. PICK row \in BookingRow :
            /\ booking[b] # None /\ booking' = [booking EXCEPT ![b] = row]
            /\ row.session = booking[b].session /\ row.status = booking[b].status
      BY <1>2, ReminderRow
    <2> QED
      BY <2>1, NoNewSeat
  <1> QED
    BY <1>1, <1>2, OperatorSeats, CustomerSeats
       DEF Next, ExpireManualBookings, EditorStep, CreateSession, UpdateSession, Tick

\* No command, sweep or customer change ever seats a booking beyond the capacity of
\* its session, for any number of bookings, sessions and capacities.
THEOREM SeatsNeverOversold == Spec => NeverOversold
  <1>1. TypeOK /\ [Next]_vars => [SeatsWithinCapacity]_vars
    BY StepSeats
  <1> QED
    BY <1>1, TypeCorrect, PTL DEF Spec, NeverOversold
-----------------------------------------------------------------------------
(***************************************************************************)
(* When a session is released: with its last booking, and not before.  A   *)
(* transaction keeps every booking on its session, or takes one off, or    *)
(* sweeps the unpaid ones, or is the editor's.  Whoever arrives on a       *)
(* session finds it open.                                                  *)
(***************************************************************************)

\* A booking that is made is on a session that is not cancelled.
MadeOpen == \A c \in Bookings : booking[c] = None /\ booking'[c] # None =>
              session'[booking'[c].session].status # "cancelled"

\* Every booking stays where it is, and the sessions with it.
Keeps == /\ session' = session /\ MadeOpen
         /\ \A c \in Bookings : booking[c] # None =>
              /\ booking'[c] # None /\ booking'[c].session = booking[c].session
              /\ booking'[c].status = "cancelled" => booking[c].status = "cancelled"
              /\ booking'[c].status \in Consuming => booking[c].status \in Consuming

\* Booking b leaves the session it was on, which is released by what ss has of it.
GivesUp(b) ==
    /\ booking[b] # None
    /\ booking'[b].session = booking[b].session => booking'[b].status = "cancelled"
    /\ \A c \in Bookings \ {b} : booking'[c] = booking[c]
    /\ \E ss \in [Sessions -> SessionRow \cup {None}] :
         /\ \A o \in Sessions : session[o] # None => ss[o] = session[o]
         /\ session' = Released(booking', ss, b, booking[b].session)
         /\ booking'[b].status \in Consuming => ss[booking'[b].session].status # "cancelled"

\* The unpaid holds that ran out end, and the public sessions they were on.
Sweeps == /\ MadeOpen
          /\ \A c \in Bookings : booking[c] # None => booking'[c] = SweptBookings[c]
          /\ \A o \in Sessions : session[o] # None => session'[o] = SweptSessions[o]

Effect == Keeps \/ Sweeps \/ booking' = booking \/ \E b \in Bookings : GivesUp(b)

-----------------------------------------------------------------------------
(* Each transaction has one of these effects.                              *)

\* A new booking in a free row, or an existing one that stays and is not cancelled.
LEMMA WriteKeeps ==
    ASSUME TypeOK, NEW b \in Bookings, NEW row \in BookingRow,
           booking' = [booking EXCEPT ![b] = row], session' = session,
           booking[b] # None => row.session = booking[b].session /\ row.status # "cancelled",
           row.status \in Consuming /\ booking[b] # None => booking[b].status \in Consuming,
           booking[b] = None => session[row.session].status # "cancelled"
    PROVE  Keeps
  <1>1. row # None /\ DOMAIN booking = Bookings
    BY LedgerAssumption DEF TypeOK
  <1> QED
    BY <1>1 DEF Keeps, MadeOpen

\* One booking is cancelled or put elsewhere, and its session released.
LEMMA WriteGivesUp ==
    ASSUME TypeOK, NEW b \in Bookings, NEW row, booking[b] # None,
           booking' = [booking EXCEPT ![b] = row],
           row.session = booking[b].session => row.status = "cancelled",
           NEW ss \in [Sessions -> SessionRow \cup {None}],
           \A o \in Sessions : session[o] # None => ss[o] = session[o],
           session' = Released(booking', ss, b, booking[b].session),
           row.status \in Consuming => ss[row.session].status # "cancelled"
    PROVE  GivesUp(b)
  BY DEF GivesUp, TypeOK

LEMMA OperatorEffect ==
    ASSUME TypeOK, NEW b \in Bookings, OperatorStep(b)
    PROVE  Effect
  <1> DEFINE r == booking[b]
  <1>0. session \in [Sessions -> SessionRow \cup {None}] /\ DOMAIN booking = Bookings
    BY DEF TypeOK
  <1>1. ASSUME NEW s \in Sessions, NEW method \in Methods, CreateOperatorBooking(b, s, method)
        PROVE  Keeps
    <2>1. OperatorRow(s, method) \in BookingRow /\ OperatorRow(s, method).session = s
      BY NewRows, LedgerAssumption DEF TypeOK, OperatorRow, BookingRow, BookingStatuses
    <2> QED
      BY <1>1, <2>1, WriteKeeps DEF CreateOperatorBooking
  <1>2. ASSUME NEW s \in Sessions, MoveBooking(b, s)
        PROVE  GivesUp(b)
    <2>1. r # None /\ r \in BookingRow
      BY <1>2, ExistingRow DEF MoveBooking
    <2>2. [r EXCEPT !.session = s].session = s /\ s # r.session
      BY <1>2, <2>1 DEF MoveBooking, BookingRow
    <2>3. booking' = [booking EXCEPT ![b] = [r EXCEPT !.session = s]]
      BY <1>0, <1>2 DEF MoveBooking
    <2>4. session' = Released(booking', session, b, r.session) /\ session[s].status # "cancelled"
      BY <1>2 DEF MoveBooking
    <2> HIDE DEF r
    <2> QED
      BY <1>0, <2>1, <2>2, <2>3, <2>4, WriteGivesUp DEF r
  <1>3. ASSUME \/ RecordAttendance(b) \/ Confirm(b)
               \/ \E outcome \in {"completed", "noshow"} : Finish(b, outcome)
        PROVE  Keeps
    <2>1. r # None /\ r \in BookingRow
      BY <1>3, ExistingRow DEF RecordAttendance, Confirm, Finish
    <2>2. PICK status \in {"completed", "confirmed", "noshow"} :
            /\ booking' = [booking EXCEPT ![b] = [r EXCEPT !.status = status]]
            /\ session' = session
            /\ status \in Consuming => r.status \in Consuming
      BY <1>0, <1>3 DEF RecordAttendance, Confirm, Finish, Consuming
    <2>3. /\ [r EXCEPT !.status = status] \in BookingRow
          /\ [r EXCEPT !.status = status].session = r.session
          /\ [r EXCEPT !.status = status].status = status
      BY <2>1 DEF BookingRow, BookingStatuses
    <2> QED
      BY <2>1, <2>2, <2>3, WriteKeeps
  <1>4. ASSUME RecordPaymentReceived(b) \/ Approve(b)
        PROVE  Keeps
    <2>1. r # None /\ r \in BookingRow /\ r.status = "pending"
      BY <1>4, ExistingRow DEF RecordPaymentReceived, Approve, AwaitsApproval
    <2>2. PICK q \in {[r EXCEPT !.payment = "paid"], [r EXCEPT !.approval = "approved"]} :
            booking' = [booking EXCEPT ![b] = Confirmed(q)] /\ session' = session
      BY <1>0, <1>4 DEF RecordPaymentReceived, Approve
    <2>3. q \in BookingRow /\ q.session = r.session /\ q.status = "pending"
      BY <2>1 DEF BookingRow
    <2>4. Confirmed(q) \in BookingRow /\ Confirmed(q).session = r.session
          /\ Confirmed(q).status # "cancelled"
      BY <2>3, ConfirmedRow DEF BookingRow
    <2> QED
      BY <2>1, <2>2, <2>4, WriteKeeps DEF Consuming
  <1>5. ASSUME Decline(b) \/ Cancel(b)
        PROVE  GivesUp(b)
    <2>1. r # None /\ r \in BookingRow
      BY <1>5, ExistingRow DEF Decline, Cancel, AwaitsApproval
    <2>2. PICK q : /\ q \in {[r EXCEPT !.status = "cancelled"],
                             [r EXCEPT !.approval = "declined", !.status = "cancelled"]}
                   /\ booking' = [booking EXCEPT ![b] = q]
      BY <1>0, <1>5 DEF Decline, Cancel
    <2>3. q.status = "cancelled" /\ q.status \notin Consuming
      BY <2>1, <2>2 DEF BookingRow, Consuming
    <2>4. session' = Released(booking', session, b, r.session)
      BY <1>5 DEF Decline, Cancel
    <2> HIDE DEF r
    <2> QED
      BY <1>0, <2>1, <2>2, <2>3, <2>4, WriteGivesUp DEF r
  <1> QED
    BY <1>1, <1>2, <1>3, <1>4, <1>5 DEF OperatorStep, Effect

\* A public booking commits the sweep together with its own row, which was free.
LEMMA BookingSweeps ==
    ASSUME TypeOK, NEW b \in Bookings, NEW row, SweptBookings[b] = None,
           booking' = [SweptBookings EXCEPT ![b] = row],
           \A o \in Sessions : session[o] # None => session'[o] = SweptSessions[o],
           session'[row.session].status # "cancelled"
    PROVE  Sweeps
  <1>1. booking[b] = None /\ \A c \in Bookings : booking[c] = None => SweptBookings[c] = None
    BY SweptRows
  <1>2. DOMAIN SweptBookings = Bookings
    BY DEF SweptBookings
  <1> QED
    BY <1>1, <1>2 DEF Sweeps, MadeOpen

LEMMA CustomerEffect ==
    ASSUME TypeOK, NEW b \in Bookings, CustomerStep(b)
    PROVE  Effect
  <1> DEFINE r == booking[b]
  <1>0. /\ session \in [Sessions -> SessionRow \cup {None}] /\ DOMAIN booking = Bookings
        /\ SweptSessions \in [Sessions -> SessionRow \cup {None}]
    BY SweptRows DEF TypeOK
  <1>1. ASSUME NEW s \in Sessions, NEW method \in Methods, NEW policy \in Policies,
               PublicBookScheduled(b, s, method, policy)
        PROVE  Sweeps
    <2> DEFINE row == PublicRow(s, session[s].start, method, policy)
    <2>1. /\ SweptBookings[b] = None /\ booking' = [SweptBookings EXCEPT ![b] = row]
          /\ session' = SweptSessions
          /\ SweptSessions[s] # None /\ SweptSessions[s].status = "scheduled"
      BY <1>1 DEF PublicBookScheduled, OffersSeat
    <2>2. session[s] # None /\ session[s] \in SessionRow
      BY <2>1, SweptRows DEF TypeOK
    <2>3. row.session = s
      BY <2>2, NewRows DEF TypeOK, SessionRow
    <2> HIDE DEF row
    <2> QED
      BY <2>1, <2>3, BookingSweeps
  <1>2. ASSUME NEW s \in Sessions, NEW v \in Services, NEW t \in Starts,
               NEW method \in Methods, NEW policy \in Policies,
               PublicBookOpen(b, s, v, t, method, policy)
        PROVE  Sweeps
    <2>1. SweptBookings[b] = None /\ booking' = [SweptBookings EXCEPT ![b] = PublicRow(s, t, method, policy)]
          /\ session' = [SweptSessions EXCEPT ![s] = OpenRow(v, t)] /\ SweptSessions[s] = None
      BY <1>2 DEF PublicBookOpen, OpensSlot
    <2>2. session[s] = None
      BY <2>1, SweptRows
    <2>3. \A o \in Sessions : session[o] # None => session'[o] = SweptSessions[o]
      BY <1>0, <2>1, <2>2
    <2>4. PublicRow(s, t, method, policy).session = s
      BY NewRows DEF TypeOK
    <2>5. session'[s].status = "scheduled"
      BY <1>0, <2>1 DEF OpenRow
    <2> QED
      BY <2>1, <2>3, <2>4, <2>5, BookingSweeps
  <1>3. ASSUME CustomerCancel(b)
        PROVE  GivesUp(b)
    <2>1. r # None /\ r \in BookingRow
      BY <1>3, ExistingRow DEF CustomerCancel, CanChange
    <2> DEFINE row == [r EXCEPT !.status = "cancelled"]
    <2>2. row.status = "cancelled" /\ row.status \notin Consuming
      BY <2>1 DEF BookingRow, Consuming
    <2>3. booking' = [booking EXCEPT ![b] = row]
          /\ session' = Released(booking', session, b, r.session)
      BY <1>0, <1>3 DEF CustomerCancel
    <2> HIDE DEF row, r
    <2> QED
      BY <1>0, <2>1, <2>2, <2>3, WriteGivesUp DEF r
  <1>4. ASSUME NEW s \in Sessions, CustomerRescheduleScheduled(b, s)
        PROVE  GivesUp(b)
    <2>1. r # None /\ r \in BookingRow
      BY <1>4, ExistingRow DEF CustomerRescheduleScheduled, CanChange
    <2> DEFINE row == [r EXCEPT !.session = s, !.rescheduled = TRUE]
    <2>2. row.session = s /\ s # r.session
      BY <1>4, <2>1 DEF CustomerRescheduleScheduled, BookingRow
    <2>3. /\ booking' = [booking EXCEPT ![b] = row]
          /\ session' = Released(booking', session, b, r.session)
          /\ session[s].status = "scheduled"
      BY <1>0, <1>4 DEF CustomerRescheduleScheduled, Rebooked, OffersSeat
    <2> HIDE DEF row, r
    <2> QED
      BY <1>0, <2>1, <2>2, <2>3, WriteGivesUp DEF r
  <1>5. ASSUME NEW s \in Sessions, NEW t \in Starts, CustomerRescheduleOpen(b, s, t)
        PROVE  GivesUp(b)
    <2>1. r # None /\ r \in BookingRow /\ r.session \in Sessions /\ session[r.session] # None
          /\ session[r.session] \in SessionRow
      BY <1>5, ExistingRow DEF CustomerRescheduleOpen, CanChange
    <2> DEFINE row == [r EXCEPT !.session = s, !.rescheduled = TRUE]
               new == OpenRow(session[r.session].service, t)
               opened == [session EXCEPT ![s] = new]
    <2>2. session[s] = None
      BY <1>5 DEF CustomerRescheduleOpen, OpensSlot
    <2>3. row.session = s /\ s # r.session
      BY <2>1, <2>2 DEF BookingRow
    <2>4. booking' = [booking EXCEPT ![b] = row]
          /\ session' = Released(booking', opened, b, r.session)
      BY <1>0, <1>5 DEF CustomerRescheduleOpen, Rebooked
    <2>5. new \in SessionRow /\ new.status = "scheduled"
      BY <2>1, OpenRowType DEF SessionRow, OpenRow
    <2>6. /\ opened[s].status = "scheduled"
          /\ opened \in [Sessions -> SessionRow \cup {None}]
          /\ \A o \in Sessions : session[o] # None => opened[o] = session[o]
      <3> HIDE DEF new
      <3> QED
        BY <1>0, <2>2, <2>5
    <2> HIDE DEF row, r, new, opened
    <2> QED
      BY <2>1, <2>3, <2>4, <2>6, WriteGivesUp DEF r
  <1> QED
    BY <1>1, <1>2, <1>3, <1>4, <1>5 DEF CustomerStep, Effect

LEMMA NextEffect ==
    ASSUME TypeOK, Next
    PROVE  Effect
  <1>1. ASSUME NEW b \in Bookings, QueueReminder(b) PROVE Keeps
    <2>1. PICK row \in BookingRow :
            /\ booking[b] # None /\ booking' = [booking EXCEPT ![b] = row]
            /\ row.session = booking[b].session /\ row.status = booking[b].status
      BY <1>1, ReminderRow
    <2>2. booking[b].status = "confirmed" /\ session' = session
      BY <1>1 DEF QueueReminder
    <2> QED
      BY <2>1, <2>2, WriteKeeps
  <1>2. CASE ExpireManualBookings
    BY <1>2, SweptRows DEF ExpireManualBookings, Effect, Sweeps, MadeOpen
  <1>3. CASE EditorStep \/ Tick
    BY <1>3 DEF EditorStep, CreateSession, UpdateSession, Tick, Effect
  <1> QED
    BY <1>1, <1>2, <1>3, OperatorEffect, CustomerEffect DEF Next, Effect

-----------------------------------------------------------------------------
(* What the sweep does to one row.                                         *)

LEMMA SweptEnds ==
    ASSUME TypeOK, NEW b \in Bookings, Expirable(b)
    PROVE  /\ SweptBookings[b].status = "cancelled" /\ SweptBookings[b].payment = "overdue"
           /\ booking[b] # None /\ booking[b].payment = "pending"
           /\ session[booking[b].session].origin = "public_open" =>
                SweptSessions[booking[b].session].status = "cancelled"
  <1>1. /\ booking[b] # None /\ booking[b].payment = "pending" /\ booking[b] \in BookingRow
        /\ booking[b].session \in Sessions /\ session[booking[b].session] \in SessionRow
    BY ExistingRow DEF Expirable
  <1>2. SweptBookings[b] = [booking[b] EXCEPT !.status = "cancelled", !.payment = "overdue"]
    BY DEF SweptBookings
  <1>3. SweptBookings[b].status = "cancelled" /\ SweptBookings[b].payment = "overdue"
    BY <1>1, <1>2 DEF BookingRow
  <1>4. ASSUME session[booking[b].session].origin = "public_open"
        PROVE  SweptSessions[booking[b].session].status = "cancelled"
    <2> DEFINE s == booking[b].session
    <2>1. SweptSessions[s] = [session[s] EXCEPT !.status = "cancelled"]
      BY <1>1, <1>4 DEF SweptSessions
    <2> QED
      BY <1>1, <2>1 DEF SessionRow
  <1> QED
    BY <1>1, <1>3, <1>4

-----------------------------------------------------------------------------
(* The last booking takes its session along.                               *)

LEMMA VacatedByEffect ==
    ASSUME TypeOK, Effect
    PROVE  VacatedSessionReleased
  <1> SUFFICES ASSUME NEW s \in Sessions, session[s] # None, session[s].origin = "public_open",
                      session[s].capacity = 1, Occupants(booking, s) # {}, Occupants(booking', s) = {}
               PROVE  session'[s].status = "cancelled"
    BY DEF VacatedSessionReleased
  <1>1. PICK c \in Bookings : booking[c] # None /\ booking[c].session = s /\ booking[c].status # "cancelled"
    BY DEF Occupants
  <1>2. booking'[c] = None \/ booking'[c].session # s \/ booking'[c].status = "cancelled"
    BY DEF Occupants
  <1>3. ~Keeps /\ booking' # booking
    BY <1>1, <1>2 DEF Keeps
  <1>4. CASE Sweeps
    <2>1. booking'[c] = SweptBookings[c] /\ session'[s] = SweptSessions[s]
      BY <1>1, <1>4 DEF Sweeps
    <2>2. Expirable(c)
      BY <1>1, <1>2, <2>1 DEF SweptBookings
    <2> QED
      BY <1>1, <2>1, <2>2, SweptEnds
  <1>5. ASSUME NEW b \in Bookings, GivesUp(b) PROVE session'[s].status = "cancelled"
    <2>1. c = b
      BY <1>1, <1>2, <1>5 DEF GivesUp
    <2>2. PICK ss \in [Sessions -> SessionRow \cup {None}] :
            ss[s] = session[s] /\ session' = Released(booking', ss, b, s)
      BY <1>1, <1>5, <2>1 DEF GivesUp
    <2>3. Holders(booking', s) = {}
      BY DEF Occupants, Holders, Consuming
    <2>4. session' = [ss EXCEPT ![s].status = "cancelled"]
      BY <2>2, <2>3 DEF Released
    <2>5. session[s] \in SessionRow
      BY DEF TypeOK
    <2> QED
      BY <2>2, <2>4, <2>5 DEF SessionRow
  <1> QED
    BY <1>3, <1>4, <1>5 DEF Effect

\* A public session of one seat is released by whatever takes its last booking off, a command,
\* a change of the customer's or the sweep.
THEOREM VacatedAreReleased == Spec => VacatedSessionsReleased
  <1>1. TypeOK /\ [Next]_vars => [VacatedSessionReleased]_vars
    BY NextEffect, VacatedByEffect
  <1> QED
    BY <1>1, TypeCorrect, PTL DEF Spec, VacatedSessionsReleased

-----------------------------------------------------------------------------
(* No other booking does.                                                  *)

\* Of the effects on bookings only the sweep cancels a session of which somebody holds a seat.
LEMMA OnlySweepsTake ==
    ASSUME TypeOK, Effect,
           NEW s \in Sessions, session[s] # None, session[s].status # "cancelled",
           session'[s].status = "cancelled", Holders(booking', s) # {}, booking' # booking
    PROVE  /\ Sweeps
           /\ \E b \in Bookings : Expirable(b) /\ booking[b].session = s
  <1>1. ~Keeps
    BY DEF Keeps
  <1>2. CASE Sweeps
    <2>1. session'[s] = SweptSessions[s] /\ SweptSessions[s] # session[s]
      BY <1>2 DEF Sweeps
    <2> QED
      BY <1>2, <2>1 DEF SweptSessions
  <1>3. ASSUME NEW b \in Bookings, GivesUp(b) PROVE FALSE
    <2> DEFINE previous == booking[b].session
    <2>1. previous \in Sessions /\ session[previous] # None
      BY <1>3, ExistingRow DEF GivesUp
    <2>2. PICK ss \in [Sessions -> SessionRow \cup {None}] :
            /\ ss[s] = session[s] /\ ss[previous] = session[previous]
            /\ session' = Released(booking', ss, b, previous)
      BY <1>3, <2>1 DEF GivesUp
    <2>3. ss[previous] # None
      BY <2>1, <2>2
    <2> HIDE DEF previous
    <2>4. s = previous /\ Holders(booking', s) \ {b} = {}
      <3>1. CASE Holders(booking', previous) \ {b} = {}
        BY <2>1, <2>2, <3>1 DEF Released
      <3>2. CASE Holders(booking', previous) \ {b} # {}
        BY <2>2, <3>2 DEF Released
      <3> QED
        BY <3>1, <3>2
    <2>5. b \notin Holders(booking', s)
      BY <1>3, <2>4 DEF GivesUp, Holders, Consuming, previous
    <2> QED
      BY <2>4, <2>5
  <1> QED
    BY <1>1, <1>2, <1>3 DEF Effect

LEMMA SparedByEffect ==
    ASSUME TypeOK, Effect
    PROVE  ReleaseSparesHolders
  <1> SUFFICES ASSUME NEW s \in Sessions, session[s] # None, session[s].status # "cancelled",
                      session'[s].status = "cancelled", Holders(booking', s) # {}, booking' # booking
               PROVE  \E b \in Bookings : /\ booking[b] # None /\ booking[b].payment = "pending"
                                          /\ booking'[b].payment = "overdue"
    BY DEF ReleaseSparesHolders
  <1>1. PICK b \in Bookings : Expirable(b) /\ booking'[b] = SweptBookings[b]
    BY OnlySweepsTake, SweptEnds DEF Sweeps
  <1> QED
    BY <1>1, SweptEnds

\* Nobody loses the session by the command of another booking.
THEOREM HoldersAreSpared == Spec => ReleasesSpareHolders
  <1>1. TypeOK /\ [Next]_vars => [ReleaseSparesHolders]_vars
    BY NextEffect, SparedByEffect
  <1> QED
    BY <1>1, TypeCorrect, PTL DEF Spec, ReleasesSpareHolders

-----------------------------------------------------------------------------
(* Nor does the sweep, where every session has one seat.                   *)

\* A session of one seat has one holder.
OneHolder == \A s \in Sessions : \A b, c \in Holders(booking, s) : b = c

LEMMA AtMostOne ==
    ASSUME NEW S, IsFiniteSet(S), Cardinality(S) <= 1, NEW b \in S, NEW c \in S
    PROVE  b = c
  <1>1. S = {b}
    <2>1. {b} \in SUBSET S /\ Cardinality({b}) = 1
      BY FS_Singleton
    <2>2. Cardinality(S) \in Nat /\ Cardinality({b}) <= Cardinality(S)
      BY <2>1, FS_Subset, FS_CardinalityType
    <2> QED
      BY <2>1, <2>2, FS_Subset
  <1> QED
    BY <1>1

LEMMA OneHolderStays ==
    ASSUME TypeOK, TypeOK', Next, OneHolder, Capacities = {1}
    PROVE  OneHolder'
  <1> SUFFICES ASSUME NEW s \in Sessions, NEW b \in Holders(booking', s), NEW c \in Holders(booking', s)
               PROVE  b = c
    BY DEF OneHolder, Holders
  <1>1. Holders(booking', s) \in SUBSET Bookings
    BY DEF Holders
  <1>2. IsFiniteSet(Holders(booking', s))
    BY <1>1, FS_Subset, LedgerAssumption
  <1>3. session'[s].capacity = 1
    <2>1. booking'[b] # None /\ booking'[b].session = s
      BY DEF Holders
    <2>2. session'[s] \in SessionRow
      BY <1>1, <2>1 DEF TypeOK
    <2> QED
      BY <2>2 DEF SessionRow
  <1>4. CASE b \in Holders(booking, s) /\ c \in Holders(booking, s)
    BY <1>4 DEF OneHolder
  <1>5. CASE b \notin Holders(booking, s) \/ c \notin Holders(booking, s)
    <2>1. Cardinality(Holders(booking', s)) <= 1
      BY <1>1, <1>3, <1>5, StepSeats DEF SeatsWithinCapacity
    <2> QED
      BY <1>2, <2>1, AtMostOne
  <1> QED
    BY <1>4, <1>5

\* Who takes a seat takes it of a session that is not cancelled.
LEMMA ArrivesOpen ==
    ASSUME TypeOK, Effect, NEW b \in Bookings, NEW s \in Sessions,
           b \in Holders(booking', s), b \notin Holders(booking, s)
    PROVE  session'[s].status # "cancelled"
  <1>1. booking'[b] # None /\ booking'[b].session = s /\ booking'[b].status \in Consuming
    BY DEF Holders
  <1>2. booking' # booking
    OBVIOUS
  <1>3. CASE Keeps
    BY <1>1, <1>3 DEF Keeps, MadeOpen, Holders
  <1>4. CASE Sweeps
    <2>1. CASE booking[b] = None
      BY <1>1, <1>4, <2>1 DEF Sweeps, MadeOpen
    <2>2. CASE booking[b] # None
      <3>1. booking'[b] = SweptBookings[b]
        BY <1>4, <2>2 DEF Sweeps
      <3>2. b \in Holders(SweptBookings, s)
        BY <1>1, <3>1 DEF Holders
      <3> QED
        BY <3>2, SweptHolders
    <2> QED
      BY <2>1, <2>2
  <1>5. ASSUME NEW c \in Bookings, GivesUp(c)
        PROVE  session'[s].status # "cancelled"
    <2>1. b = c
      BY <1>5 DEF GivesUp, Holders
    <2> DEFINE previous == booking[b].session
    <2>2. previous \in Sessions /\ session[previous] # None /\ s # previous
      BY <1>1, <1>5, <2>1, ExistingRow DEF GivesUp, Consuming
    <2>3. PICK ss \in [Sessions -> SessionRow \cup {None}] :
            /\ ss[previous] = session[previous]
            /\ session' = Released(booking', ss, b, previous)
            /\ ss[s].status # "cancelled"
      BY <1>1, <1>5, <2>1, <2>2 DEF GivesUp
    <2> HIDE DEF previous
    <2>4. Released(booking', ss, b, previous)[s] = ss[s]
      BY <2>2, <2>3 DEF Released
    <2> QED
      BY <2>3, <2>4
  <1> QED
    BY <1>2, <1>3, <1>4, <1>5 DEF Effect

LEMMA StrandedByEffect ==
    ASSUME TypeOK, TypeOK', Effect, OneHolder
    PROVE  StrandedOnlyByEditor
  <1> SUFFICES ASSUME NEW b \in Bookings, Stranded(booking', session', b),
                      ~Stranded(booking, session, b), booking' # booking
               PROVE  FALSE
    BY DEF StrandedOnlyByEditor
  <1> DEFINE s == booking'[b].session
  <1>1. s \in Sessions /\ b \in Holders(booking', s) /\ session'[s].status = "cancelled"
    BY DEF Stranded, Holders, TypeOK, BookingRow
  <1> HIDE DEF s
  <1>2. b \in Holders(booking, s)
    BY <1>1, ArrivesOpen
  <1>3. session[s] # None /\ session[s].status # "cancelled"
    BY <1>2 DEF Stranded, Holders, TypeOK
  <1>4. Sweeps /\ \E c \in Bookings : Expirable(c) /\ booking[c].session = s
    BY <1>1, <1>3, OnlySweepsTake
  <1>5. PICK c \in Bookings : Expirable(c) /\ booking[c].session = s
    BY <1>4
  <1>6. c \in Holders(booking, s)
    BY <1>5 DEF Expirable, Holders, Consuming
  <1>7. c = b
    BY <1>1, <1>2, <1>6 DEF OneHolder
  <1>8. booking'[b].status = "cancelled"
    BY <1>4, <1>5, <1>7, SweptEnds DEF Sweeps
  <1> QED
    BY <1>1, <1>8 DEF Holders, Consuming

\* Where sessions have one seat, only the editor leaves a holder of a seat on a cancelled session.
\* (With more seats the sweep does, too: it does not count who else is on the session.)
THEOREM HoldersStaySeated ==
    ASSUME Capacities = {1}
    PROVE  Spec => HoldersKeepTheirSession
  <1>1. Init => OneHolder
    BY DEF Init, OneHolder, Holders
  <1>2. TypeOK /\ TypeOK' /\ OneHolder /\ [Next]_vars => OneHolder'
    BY OneHolderStays DEF OneHolder, Holders, vars
  <1>3. TypeOK /\ TypeOK' /\ OneHolder /\ [Next]_vars => [StrandedOnlyByEditor]_vars
    BY NextEffect, StrandedByEffect
  <1> QED
    BY <1>1, <1>2, <1>3, TypeCorrect, PTL DEF Spec, HoldersKeepTheirSession

=============================================================================
