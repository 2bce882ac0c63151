--------------------------- MODULE BookingLedger ---------------------------
(***************************************************************************)
(* The bookings and sessions of one workspace, one action per committed    *)
(* transaction: the operator's commands (bookings/repository.py), the      *)
(* public page and its expiry sweep (public_booking/repository.py), the    *)
(* customer's manage link (public_booking/manage.py), the reminder job     *)
(* (maintenance.py) and the session editor (scheduling/repository.py). A   *)
(* rejected or replayed command commits nothing new and is a stuttering    *)
(* step.                                                                   *)
(*                                                                         *)
(* Abstracted: one calendar owner; a session fills the unit slot that      *)
(* starts at its time, so sessions overlap when they start together;       *)
(* price, confirmation policy and booking mode of a service are settings   *)
(* the operator may edit at any moment, so each operation reads any value; *)
(* a manage link does not run out; the editor's edits of one session       *)
(* (those of a whole series are not modelled); the contents of emails,     *)
(* forms and audit rows.                                                   *)
(***************************************************************************)
EXTENDS Integers, FiniteSets

CONSTANTS Bookings,       \* ids of bookings, a pool
          Sessions,       \* ids of sessions, a pool
          Services,
          Starts,         \* bound: the times at which sessions start
          Capacities,     \* bound: the capacities an operator gives a session
          EditStatuses,   \* bound: the statuses the session editor sets
          Methods,        \* bound: the payment methods the services' prices lead to
          Policies,       \* bound: the confirmation policies of the services
          MaxTime,        \* bound on the clock
          MinNotice,      \* minimum_notice_min
          MaxAdvance,     \* maximum_advance_days
          ChangeNotice,   \* customer_change_notice_hours
          PaymentWindow,  \* the 48 hours a manual payment may take
          ReminderLead,   \* the 24 hours before the start in which reminders go out
          None            \* a row that does not exist, a due date that is NULL

SessionStatuses == {"scheduled", "live", "done", "cancelled"}
BookingStatuses == {"pending", "confirmed", "completed", "cancelled", "noshow"}
Consuming == {"pending", "confirmed"}

SessionRow == [service: Services, origin: {"operator", "public_open"},
               capacity: Capacities, status: SessionStatuses, start: Starts]

BookingRow == [session: Sessions, status: BookingStatuses,
               payment: {"free", "pending", "paid", "overdue"},
               approval: {"not_required", "pending", "approved", "declined"},
               policy: {"automatic", "operator_approval"},
               origin: {"operator", "public"}, method: {"free", "manual"},
               due: Nat \cup {None}, rescheduled: BOOLEAN,
               link: BOOLEAN]   \* the customer was sent a manage link

ASSUME LedgerAssumption ==
    /\ IsFiniteSet(Bookings)
    /\ Starts \subseteq Nat
    /\ Capacities \subseteq Nat \ {0} /\ 1 \in Capacities
    /\ EditStatuses \subseteq SessionStatuses
    /\ Methods \subseteq {"free", "manual"}
    /\ Policies \subseteq {"automatic", "operator_approval"}
    /\ MaxTime \in Nat /\ MinNotice \in Nat /\ MaxAdvance \in Nat
    /\ ChangeNotice \in Nat /\ PaymentWindow \in Nat /\ ReminderLead \in Nat
    /\ None \notin Nat \cup SessionRow \cup BookingRow

VARIABLES booking,        \* id -> row of bookings, None before the booking exists
          session,        \* id -> row of sessions, None before the session exists
          now

vars == <<booking, session, now>>

\* The columns keep their types and a booking's foreign key finds its session.
TypeOK == /\ booking \in [Bookings -> BookingRow \cup {None}]
          /\ session \in [Sessions -> SessionRow \cup {None}]
          /\ \A b \in Bookings :
                booking[b] # None => session[booking[b].session] # None
          /\ now \in 0..MaxTime

Init == /\ booking = [b \in Bookings |-> None]
        /\ session = [s \in Sessions |-> None]
        /\ now = 0

-----------------------------------------------------------------------------
(* Seats *)

\* The bookings of bk that consume a seat of session s.
Holders(bk, s) == {b \in Bookings : /\ bk[b] # None
                                    /\ bk[b].session = s
                                    /\ bk[b].status \in Consuming}

\* Mutant of HasSeat: the last seat is sold twice.
HasSeatOffByOne(bk, ss, s) == Cardinality(Holders(bk, s)) <= ss[s].capacity

HasSeat(bk, ss, s) == Cardinality(Holders(bk, s)) < ss[s].capacity

\* ex_sessions_owner_time: live sessions of the owner do not overlap.
Conflict(ss, s, row) == /\ row.status # "cancelled"
                        /\ \E o \in Sessions \ {s} : /\ ss[o] # None
                                                     /\ ss[o].status # "cancelled"
                                                     /\ ss[o].start = row.start

\* Mutant of Released: forgets that an operator made the session.
ReleasedAnyOrigin(bk, ss, b, s) ==
    IF ss[s].capacity = 1 /\ Holders(bk, s) \ {b} = {}
    THEN [ss EXCEPT ![s].status = "cancelled"]
    ELSE ss

\* Mutant of Released: forgets to count the bookings that remain.
ReleasedUncounted(bk, ss, b, s) ==
    IF ss[s].origin = "public_open" /\ ss[s].capacity = 1
    THEN [ss EXCEPT ![s].status = "cancelled"]
    ELSE ss

\* The sessions after booking b of bk gave up its seat of session s.
Released(bk, ss, b, s) ==
    IF /\ ss[s].origin = "public_open" /\ ss[s].capacity = 1
       /\ Holders(bk, s) \ {b} = {}
    THEN [ss EXCEPT ![s].status = "cancelled"]
    ELSE ss

Ready(r) == /\ r.payment \in {"free", "paid"}
            /\ r.approval \in {"not_required", "approved"}

\* Mutant of Confirmed: a payment confirms an unapproved booking.
ConfirmedOnPayment(r) ==
    IF r.payment \in {"free", "paid"} THEN [r EXCEPT !.status = "confirmed"] ELSE r

\* A pending row that a command has changed: confirmed if that opened the last gate.
Confirmed(r) == IF Ready(r) THEN [r EXCEPT !.status = "confirmed"] ELSE r

-----------------------------------------------------------------------------
(* Unpaid holds *)

\* Mutant of Expirable: sweeps a booking that was paid and awaits approval.
ExpirableWhenPaid(b) == /\ booking[b] # None
                        /\ booking[b].status = "pending"
                        /\ booking[b].method = "manual"
                        /\ booking[b].due # None
                        /\ booking[b].due <= now
                        /\ session[booking[b].session].status = "scheduled"

Expirable(b) == /\ booking[b] # None
                /\ booking[b].status = "pending"
                /\ booking[b].payment = "pending"
                /\ booking[b].method = "manual"
                /\ booking[b].due # None
                /\ booking[b].due <= now
                /\ session[booking[b].session].status = "scheduled"

SweptBookings ==
    [b \in Bookings |->
        IF Expirable(b)
        THEN [booking[b] EXCEPT !.status = "cancelled", !.payment = "overdue"]
        ELSE booking[b]]

\* The sweep cancels every public session that an expired booking sits on.
SweptSessions ==
    [s \in Sessions |->
        IF \E b \in Bookings : /\ Expirable(b)
                               /\ booking[b].session = s
                               /\ session[s].origin = "public_open"
        THEN [session[s] EXCEPT !.status = "cancelled"]
        ELSE session[s]]

\* list_availability, and a replayed create_booking: the sweep commits by itself.
ExpireManualBookings == /\ booking' = SweptBookings
                        /\ session' = SweptSessions
                        /\ UNCHANGED now

-----------------------------------------------------------------------------
(* The operator's booking commands *)

OperatorRow(s, method) ==
    [session |-> s, status |-> "pending",
     payment |-> IF method = "free" THEN "free" ELSE "pending",
     approval |-> "not_required", policy |-> "automatic", origin |-> "operator",
     method |-> method, due |-> None, rescheduled |-> FALSE, link |-> FALSE]

CreateOperatorBooking(b, s, method) ==
    /\ booking[b] = None
    /\ session[s] # None /\ session[s].status # "cancelled"
    /\ HasSeat(booking, session, s)
    /\ booking' = [booking EXCEPT ![b] = OperatorRow(s, method)]
    /\ UNCHANGED <<session, now>>

\* Mutant of MoveBooking: accepts a cancelled target.
MoveBookingUnchecked(b, target) ==
    /\ booking[b] # None /\ booking[b].status \in Consuming
    /\ session[target] # None /\ target # booking[b].session
    /\ session[target].service = session[booking[b].session].service
    /\ session[target].start > now
    /\ HasSeat(booking, session, target)
    /\ booking' = [booking EXCEPT ![b].session = target]
    /\ session' = Released(booking', session, b, booking[b].session)
    /\ UNCHANGED now

MoveBooking(b, target) ==
    /\ booking[b] # None /\ booking[b].status \in Consuming
    /\ LET previous == booking[b].session
       IN  /\ session[target] # None /\ target # previous
           /\ session[target].service = session[previous].service
           /\ session[target].status # "cancelled"
           /\ session[target].start > now
           /\ HasSeat(booking, session, target)
           /\ booking' = [booking EXCEPT ![b].session = target]
           /\ session' = Released(booking', session, b, previous)
    /\ UNCHANGED now

\* Attendance ends a group booking; recording it again corrects it.
RecordAttendance(b) ==
    /\ booking[b] # None /\ booking[b].status \in {"confirmed", "completed"}
    /\ session[booking[b].session].capacity > 1
    /\ booking' = [booking EXCEPT ![b].status = "completed"]
    /\ UNCHANGED <<session, now>>

RecordPaymentReceived(b) ==
    /\ booking[b] # None /\ booking[b].status = "pending"
    /\ booking[b].method = "manual" /\ booking[b].payment = "pending"
    /\ booking' = [booking EXCEPT ![b] = Confirmed([@ EXCEPT !.payment = "paid"])]
    /\ UNCHANGED <<session, now>>

AwaitsApproval(b) == /\ booking[b] # None /\ booking[b].status = "pending"
                     /\ booking[b].policy = "operator_approval"
                     /\ booking[b].approval = "pending"

Approve(b) ==
    /\ AwaitsApproval(b)
    /\ booking' = [booking EXCEPT ![b] = Confirmed([@ EXCEPT !.approval = "approved"])]
    /\ UNCHANGED <<session, now>>

\* Mutant of Decline: keeps the declined booking's slot.
DeclineUnreleased(b) ==
    /\ AwaitsApproval(b)
    /\ booking' = [booking EXCEPT ![b].approval = "declined", ![b].status = "cancelled"]
    /\ UNCHANGED <<session, now>>

Decline(b) ==
    /\ AwaitsApproval(b)
    /\ booking' = [booking EXCEPT ![b].approval = "declined", ![b].status = "cancelled"]
    /\ session' = Released(booking', session, b, booking[b].session)
    /\ UNCHANGED now

Confirm(b) ==
    /\ booking[b] # None /\ booking[b].status = "pending" /\ Ready(booking[b])
    /\ booking' = [booking EXCEPT ![b].status = "confirmed"]
    /\ UNCHANGED <<session, now>>

Cancel(b) ==
    /\ booking[b] # None /\ booking[b].status \in Consuming
    /\ booking' = [booking EXCEPT ![b].status = "cancelled"]
    /\ session' = Released(booking', session, b, booking[b].session)
    /\ UNCHANGED now

Finish(b, outcome) ==
    /\ booking[b] # None /\ booking[b].status = "confirmed"
    /\ booking' = [booking EXCEPT ![b].status = outcome]
    /\ UNCHANGED <<session, now>>

-----------------------------------------------------------------------------
(* The public page and the manage link *)

InWindow(t) == now + MinNotice <= t /\ t <= now + MaxAdvance

\* _lock_scheduled_session: session s offers a seat of its service at its start.
OffersSeat(bk, ss, s) == /\ ss[s] # None /\ ss[s].status = "scheduled"
                         /\ InWindow(ss[s].start)
                         /\ HasSeat(bk, ss, s)

\* A new public capacity-one session; it needs a slot no live session occupies.
OpenRow(v, t) == [service |-> v, origin |-> "public_open", capacity |-> 1,
                  status |-> "scheduled", start |-> t]

OpensSlot(ss, s, v, t) == /\ ss[s] = None
                          /\ InWindow(t)
                          /\ ~Conflict(ss, s, OpenRow(v, t))

Earlier(t, u) == IF t <= u THEN t ELSE u

PublicRow(s, start, method, policy) ==
    LET row == [session |-> s, status |-> "pending",
                payment |-> IF method = "free" THEN "free" ELSE "pending",
                approval |-> IF policy = "automatic" THEN "not_required" ELSE "pending",
                policy |-> policy, origin |-> "public", method |-> method,
                due |-> IF method = "manual" THEN Earlier(now + PaymentWindow, start)
                                             ELSE None,
                rescheduled |-> FALSE, link |-> TRUE]
    IN  Confirmed(row)

\* create_booking sweeps unpaid holds, then books a seat of a scheduled session ...
PublicBookScheduled(b, s, method, policy) ==
    /\ SweptBookings[b] = None
    /\ OffersSeat(SweptBookings, SweptSessions, s)
    /\ booking' = [SweptBookings EXCEPT
                     ![b] = PublicRow(s, session[s].start, method, policy)]
    /\ session' = SweptSessions
    /\ UNCHANGED now

\* Mutant of PublicBookOpen: the booking's session is never inserted.
PublicBookOpenUnflushed(b, s, v, t, method, policy) ==
    /\ SweptBookings[b] = None
    /\ OpensSlot(SweptSessions, s, v, t)
    /\ booking' = [SweptBookings EXCEPT ![b] = PublicRow(s, t, method, policy)]
    /\ session' = SweptSessions
    /\ UNCHANGED now

\* ... or opens a session of its own for the booking.
PublicBookOpen(b, s, v, t, method, policy) ==
    /\ SweptBookings[b] = None
    /\ OpensSlot(SweptSessions, s, v, t)
    /\ booking' = [SweptBookings EXCEPT ![b] = PublicRow(s, t, method, policy)]
    /\ session' = [SweptSessions EXCEPT ![s] = OpenRow(v, t)]
    /\ UNCHANGED now

\* The reminder of a confirmed booking brings its customer a link, a customer of the
\* operator's own bookings included; public bookings had theirs from the start.
QueueReminder(b) ==
    /\ booking[b] # None /\ booking[b].status = "confirmed" /\ ~booking[b].link
    /\ LET start == session[booking[b].session].start
       IN  now < start /\ start <= now + ReminderLead
    /\ booking' = [booking EXCEPT ![b].link = TRUE]
    /\ UNCHANGED <<session, now>>

\* A link changes an active booking until the notice before its start.
CanChange(b) == /\ booking[b] # None /\ booking[b].link
                /\ booking[b].status \in Consuming
                /\ now < session[booking[b].session].start - ChangeNotice

CustomerCancel(b) ==
    /\ CanChange(b)
    /\ booking' = [booking EXCEPT ![b].status = "cancelled"]
    /\ session' = Released(booking', session, b, booking[b].session)
    /\ UNCHANGED now

Rebooked(b, s) == [booking EXCEPT ![b].session = s, ![b].rescheduled = TRUE]

CustomerRescheduleScheduled(b, s) ==
    /\ CanChange(b) /\ ~booking[b].rescheduled
    /\ OffersSeat(booking, session, s)
    /\ LET previous == booking[b].session
       IN  /\ session[s].service = session[previous].service
           /\ session[s].start # session[previous].start
           /\ booking' = Rebooked(b, s)
           /\ session' = Released(booking', session, b, previous)
    /\ UNCHANGED now

CustomerRescheduleOpen(b, s, t) ==
    /\ CanChange(b) /\ ~booking[b].rescheduled
    /\ LET previous == booking[b].session
           service == session[previous].service
       IN  /\ t # session[previous].start
           /\ OpensSlot(session, s, service, t)
           /\ booking' = Rebooked(b, s)
           /\ session' = Released(booking', [session EXCEPT ![s] = OpenRow(service, t)],
                                  b, previous)
    /\ UNCHANGED now

-----------------------------------------------------------------------------
(* The session editor *)

CreateSession(s, row) ==
    /\ session[s] = None
    /\ row.origin = "operator" /\ row.status = "scheduled"
    /\ ~Conflict(session, s, row)
    /\ session' = [session EXCEPT ![s] = row]
    /\ UNCHANGED <<booking, now>>

\* A past session keeps its schedule; the bookings of a session are not looked at.
UpdateSession(s, row) ==
    /\ session[s] # None
    /\ row.origin = session[s].origin
    /\ row.status \in EditStatuses \cup {session[s].status}
    /\ session[s].start < now => [row EXCEPT !.status = session[s].status] = session[s]
    /\ ~Conflict(session, s, row)
    /\ session' = [session EXCEPT ![s] = row]
    /\ UNCHANGED <<booking, now>>

Tick == /\ now < MaxTime
        /\ now' = now + 1
        /\ UNCHANGED <<booking, session>>

-----------------------------------------------------------------------------

OperatorStep(b) ==
    \/ \E s \in Sessions, method \in Methods : CreateOperatorBooking(b, s, method)
    \/ \E s \in Sessions : MoveBooking(b, s)
    \/ RecordAttendance(b)
    \/ RecordPaymentReceived(b)
    \/ Approve(b)
    \/ Decline(b)
    \/ Confirm(b)
    \/ Cancel(b)
    \/ \E outcome \in {"completed", "noshow"} : Finish(b, outcome)

CustomerStep(b) ==
    \/ \E s \in Sessions, method \in Methods, policy \in Policies :
         \/ PublicBookScheduled(b, s, method, policy)
         \/ \E v \in Services, t \in Starts : PublicBookOpen(b, s, v, t, method, policy)
    \/ CustomerCancel(b)
    \/ \E s \in Sessions : CustomerRescheduleScheduled(b, s)
    \/ \E s \in Sessions, t \in Starts : CustomerRescheduleOpen(b, s, t)

EditorStep == \E s \in Sessions, row \in SessionRow :
                CreateSession(s, row) \/ UpdateSession(s, row)

Next == \/ \E b \in Bookings : OperatorStep(b) \/ CustomerStep(b)
        \/ \E b \in Bookings : QueueReminder(b)
        \/ ExpireManualBookings
        \/ EditorStep
        \/ Tick

Spec == Init /\ [][Next]_vars

-----------------------------------------------------------------------------
(* Properties *)

\* "Confirmation occurs only when payment is free | paid and approval is
\* not_required | approved" (docs/PRODUCT.md:532): whatever commands, sweeps and
\* customer changes came before, no booking is confirmed, completed or a no-show
\* behind a shut gate.
ConfirmationGate ==
    \A b \in Bookings : booking[b] # None =>
        (booking[b].status \in {"confirmed", "completed", "noshow"} => Ready(booking[b]))

\* Lifecycle, payment and approval of each booking step as BookingLifecycle
\* promises: no cancellation touches a payment, no payment or approval arrives at
\* a booking that ended, nothing leaves a final state, a sweep hits unpaid only.
LifeOf(r) == IF r = None
             THEN [status |-> "none", payment |-> "none", approval |-> "none"]
             ELSE [status |-> r.status, payment |-> r.payment, approval |-> r.approval]

Lifecycle == INSTANCE BookingLifecycle
                WITH life <- [b \in Bookings |-> LifeOf(booking[b])]

ImplementsLifecycle == Lifecycle!Spec

\* Operators may bypass lead times "but never capacity" (docs/HISTORY.md:486-488),
\* and neither may the public page, a move or a reschedule: a transaction that
\* seats a booking in a session leaves the session within its capacity.  (Lowering
\* the capacity under the seats already taken is the editor's to do.)
SeatsWithinCapacity ==
    \A b \in Bookings, s \in Sessions :
        b \in Holders(booking', s) \ Holders(booking, s) =>
            Cardinality(Holders(booking', s)) <= session'[s].capacity

NeverOversold == [][SeatsWithinCapacity]_vars

\* "Operator-created sessions are never cancelled as a side effect"
\* (docs/PRODUCT.md:535-536) of what happens to their bookings.
OperatorSessionKept ==
    \A s \in Sessions :
        /\ session[s] # None /\ session[s].origin = "operator"
        /\ session[s].status # "cancelled" /\ session'[s].status = "cancelled"
        => booking' = booking

OperatorSessionsKept == [][OperatorSessionKept]_vars

\* "Public-created capacity-one sessions are released on decline, cancellation, or
\* payment expiry" (docs/PRODUCT.md:534-535), and when their booking moves away:
\* the step that takes the last booking off one cancels it, so its slot is free.
Occupants(bk, s) == {b \in Bookings : /\ bk[b] # None /\ bk[b].session = s
                                      /\ bk[b].status # "cancelled"}

VacatedSessionReleased ==
    \A s \in Sessions :
        /\ session[s] # None /\ session[s].origin = "public_open"
        /\ session[s].capacity = 1
        /\ Occupants(booking, s) # {} /\ Occupants(booking', s) = {}
        => session'[s].status = "cancelled"

VacatedSessionsReleased == [][VacatedSessionReleased]_vars

\* A booking that gives up its seat by a command (a cancel, decline, move or
\* reschedule: everything but the sweep, which marks a payment overdue) does not
\* take the session from another booking that still holds a seat of it.
ReleaseSparesHolders ==
    \A s \in Sessions :
        /\ session[s] # None
        /\ session[s].status # "cancelled" /\ session'[s].status = "cancelled"
        /\ Holders(booking', s) # {}
        => \/ booking' = booking
           \/ \E b \in Bookings : /\ booking[b] # None /\ booking[b].payment = "pending"
                                  /\ booking'[b].payment = "overdue"

ReleasesSpareHolders == [][ReleaseSparesHolders]_vars

\* "A public-open session existed only for this booking"
\* (public_booking/repository.py:341) and pending bookings "consume the slot until
\* every required gate passes or the booking is declined/cancelled/expires"
\* (docs/PRODUCT.md:401-403): a booking that holds a seat finds itself on a
\* cancelled session only if the operator cancelled that session in the editor.
Stranded(bk, ss, b) == /\ bk[b] # None /\ bk[b].status \in Consuming
                       /\ ss[bk[b].session].status = "cancelled"

StrandedOnlyByEditor ==
    \A b \in Bookings : Stranded(booking', session', b) /\ ~Stranded(booking, session, b)
                        => booking' = booking

HoldersKeepTheirSession == [][StrandedOnlyByEditor]_vars

\* The drawer that cancels a session promises "All attendees will be notified and their
\* bookings marked cancelled." (web SessionDrawer.tsx:550): a session that becomes
\* cancelled leaves no booking behind that still holds a seat of it.
CancelledWithItsBookings ==
    \A s \in Sessions : /\ session[s] # None /\ session[s].status # "cancelled"
                        /\ session'[s].status = "cancelled"
                        => Holders(booking', s) = {}

SessionsEndWithTheirBookings == [][CancelledWithItsBookings]_vars

\* "Free bookings create and confirm atomically" (docs/HISTORY.md:483): no booking
\* waits in pending once both its gates stand open.
PendingAwaitsAGate ==
    \A b \in Bookings : booking[b] # None =>
        (booking[b].status = "pending" => ~Ready(booking[b]))
=============================================================================
