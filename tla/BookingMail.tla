----------------------------- MODULE BookingMail -----------------------------
(***************************************************************************)
(* What a booking's customer and its operator are told (slotera_api:       *)
(* booking_access.py, maintenance.py, email/templates.py, bookings/        *)
(* repository.py, public_booking/manage.py and the functions of their      *)
(* migrations; web/src: lib/ics.ts, components/booking/AddToCalendar.tsx,  *)
(* the customer's page).                                                   *)
(*                                                                         *)
(* One booking, the sessions it may be in, the mails queued for its        *)
(* customer in the order they were made, and the entry of the customer's   *)
(* calendar: every file has the booking's UID and the time it was made as  *)
(* its SEQUENCE, so the file that was made last is shown.  Who may change  *)
(* what, and who holds a seat, is BookingLedger's; the workers and their   *)
(* leases are EmailOutbox's.                                               *)
(***************************************************************************)
EXTENDS Naturals, Sequences, FiniteSets

CONSTANTS Sessions,
          PublicSessions, \* those made for one public booking
          Origins,        \* of the booking: "public", "operator"
          FirstStart,     \* when each session starts at first
          MaxTime, Lead, ChangeNotice,
          Jobs,           \* runs of the maintenance job at the same time
          MaxMoves, MaxEdits, MaxFails, Downloads,
          None

MailAssumption ==
    /\ PublicSessions \subseteq Sessions /\ Origins \subseteq {"public", "operator"}
    /\ MaxTime \in Nat /\ FirstStart \in [Sessions -> 1 .. MaxTime]
    /\ Lead \in Nat /\ ChangeNotice \in Nat /\ Downloads \in BOOLEAN
    /\ MaxMoves \in Nat /\ MaxEdits \in Nat /\ MaxFails \in Nat

VARIABLES now,
          booking,
          session,  \* the start of every session, and whether it is scheduled
          outbox,   \* the rows of the customer's mails
          notices,  \* kinds of the operator's notifications and mails
          due,      \* the jobs whose list has the booking
          link,     \* the customer has a manage link
          page,     \* the start the customer's page shows
          calendar, \* the entry of the customer's calendar
          overtaken, \* its file was made of an older state than the customer had been sent,
                     \* by a mail that is tried again or by a page not loaded since
          changes,  \* what the customer did: cancelled, rescheduled
          silent,   \* the last change of time or status was told by no mail
          bounds    \* moves, edits and failures so far

vars == <<now, booking, session, outbox, notices, due, link, page, calendar, overtaken,
          changes, silent, bounds>>

Starts == 1 .. MaxTime
Kinds == {"received", "confirmed", "reminder", "rescheduled", "cancelled"}
NoticeOf == [received |-> "booking_pending", confirmed |-> "booking_confirmed",
             rescheduled |-> "reschedule_requested", cancelled |-> "booking_cancelled"]
OwnNotice == [new |-> "operator_booking_new", cancelled |-> "operator_booking_cancelled",
              rescheduled |-> "operator_booking_rescheduled"]
Notices == {NoticeOf[k] : k \in DOMAIN NoticeOf} \cup {OwnNotice[a] : a \in DOMAIN OwnNotice}

Mail == [kind: Kinds, key: 0 .. MaxMoves, at: Starts,
         state: {"queued", "waiting", "sent", "deleted"}]
Row(kind, key, at) == [kind |-> kind, key |-> key, at |-> at, state |-> "queued"]

start == session[booking.session].start
Active == booking.status \in {"pending", "confirmed"}

TypeOK == /\ now \in 0 .. MaxTime
          /\ booking \in [status: {"none", "pending", "confirmed", "cancelled"}, session: Sessions,
                          origin: Origins, email: BOOLEAN, rescheduled: BOOLEAN]
          /\ session \in [Sessions -> [start: Starts, scheduled: BOOLEAN]]
          /\ outbox \in Seq(Mail) /\ notices \subseteq Notices
          /\ due \subseteq Jobs /\ link \in BOOLEAN /\ silent \in BOOLEAN
          /\ page \in Starts \cup {None} /\ calendar \in Starts \cup {None} /\ overtaken \in BOOLEAN
          /\ changes \in 0 .. 2
          /\ bounds \in [moves: 0 .. MaxMoves, edits: 0 .. MaxEdits, fails: 0 .. MaxFails]
          \* an erased customer has no link and no mail to come
          /\ ~booking.email => /\ ~link
                               /\ \A i \in 1 .. Len(outbox) : outbox[i].state \in {"sent", "deleted"}

Init == /\ now = 0
        /\ booking \in [status: {"none"}, session: Sessions, origin: Origins, email: {TRUE},
                        rescheduled: {FALSE}]
        /\ session = [s \in Sessions |-> [start |-> FirstStart[s], scheduled |-> TRUE]]
        /\ outbox = <<>> /\ notices = {} /\ due = {} /\ link = FALSE
        /\ page = None /\ calendar = None /\ overtaken = FALSE /\ changes = 0 /\ silent = FALSE
        /\ bounds = [moves |-> 0, edits |-> 0, fails |-> 0]

-----------------------------------------------------------------------------
(* The functions of the database that queue mails. *)

\* A variant of Queue: a row more for every call.
QueueAlways(kind, key, at) == Append(outbox, Row(kind, key, at))

\* uq_email_outbox_booking_event: ON CONFLICT DO NOTHING.
Queue(kind, key, at) ==
    IF \E i \in 1 .. Len(outbox) : outbox[i].kind = kind /\ outbox[i].key = key
    THEN outbox
    ELSE Append(outbox, Row(kind, key, at))

\* slotera_booking_emit_event, for a booking that is `b` by now: applies where
\* the customer has an address and the status fits the event.
Applies(event, b) ==
    /\ b.email
    /\ CASE event = "received" -> b.status = "pending"
         [] event \in {"confirmed", "reminder"} -> b.status = "confirmed"
         [] event = "rescheduled" -> b.status \in {"pending", "confirmed"}
         [] event = "cancelled" -> b.status = "cancelled"

Emit(event, b) ==
    IF Applies(event, b)
    THEN /\ outbox' = Queue(event, 0, session[b.session].start)
         /\ silent' = (silent /\ event = "reminder")
    ELSE UNCHANGED <<outbox, silent>>

\* With what the operator is told of it; `action` is the customer's own.
Notify(event, b, action) ==
    /\ Emit(event, b)
    /\ notices' = notices \cup (IF Applies(event, b) THEN {NoticeOf[event]} ELSE {})
                          \cup (IF action = None THEN {} ELSE {OwnNotice[action]})

\* release_public_session
Released(s) == IF s \in PublicSessions THEN [session EXCEPT ![s].scheduled = FALSE] ELSE session

-----------------------------------------------------------------------------
(* The booking. *)

Bookable(s) == session[s].scheduled /\ session[s].start > now

create_booking(status) ==
    /\ booking.status = "none" /\ Bookable(booking.session)
    /\ booking' = [booking EXCEPT !.status = status]
    /\ IF booking.origin = "public"
       THEN Notify(IF status = "confirmed" THEN "confirmed" ELSE "received", booking', "new")
       ELSE UNCHANGED <<outbox, notices, silent>>
    /\ UNCHANGED <<now, session, due, link, page, calendar, overtaken, changes, bounds>>

\* A confirm, an approval or a payment; without an event to a customer who
\* booked online the command is rolled back.
confirm ==
    /\ booking.status = "pending"
    /\ booking' = [booking EXCEPT !.status = "confirmed"]
    /\ IF booking.origin = "public"
       THEN Applies("confirmed", booking') /\ Notify("confirmed", booking', None)
       ELSE UNCHANGED <<outbox, notices, silent>>
    /\ UNCHANGED <<now, session, due, link, page, calendar, overtaken, changes, bounds>>

\* The operator cancels or declines it, or its payment expired.  (An outcome,
\* completed or no-show, tells nobody either and ends the story.)
drop ==
    /\ Active
    /\ booking' = [booking EXCEPT !.status = "cancelled"]
    /\ session' = Released(booking.session)
    /\ silent' = TRUE
    /\ UNCHANGED <<now, outbox, notices, due, link, page, calendar, overtaken, changes, bounds>>

can_cancel == link /\ Active /\ now + ChangeNotice < start

cancel ==
    /\ can_cancel
    /\ booking' = [booking EXCEPT !.status = "cancelled"]
    /\ session' = Released(booking.session)
    /\ changes' = changes + 1
    /\ Notify("cancelled", booking', "cancelled")
    /\ UNCHANGED <<now, due, link, page, calendar, overtaken, bounds>>

can_reschedule == can_cancel /\ ~booking.rescheduled

reschedule(s) ==
    /\ can_reschedule /\ Bookable(s) /\ session[s].start # start
    /\ booking' = [booking EXCEPT !.session = s, !.rescheduled = TRUE]
    /\ session' = Released(booking.session)
    /\ changes' = changes + 1
    /\ Notify("rescheduled", booking', "rescheduled")
    /\ UNCHANGED <<now, due, link, page, calendar, overtaken, bounds>>


notify_client_moved(b) ==
    IF b.email THEN outbox' = Queue("rescheduled", bounds.moves + 1, session[b.session].start) /\ silent' = FALSE
               ELSE UNCHANGED <<outbox, silent>>

move_booking(s) ==
    /\ bounds.moves < MaxMoves
    /\ Active /\ Bookable(s) /\ s # booking.session
    /\ booking' = [booking EXCEPT !.session = s]
    /\ session' = Released(booking.session)
    /\ IF booking.origin = "public" THEN notify_client_moved(booking')
                                    ELSE silent' = TRUE /\ UNCHANGED outbox
    /\ bounds' = [bounds EXCEPT !.moves = @ + 1]
    /\ UNCHANGED <<now, notices, due, link, page, calendar, overtaken, changes>>

\* The editor moves, cancels or reinstates a session, one that began only in
\* its status, and its bookings with it; nobody is told.
update_session(s, r) ==
    /\ bounds.edits < MaxEdits
    /\ session[s] # r /\ (r.start # session[s].start => session[s].start >= now)
    /\ session' = [session EXCEPT ![s] = r]
    /\ silent' = (silent \/ s = booking.session)
    /\ bounds' = [bounds EXCEPT !.edits = @ + 1]
    /\ UNCHANGED <<now, booking, outbox, notices, due, link, page, calendar, overtaken, changes>>

\* Mails that wait are deleted, and the links are revoked.  A deleted row keeps
\* its place: nobody looks at the rows of an erased client again.
erase_client ==
    /\ booking.status # "none" /\ booking.email
    /\ booking' = [booking EXCEPT !.email = FALSE]
    /\ outbox' = [i \in 1 .. Len(outbox) |->
                      IF outbox[i].state = "sent" THEN outbox[i]
                                                  ELSE [outbox[i] EXCEPT !.state = "deleted"]]
    /\ link' = FALSE
    /\ UNCHANGED <<now, session, notices, due, page, calendar, overtaken, changes, silent, bounds>>

-----------------------------------------------------------------------------
(* The maintenance job: a list, then a transaction for each of its rows. *)

Due == /\ booking.status = "confirmed" /\ booking.email
       /\ now < start /\ start <= now + Lead
       /\ ~\E i \in 1 .. Len(outbox) : outbox[i].kind = "reminder"

due_reminders(j) ==
    /\ j \notin due /\ Due
    /\ due' = due \cup {j}
    /\ UNCHANGED <<now, booking, session, outbox, notices, link, page, calendar, overtaken, changes, silent, bounds>>

queue_booking_reminders(j) ==
    /\ j \in due
    /\ due' = due \ {j}
    /\ Emit("reminder", booking)
    /\ UNCHANGED <<now, booking, session, notices, link, page, calendar, overtaken, changes, bounds>>

-----------------------------------------------------------------------------
(* The worker, and the customer. *)

\* The first row that nothing holds back.
claim(i) == /\ outbox[i].state = "queued"
            /\ \A j \in 1 .. i - 1 : outbox[j].state # "queued"

\* The mails with a file for the calendar.
Brings(i) == outbox[i].kind \in {"confirmed", "rescheduled", "cancelled"}

\* The customer has the mail: its link, and its file.
Reaches(i) ==
    LET r == outbox[i] IN
    /\ link' = (link \/ r.kind # "cancelled")
    /\ calendar' = CASE r.kind = "cancelled" -> None
                     [] r.kind \in {"confirmed", "rescheduled"} -> r.at
                     [] OTHER -> calendar
    /\ overtaken' = IF Brings(i) THEN \E j \in i + 1 .. Len(outbox) : outbox[j].state = "sent" /\ Brings(j)
                    ELSE overtaken

send(i) ==
    /\ claim(i)
    /\ Reaches(i)
    /\ outbox' = [outbox EXCEPT ![i].state = "sent"]
    /\ UNCHANGED <<now, booking, session, notices, due, page, changes, silent, bounds>>

\* The provider refuses, or takes the mail and the worker dies before it marks
\* it; the row waits for its backoff or its lease.
fail(i) ==
    /\ bounds.fails < MaxFails /\ claim(i)
    /\ Reaches(i) \/ UNCHANGED <<link, calendar, overtaken>>
    /\ outbox' = [outbox EXCEPT ![i].state = "waiting"]
    /\ bounds' = [bounds EXCEPT !.fails = @ + 1]
    /\ UNCHANGED <<now, booking, session, notices, due, page, changes, silent>>

retry(i) ==
    /\ outbox[i].state = "waiting"
    /\ outbox' = [outbox EXCEPT ![i].state = "queued"]
    /\ UNCHANGED <<now, booking, session, notices, due, link, page, calendar, overtaken, changes, silent, bounds>>

\* The customer's page, which is not loaded again by itself.
Visit ==
    /\ Downloads /\ link /\ Active /\ page # start
    /\ page' = start
    /\ UNCHANGED <<now, booking, session, outbox, notices, due, link, calendar, overtaken, changes, silent, bounds>>

\* "Add to calendar", with the file the browser makes.
download ==
    /\ Downloads /\ page # None /\ calendar # page
    /\ calendar' = page
    /\ overtaken' = (page # start \/ ~Active)
    /\ UNCHANGED <<now, booking, session, outbox, notices, due, link, page, changes, silent, bounds>>

Tick ==
    /\ now < MaxTime
    /\ now' = now + 1
    /\ UNCHANGED <<booking, session, outbox, notices, due, link, page, calendar, overtaken, changes, silent, bounds>>

Next == \/ \E status \in {"pending", "confirmed"} : create_booking(status)
        \/ confirm \/ drop \/ cancel \/ erase_client \/ Visit \/ download \/ Tick
        \/ \E s \in Sessions : \/ reschedule(s) \/ move_booking(s)
                               \/ \E r \in [start: Starts, scheduled: BOOLEAN] :
                                      update_session(s, r)
        \/ \E j \in Jobs : due_reminders(j) \/ queue_booking_reminders(j)
        \/ \E i \in 1 .. Len(outbox) : send(i) \/ fail(i) \/ retry(i)

Spec == Init /\ [][Next]_vars

-----------------------------------------------------------------------------
(* The last mail for the customer of an online booking names the time it   *)
(* is at, through moves, reschedules and reminders in any order, unless    *)
(* the session itself was moved since.                                     *)
TimeIsTold ==
    booking.origin = "public" /\ booking.email /\ Active /\ ~silent =>
        /\ outbox # <<>>
        /\ outbox[Len(outbox)].at = start

(* "The operator gets a notification for every customer change."           *)
ChangesAreNoticed ==
    changes = Cardinality(notices \cap {"reschedule_requested", "booking_cancelled"})

(* Overlapping runs of the job remind the customer once, also of a booking *)
(* that moved between list and mail.                                       *)
OneReminder ==
    Cardinality({i \in 1 .. Len(outbox) : outbox[i].kind = "reminder"}) <= 1

(* Where every mail arrived, the customer's calendar shows a confirmed     *)
(* online booking at its time and no cancelled one, unless its last file   *)
(* was made late, of a state that a newer mail had replaced already or a   *)
(* page did not show any more: "a later file replaces an earlier one".     *)
CalendarIsCurrent ==
    (/\ booking.origin = "public" /\ booking.email /\ ~silent /\ ~overtaken
     /\ \A i \in 1 .. Len(outbox) : outbox[i].state = "sent") =>
        /\ booking.status = "confirmed" => calendar = start
        /\ booking.status = "cancelled" => calendar = None

(* "Reminders go out ~24h before confirmed sessions": a booking the job    *)
(* leaves out was reminded of its time.                                    *)
RemindedOfItsTime ==
    (/\ booking.status = "confirmed" /\ booking.email /\ ~Due
     /\ now < start /\ start <= now + Lead) =>
        \E i \in 1 .. Len(outbox) : outbox[i].kind = "reminder" /\ outbox[i].at = start

(* "Your session is coming up.": no reminder of a session that is off.     *)
ReminderIsTrue ==
    [][Len(outbox') > Len(outbox) /\ outbox'[Len(outbox')].kind = "reminder" =>
           session[booking.session].scheduled]_vars

=============================================================================
