-------------------------- MODULE BookingMailProofs --------------------------
(***************************************************************************)
(* What the mails of a booking say, for any number of sessions, moves,     *)
(* edits, jobs and failures.  A step adds one row to the outbox, which no  *)
(* row had the kind and key of, or changes only the states of rows.        *)
(***************************************************************************)
EXTENDS BookingMail, SequenceTheorems, FiniteSetTheorems, TLAPS

\* What a row says of the booking: it was told once of its confirmation and of
\* its end, and of its reschedule; a move's row has the move's number.
Fits(kind, key) ==
    /\ key <= bounds.moves
    /\ kind # "rescheduled" => key = 0
    /\ kind = "rescheduled" /\ key = 0 => booking.rescheduled
    /\ kind = "confirmed" => booking.status # "pending"
    /\ kind = "cancelled" => booking.status = "cancelled"
    /\ booking.status # "none"

RowsFit == \A i \in 1 .. Len(outbox) : Fits(outbox[i].kind, outbox[i].key)

\* uq_email_outbox_booking_event
RowsDiffer ==
    \A i, j \in 1 .. Len(outbox) :
        outbox[i].kind = outbox[j].kind /\ outbox[i].key = outbox[j].key => i = j

\* The operator's notices of the customer's two changes.
Noticed ==
    /\ changes = (IF booking.rescheduled THEN 1 ELSE 0) +
                 (IF "booking_cancelled" \in notices THEN 1 ELSE 0)
    /\ booking.rescheduled <=> "reschedule_requested" \in notices
    /\ "booking_cancelled" \in notices => booking.status = "cancelled"

MailInv == TypeOK /\ RowsFit /\ RowsDiffer /\ Noticed /\ TimeIsTold

-----------------------------------------------------------------------------
(* The two ways in which a step changes the outbox, and how the booking    *)
(* goes on.                                                                *)

Adds(r) == /\ outbox' \in Seq(Mail) /\ Len(outbox') = Len(outbox) + 1
           /\ \A i \in 1 .. Len(outbox) : outbox'[i] = outbox[i]
           /\ outbox'[Len(outbox) + 1] = r

Restates == /\ outbox' \in Seq(Mail) /\ Len(outbox') = Len(outbox)
            /\ \A i \in 1 .. Len(outbox) : /\ outbox'[i].kind = outbox[i].kind
                                           /\ outbox'[i].key = outbox[i].key
                                           /\ outbox'[i].at = outbox[i].at

Fresh(kind, key) ==
    \A i \in 1 .. Len(outbox) : ~(outbox[i].kind = kind /\ outbox[i].key = key)

\* A row that is new, and names the time that the booking is at by then.
Tells(kind, key) == Fresh(kind, key) /\ Adds(Row(kind, key, start'))

Onward == /\ booking.rescheduled => booking'.rescheduled
          /\ booking.status = "cancelled" => booking'.status = "cancelled"
          /\ booking.status # "none" => booking'.status # "none"
          /\ booking.status \notin {"none", "pending"} => booking'.status # "pending"
          /\ bounds'.moves >= bounds.moves

\* What the customer was told stays told.
Calm == booking'.origin = "public" /\ booking'.email /\ Active' /\ ~silent' =>
            booking.origin = "public" /\ booking.email /\ Active /\ ~silent /\ start' = start

\* The customer was told nothing, and what was told is as good as it was.
Unsaid == booking'.origin = "public" /\ booking'.email /\ ~silent' =>
            /\ booking.origin = "public" /\ booking.email /\ ~silent
            /\ booking'.status = booking.status /\ start' = start

\* What a command does to the mails that bring the calendar's files.
Effect ==
    /\ UNCHANGED <<calendar, overtaken>>
    /\ \/ outbox' = outbox /\ Unsaid
       \/ \E kind \in Kinds, key \in 0 .. MaxMoves :
             /\ Tells(kind, key)
             /\ kind = "reminder" => Unsaid
             /\ kind = "received" => booking'.status = "pending"
             /\ kind \in {"confirmed", "rescheduled"} => booking'.status \in {"pending", "confirmed"}
             /\ kind = "cancelled" => booking'.status = "cancelled"
       \/ ~booking'.email

LEMMA QueueEffect ==
    ASSUME outbox \in Seq(Mail), NEW kind \in Kinds, NEW key \in 0 .. MaxMoves, NEW at \in Starts,
           outbox' = Queue(kind, key, at)
    PROVE  \/ ~Fresh(kind, key) /\ outbox' = outbox
           \/ Fresh(kind, key) /\ Adds(Row(kind, key, at))
  <1>1. Row(kind, key, at) \in Mail
    BY DEF Row, Mail
  <1>2. CASE Fresh(kind, key)
    <2>1. outbox' = Append(outbox, Row(kind, key, at))
      BY <1>2 DEF Queue, Fresh
    <2> QED
      BY <1>1, <1>2, <2>1, AppendProperties DEF Adds
  <1>3. CASE ~Fresh(kind, key)
    BY <1>3 DEF Queue, Fresh
  <1> QED
    BY <1>2, <1>3

LEMMA RowsStay ==
    ASSUME TypeOK, TypeOK', RowsFit, RowsDiffer, Onward, Restates
    PROVE  RowsFit' /\ RowsDiffer'
  <1>1. \A i \in 1 .. Len(outbox) : outbox[i] \in Mail /\ outbox'[i] \in Mail
    BY DEF TypeOK, Restates
  <1>2. RowsFit'
    <2> SUFFICES ASSUME NEW i \in 1 .. Len(outbox) PROVE Fits(outbox[i].kind, outbox[i].key)'
      BY DEF RowsFit, Restates
    <2>1. Fits(outbox[i].kind, outbox[i].key)
      BY DEF RowsFit
    <2> QED
      BY <1>1, <2>1 DEF Fits, Onward, Restates, TypeOK, Mail
  <1>3. RowsDiffer'
    BY DEF RowsDiffer, Restates
  <1> QED
    BY <1>2, <1>3

LEMMA RowsGrow ==
    ASSUME TypeOK, TypeOK', RowsFit, RowsDiffer, Onward, NEW kind, NEW key, Tells(kind, key),
           Fits(kind, key)'
    PROVE  RowsFit' /\ RowsDiffer'
  <1>1. /\ \A i \in 1 .. Len(outbox) : outbox[i] \in Mail
        /\ Len(outbox) \in Nat /\ 1 .. Len(outbox') = 1 .. Len(outbox) \cup {Len(outbox) + 1}
    BY DEF TypeOK, Adds, Tells
  <1>4. LET n == Len(outbox) + 1 IN outbox'[n].kind = kind /\ outbox'[n].key = key
    BY DEF Tells, Adds, Row
  <1>2. RowsFit'
    <2> SUFFICES ASSUME NEW i \in 1 .. Len(outbox) PROVE Fits(outbox[i].kind, outbox[i].key)'
      BY <1>1, <1>4 DEF RowsFit
    <2>1. Fits(outbox[i].kind, outbox[i].key)
      BY DEF RowsFit
    <2>2. outbox'[i] = outbox[i] /\ outbox[i].key \in Nat
      BY <1>1 DEF Tells, Adds, Mail
    <2>3. bounds.moves \in Nat /\ bounds'.moves \in Nat
      BY DEF TypeOK
    <2> QED
      BY <2>1, <2>2, <2>3 DEF Fits, Onward
  <1>3. RowsDiffer'
    BY <1>1, <1>4 DEF RowsDiffer, Tells, Adds, Fresh
  <1> QED
    BY <1>2, <1>3

LEMMA TimeStays ==
    ASSUME TypeOK, TimeIsTold, Restates, Calm
    PROVE  TimeIsTold'
  <1> SUFFICES ASSUME booking'.origin = "public", booking'.email, Active', ~silent'
               PROVE  outbox' # <<>> /\ outbox'[Len(outbox')].at = start'
    BY DEF TimeIsTold
  <1>1. outbox # <<>> /\ outbox[Len(outbox)].at = start /\ start' = start
    BY DEF TimeIsTold, Calm
  <1>2. Len(outbox) \in 1 .. Len(outbox)
    BY <1>1, EmptySeq DEF TypeOK
  <1> QED
    BY <1>1, <1>2 DEF Restates

LEMMA TimeAdded ==
    ASSUME TypeOK, NEW kind, NEW key, Tells(kind, key)
    PROVE  TimeIsTold'
  BY EmptySeq DEF TypeOK, Tells, Adds, Row, TimeIsTold

-----------------------------------------------------------------------------
(* What each step does to rows and notices.                                *)

LEMMA NoticesAre ==
    Notices = {"booking_pending", "booking_confirmed", "reschedule_requested", "booking_cancelled",
               "operator_booking_new", "operator_booking_cancelled", "operator_booking_rescheduled"}
  BY DEF Notices, NoticeOf, OwnNotice

LEMMA SameRows ==
    ASSUME outbox \in Seq(Mail), outbox' = outbox
    PROVE  Restates
  BY DEF Restates

LEMMA EmitEffect ==
    ASSUME MailAssumption, TypeOK, NEW event \in Kinds, booking'.session \in Sessions,
           Emit(event, booking'),
           session'[booking'.session].start = session[booking'.session].start
    PROVE  \/ ~Applies(event, booking') /\ outbox' = outbox /\ silent' = silent
           \/ /\ Applies(event, booking') /\ silent' = (silent /\ event = "reminder")
              /\ \/ ~Fresh(event, 0) /\ outbox' = outbox
                 \/ Tells(event, 0)
  <1>1. 0 \in 0 .. MaxMoves /\ session[booking'.session].start \in Starts
    BY DEF TypeOK, MailAssumption
  <1>2. CASE Applies(event, booking')
    <2>1. outbox' = Queue(event, 0, session[booking'.session].start)
      BY <1>2 DEF Emit
    <2>2. silent' = (silent /\ event = "reminder")
      BY <1>2 DEF Emit
    <2>3. outbox \in Seq(Mail)
      BY DEF TypeOK
    <2>4. \/ ~Fresh(event, 0) /\ outbox' = outbox
          \/ Fresh(event, 0) /\ Adds(Row(event, 0, session[booking'.session].start))
      BY <1>1, <2>1, <2>3, QueueEffect
    <2> QED
      BY <1>2, <2>2, <2>4 DEF Tells, start
  <1>3. CASE ~Applies(event, booking')
    BY <1>3 DEF Emit
  <1> QED
    BY <1>2, <1>3

\* A step that adds no row, and one that adds one.
LEMMA QuietKeeps ==
    ASSUME MailInv, TypeOK', Restates, Onward, Calm, Noticed'
    PROVE  MailInv'
  BY RowsStay, TimeStays DEF MailInv

LEMMA TellingKeeps ==
    ASSUME MailInv, TypeOK', NEW kind, NEW key, Tells(kind, key),
           Onward, Fits(kind, key)', Noticed'
    PROVE  MailInv'
  BY RowsGrow, TimeAdded DEF MailInv

\* The customer's own change is among the notices, once.
LEMMA NoticedAgain ==
    ASSUME Noticed, UNCHANGED changes, booking'.rescheduled = booking.rescheduled,
           "booking_cancelled" \in notices' <=> "booking_cancelled" \in notices,
           "reschedule_requested" \in notices' <=> "reschedule_requested" \in notices,
           booking.status = "cancelled" => booking'.status = "cancelled"
    PROVE  Noticed'
  BY DEF Noticed

LEMMA NotifyEffect ==
    ASSUME MailAssumption, MailInv, NEW event \in Kinds \ {"reminder"}, Fresh(event, 0),
           NEW action \in {"new", "cancelled", "rescheduled", None},
           Notify(event, booking', action), booking'.session \in Sessions,
           session'[booking'.session].start = session[booking'.session].start
    PROVE  /\ notices' \subseteq Notices
           /\ \A k \in {"booking_cancelled", "reschedule_requested"} :
                 k \in notices' <=> (k \in notices \/ (Applies(event, booking') /\ k = NoticeOf[event]))
           /\ \/ ~Applies(event, booking') /\ outbox' = outbox /\ silent' = silent
              \/ Applies(event, booking') /\ Tells(event, 0) /\ silent' = FALSE
  <1>1. Emit(event, booking') /\ TypeOK
    BY DEF Notify, MailInv
  <1>2. \/ ~Applies(event, booking') /\ outbox' = outbox /\ silent' = silent
        \/ Applies(event, booking') /\ Tells(event, 0) /\ silent' = FALSE
    BY <1>1, EmitEffect
  <1> DEFINE told == IF Applies(event, booking') THEN {NoticeOf[event]} ELSE {}
             own == IF action = None THEN {} ELSE {OwnNotice[action]}
  <1>3. notices' = notices \cup told \cup own
    BY DEF Notify
  <1>4. NoticeOf[event] \in {"booking_pending", "booking_confirmed", "reschedule_requested",
                             "booking_cancelled"}
    BY DEF Kinds, NoticeOf
  <1>5. own \subseteq {"operator_booking_new", "operator_booking_cancelled",
                       "operator_booking_rescheduled"}
    BY DEF OwnNotice
  <1>6. notices \subseteq Notices
    BY <1>1 DEF TypeOK
  <1>7. \A k \in {"booking_cancelled", "reschedule_requested"} : k \notin own
    BY <1>5
  <1> HIDE DEF own
  <1> QED
    BY <1>2, <1>3, <1>4, <1>5, <1>6, <1>7, NoticesAre

LEMMA ReleasedEffect ==
    ASSUME TypeOK, NEW s \in Sessions, session' = Released(s)
    PROVE  /\ session' \in [Sessions -> [start: Starts, scheduled: BOOLEAN]]
           /\ \A u \in Sessions : session'[u].start = session[u].start
  BY DEF TypeOK, Released

LEMMA BoundsGrow ==
    ASSUME MailAssumption,
           bounds \in [moves: 0 .. MaxMoves, edits: 0 .. MaxEdits, fails: 0 .. MaxFails],
           \/ bounds.edits < MaxEdits /\ bounds' = [bounds EXCEPT !.edits = @ + 1]
           \/ bounds.fails < MaxFails /\ bounds' = [bounds EXCEPT !.fails = @ + 1]
    PROVE  /\ bounds' \in [moves: 0 .. MaxMoves, edits: 0 .. MaxEdits, fails: 0 .. MaxFails]
           /\ bounds'.moves = bounds.moves
  <1>1. bounds.edits \in 0 .. MaxEdits /\ bounds.fails \in 0 .. MaxFails
    OBVIOUS
  <1>2. CASE bounds.edits < MaxEdits /\ bounds' = [bounds EXCEPT !.edits = @ + 1]
    <2>1. bounds.edits + 1 \in 0 .. MaxEdits
      BY <1>1, <1>2 DEF MailAssumption
    <2> QED
      BY <1>2, <2>1
  <1>3. CASE bounds.fails < MaxFails /\ bounds' = [bounds EXCEPT !.fails = @ + 1]
    <2>1. bounds.fails + 1 \in 0 .. MaxFails
      BY <1>1, <1>3 DEF MailAssumption
    <2> QED
      BY <1>3, <2>1
  <1> QED
    BY <1>2, <1>3

LEMMA FirstOfItsKind ==
    ASSUME MailInv, NEW kind \in Kinds, ~Fits(kind, 0)
    PROVE  Fresh(kind, 0)
  BY DEF MailInv, RowsFit, Fits, Fresh

-----------------------------------------------------------------------------
(* Each step keeps the invariant.                                          *)

LEMMA CreateKeeps ==
    ASSUME MailAssumption, MailInv, NEW status \in {"pending", "confirmed"}, create_booking(status)
    PROVE  MailInv' /\ Effect
  <1> DEFINE event == IF status = "confirmed" THEN "confirmed" ELSE "received"
  <1>1. /\ booking' = [booking EXCEPT !.status = status] /\ booking.status = "none"
        /\ UNCHANGED <<now, session, due, link, page, calendar, overtaken, changes, bounds>>
        /\ booking'.session = booking.session /\ booking'.session \in Sessions
        /\ booking'.status = status /\ booking'.email = booking.email
        /\ booking'.rescheduled = booking.rescheduled
    BY DEF create_booking, MailInv, TypeOK
  <1>3. Onward
    BY <1>1 DEF Onward, MailInv, TypeOK
  <1>4. CASE booking.origin = "public"
    <2>1. Notify(event, booking', "new")
      BY <1>4 DEF create_booking
    <2>2. event \in Kinds \ {"reminder"} /\ Fresh(event, 0)
      BY <1>1, FirstOfItsKind DEF Kinds, Fits
    <2>3. /\ notices' \subseteq Notices
          /\ \A k \in {"booking_cancelled", "reschedule_requested"} :
                k \in notices' <=> (k \in notices \/ (Applies(event, booking') /\ k = NoticeOf[event]))
          /\ \/ ~Applies(event, booking') /\ outbox' = outbox /\ silent' = silent
             \/ Applies(event, booking') /\ Tells(event, 0) /\ silent' = FALSE
      BY <1>1, <2>1, <2>2, NotifyEffect
    <2>4. Noticed'
      BY <1>1, <2>3, NoticedAgain DEF MailInv, NoticeOf
    <2>5. CASE ~Applies(event, booking')
      <3>1. ~booking'.email
        BY <1>1, <2>5 DEF Applies
      <3>2. TypeOK'
        BY <1>1, <2>3, <2>5 DEF MailInv, TypeOK
      <3>3. Effect
        BY <1>1, <3>1 DEF Effect
      <3> QED
        BY <1>3, <2>3, <2>4, <2>5, <3>1, <3>2, <3>3, SameRows, QuietKeeps DEF Calm, MailInv, TypeOK
    <2>6. CASE Applies(event, booking')
      <3>1. Tells(event, 0) /\ silent' = FALSE /\ booking'.email
        BY <2>3, <2>6 DEF Applies
      <3>2. TypeOK'
        BY <1>1, <2>3, <3>1 DEF MailInv, TypeOK, Tells, Adds
      <3>3. Fits(event, 0)'
        BY <1>1, <3>2 DEF Fits, TypeOK
      <3>4. Effect
        BY <1>1, <2>2, <3>1 DEF Effect, MailAssumption
      <3> QED
        BY <1>3, <2>4, <3>1, <3>2, <3>3, <3>4, TellingKeeps
    <2> QED
      BY <2>5, <2>6
  <1>5. CASE booking.origin # "public"
    <2>1. UNCHANGED <<outbox, notices, silent>>
      BY <1>5 DEF create_booking
    <2>2. Restates
      BY <2>1, SameRows DEF MailInv, TypeOK
    <2>3. TypeOK'
      BY <1>1, <2>1 DEF MailInv, TypeOK
    <2>4. Calm
      BY <1>1, <1>5 DEF Calm, MailInv, TypeOK
    <2>5. Noticed'
      BY <1>1, <2>1, NoticedAgain DEF MailInv
    <2>6. Effect
      BY <1>1, <1>5, <2>1 DEF Effect, Unsaid, MailInv, TypeOK
    <2> QED
      BY <1>3, <2>2, <2>3, <2>4, <2>5, <2>6, QuietKeeps
  <1> QED
    BY <1>4, <1>5

LEMMA ConfirmKeeps ==
    ASSUME MailAssumption, MailInv, confirm
    PROVE  MailInv' /\ Effect
  <1>1. /\ booking' = [booking EXCEPT !.status = "confirmed"] /\ booking.status = "pending"
        /\ UNCHANGED <<now, session, due, link, page, calendar, overtaken, changes, bounds>>
        /\ booking'.session = booking.session /\ booking'.session \in Sessions
        /\ booking'.status = "confirmed" /\ booking'.email = booking.email
        /\ booking'.rescheduled = booking.rescheduled /\ booking'.origin = booking.origin
    BY DEF confirm, MailInv, TypeOK
  <1>2. Onward
    BY <1>1 DEF Onward, MailInv, TypeOK
  <1>3. CASE booking.origin = "public"
    <2>1. Applies("confirmed", booking') /\ Notify("confirmed", booking', None)
      BY <1>3 DEF confirm
    <2>2. "confirmed" \in Kinds \ {"reminder"} /\ Fresh("confirmed", 0)
      BY <1>1, FirstOfItsKind DEF Kinds, Fits
    <2>3. /\ notices' \subseteq Notices
          /\ \A k \in {"booking_cancelled", "reschedule_requested"} :
                k \in notices' <=> k \in notices
          /\ Tells("confirmed", 0) /\ silent' = FALSE /\ booking'.email
      BY <1>1, <2>1, <2>2, NotifyEffect DEF NoticeOf, Applies
    <2>4. Noticed'
      BY <1>1, <2>3, NoticedAgain DEF MailInv
    <2>5. TypeOK'
      BY <1>1, <2>3 DEF MailInv, TypeOK, Tells, Adds
    <2>6. Fits("confirmed", 0)'
      BY <1>1, <2>5 DEF Fits, TypeOK
    <2>7. Effect
      BY <1>1, <2>2, <2>3 DEF Effect, MailAssumption
    <2> QED
      BY <1>2, <2>3, <2>4, <2>5, <2>6, <2>7, TellingKeeps
  <1>4. CASE booking.origin # "public"
    <2>1. UNCHANGED <<outbox, notices, silent>>
      BY <1>4 DEF confirm
    <2>2. TypeOK'
      BY <1>1, <2>1 DEF MailInv, TypeOK
    <2>3. Noticed'
      BY <1>1, <2>1, NoticedAgain DEF MailInv
    <2>4. Restates
      BY <2>1, SameRows DEF MailInv, TypeOK
    <2>5. Calm
      BY <1>1, <1>4 DEF Calm
    <2>6. Effect
      BY <1>1, <1>4, <2>1 DEF Effect, Unsaid
    <2> QED
      BY <1>2, <2>2, <2>3, <2>4, <2>5, <2>6, QuietKeeps
  <1> QED
    BY <1>3, <1>4

LEMMA DropKeeps ==
    ASSUME MailAssumption, MailInv, drop
    PROVE  MailInv' /\ Effect
  <1>1. /\ booking' = [booking EXCEPT !.status = "cancelled"] /\ silent' = TRUE
        /\ UNCHANGED <<now, outbox, notices, due, link, page, calendar, overtaken, changes, bounds>>
        /\ booking'.status = "cancelled" /\ booking'.rescheduled = booking.rescheduled
    BY DEF drop, MailInv, TypeOK
  <1>2. session' \in [Sessions -> [start: Starts, scheduled: BOOLEAN]]
    BY ReleasedEffect DEF drop, MailInv, TypeOK
  <1>3. TypeOK'
    BY <1>1, <1>2 DEF MailInv, TypeOK
  <1>4. Noticed'
    BY <1>1, NoticedAgain DEF MailInv
  <1>5. Onward /\ Calm
    BY <1>1 DEF Onward, Calm, MailInv, TypeOK
  <1>6. Effect
    BY <1>1 DEF Effect, Unsaid
  <1> QED
    BY <1>1, <1>3, <1>4, <1>5, <1>6, SameRows, QuietKeeps DEF MailInv, TypeOK

LEMMA CancelKeeps ==
    ASSUME MailAssumption, MailInv, cancel
    PROVE  MailInv' /\ Effect
  <1>1. /\ booking' = [booking EXCEPT !.status = "cancelled"] /\ changes' = changes + 1
        /\ UNCHANGED <<now, due, link, page, calendar, overtaken, bounds>>
        /\ booking.status \in {"pending", "confirmed"} /\ link
        /\ booking'.session = booking.session /\ booking'.session \in Sessions
        /\ booking'.status = "cancelled" /\ booking'.email
        /\ booking'.rescheduled = booking.rescheduled
    BY DEF cancel, can_cancel, Active, MailInv, TypeOK
  <1>2. /\ session' \in [Sessions -> [start: Starts, scheduled: BOOLEAN]]
        /\ \A u \in Sessions : session'[u].start = session[u].start
    BY ReleasedEffect DEF cancel, MailInv, TypeOK
  <1>3. Onward
    BY <1>1 DEF Onward, MailInv, TypeOK
  <1>4. Applies("cancelled", booking') /\ Notify("cancelled", booking', "cancelled")
    BY <1>1 DEF cancel, Applies
  <1>5. "cancelled" \in Kinds \ {"reminder"} /\ Fresh("cancelled", 0)
    BY <1>1, FirstOfItsKind DEF Kinds, Fits
  <1>6. /\ notices' \subseteq Notices /\ "booking_cancelled" \in notices'
        /\ "reschedule_requested" \in notices' <=> "reschedule_requested" \in notices
        /\ Tells("cancelled", 0) /\ silent' = FALSE
    BY <1>1, <1>2, <1>4, <1>5, NotifyEffect DEF NoticeOf
  <1>7. Noticed' /\ changes' \in 0 .. 2
    BY <1>1, <1>6 DEF Noticed, MailInv
  <1>8. TypeOK'
    BY <1>1, <1>2, <1>6, <1>7 DEF MailInv, TypeOK, Tells, Adds
  <1>9. Fits("cancelled", 0)'
    BY <1>1, <1>8 DEF Fits, TypeOK
  <1>10. Effect
    BY <1>1, <1>5, <1>6 DEF Effect, MailAssumption
  <1> QED
    BY <1>3, <1>6, <1>7, <1>8, <1>9, <1>10, TellingKeeps

LEMMA RescheduleKeeps ==
    ASSUME MailAssumption, MailInv, NEW s \in Sessions, reschedule(s)
    PROVE  MailInv' /\ Effect
  <1>1. /\ booking' = [booking EXCEPT !.session = s, !.rescheduled = TRUE] /\ changes' = changes + 1
        /\ UNCHANGED <<now, due, link, page, calendar, overtaken, bounds>>
        /\ booking.status \in {"pending", "confirmed"} /\ link /\ ~booking.rescheduled
        /\ booking'.session = s /\ booking'.status = booking.status /\ booking'.email
        /\ booking'.rescheduled = TRUE
    BY DEF reschedule, can_reschedule, can_cancel, Active, MailInv, TypeOK
  <1>2. /\ session' \in [Sessions -> [start: Starts, scheduled: BOOLEAN]]
        /\ \A u \in Sessions : session'[u].start = session[u].start
    BY ReleasedEffect DEF reschedule, MailInv, TypeOK
  <1>3. Onward
    BY <1>1 DEF Onward, MailInv, TypeOK
  <1>4. Applies("rescheduled", booking') /\ Notify("rescheduled", booking', "rescheduled")
    BY <1>1 DEF reschedule, Applies
  <1>5. "rescheduled" \in Kinds \ {"reminder"} /\ Fresh("rescheduled", 0)
    BY <1>1, FirstOfItsKind DEF Kinds, Fits
  <1>6. /\ notices' \subseteq Notices /\ "reschedule_requested" \in notices'
        /\ "booking_cancelled" \in notices' <=> "booking_cancelled" \in notices
        /\ Tells("rescheduled", 0) /\ silent' = FALSE
    BY <1>1, <1>2, <1>4, <1>5, NotifyEffect DEF NoticeOf
  <1>7. Noticed' /\ changes' \in 0 .. 2
    BY <1>1, <1>6 DEF Noticed, MailInv
  <1>8. TypeOK'
    BY <1>1, <1>2, <1>6, <1>7 DEF MailInv, TypeOK, Tells, Adds
  <1>9. Fits("rescheduled", 0)'
    BY <1>1, <1>8 DEF Fits, TypeOK
  <1>10. Effect
    BY <1>1, <1>5, <1>6 DEF Effect, MailAssumption
  <1> QED
    BY <1>3, <1>6, <1>7, <1>8, <1>9, <1>10, TellingKeeps

\* The row of a move has the move's number, which no earlier row has.
LEMMA MoveKeeps ==
    ASSUME MailAssumption, MailInv, NEW s \in Sessions, move_booking(s)
    PROVE  MailInv' /\ Effect
  <1>1. /\ booking' = [booking EXCEPT !.session = s]
        /\ bounds' = [bounds EXCEPT !.moves = @ + 1] /\ bounds.moves < MaxMoves
        /\ UNCHANGED <<now, notices, due, link, page, calendar, overtaken, changes>>
        /\ booking.status \in {"pending", "confirmed"}
        /\ booking'.session = s /\ booking'.status = booking.status
        /\ booking'.email = booking.email /\ booking'.origin = booking.origin
        /\ booking'.rescheduled = booking.rescheduled
        /\ bounds.moves \in Nat /\ bounds'.moves = bounds.moves + 1
    BY DEF move_booking, Active, MailInv, TypeOK
  <1>2. /\ session' \in [Sessions -> [start: Starts, scheduled: BOOLEAN]]
        /\ \A u \in Sessions : session'[u].start = session[u].start
    BY ReleasedEffect DEF move_booking, MailInv, TypeOK
  <1>3. Onward
    BY <1>1 DEF Onward, MailInv, TypeOK
  <1>4. Noticed'
    BY <1>1, NoticedAgain DEF MailInv
  <1>5. bounds' \in [moves: 0 .. MaxMoves, edits: 0 .. MaxEdits, fails: 0 .. MaxFails]
    <2>1. bounds \in [moves: 0 .. MaxMoves, edits: 0 .. MaxEdits, fails: 0 .. MaxFails]
      BY DEF MailInv, TypeOK
    <2>2. MaxMoves \in Nat /\ bounds.moves + 1 \in 0 .. MaxMoves
      BY <1>1 DEF MailAssumption
    <2> QED
      BY <1>1, <2>1, <2>2
  <1>6. CASE booking.origin = "public" /\ booking.email
    <2>1. PICK k \in 0 .. MaxMoves : k = bounds.moves + 1
      BY <1>1, <1>5 DEF MailAssumption
    <2>2. Fresh("rescheduled", k)
      BY <1>1, <2>1 DEF MailInv, RowsFit, Fits, Fresh, TypeOK, Mail
    <2>3. outbox' = Queue("rescheduled", k, session[booking'.session].start) /\ silent' = FALSE
      BY <1>1, <1>6, <2>1 DEF move_booking, notify_client_moved
    <2>4. Adds(Row("rescheduled", k, session[booking'.session].start))
      BY <1>1, <2>2, <2>3, QueueEffect DEF MailInv, TypeOK, Kinds
    <2>5. Tells("rescheduled", k)
      BY <1>1, <1>2, <2>2, <2>4 DEF Tells, start
    <2>6. TypeOK'
      BY <1>1, <1>2, <1>5, <1>6, <2>3, <2>4 DEF MailInv, TypeOK, Adds
    <2>7. Fits("rescheduled", k)'
      BY <1>1, <2>1 DEF Fits
    <2>8. Effect
      BY <1>1, <2>5 DEF Effect, Kinds
    <2> QED
      BY <1>3, <1>4, <2>5, <2>6, <2>7, <2>8, TellingKeeps
  <1>7. CASE ~(booking.origin = "public" /\ booking.email)
    <2>1. outbox' = outbox /\ silent' \in BOOLEAN
      BY <1>1, <1>7 DEF move_booking, notify_client_moved, MailInv, TypeOK
    <2>2. TypeOK'
      BY <1>1, <1>2, <1>5, <2>1 DEF MailInv, TypeOK
    <2>3. Calm
      BY <1>1, <1>7 DEF Calm
    <2>4. Effect
      BY <1>1, <1>7, <2>1 DEF Effect, Unsaid
    <2> QED
      BY <1>3, <1>4, <2>1, <2>2, <2>3, <2>4, SameRows, QuietKeeps DEF MailInv, TypeOK
  <1> QED
    BY <1>6, <1>7

LEMMA EditKeeps ==
    ASSUME MailAssumption, MailInv, NEW s \in Sessions, NEW r \in [start: Starts, scheduled: BOOLEAN],
           update_session(s, r)
    PROVE  MailInv' /\ Effect
  <1>1. /\ session' = [session EXCEPT ![s] = r] /\ silent' = (silent \/ s = booking.session)
        /\ bounds' = [bounds EXCEPT !.edits = @ + 1] /\ bounds.edits < MaxEdits
        /\ UNCHANGED <<now, booking, outbox, notices, due, link, page, calendar, overtaken, changes>>
    BY DEF update_session
  <1>2. /\ bounds' \in [moves: 0 .. MaxMoves, edits: 0 .. MaxEdits, fails: 0 .. MaxFails]
        /\ bounds'.moves = bounds.moves
    BY <1>1, BoundsGrow DEF MailInv, TypeOK
  <1>3. TypeOK'
    BY <1>1, <1>2 DEF MailInv, TypeOK
  <1>4. Onward
    BY <1>1, <1>2 DEF Onward, MailInv, TypeOK
  <1>5. Calm
    BY <1>1 DEF Calm, Active, start, MailInv, TypeOK
  <1>6. Noticed'
    BY <1>1, NoticedAgain DEF MailInv
  <1>7. Effect
    BY <1>1 DEF Effect, Unsaid, start, MailInv, TypeOK
  <1> QED
    BY <1>1, <1>3, <1>4, <1>5, <1>6, <1>7, SameRows, QuietKeeps DEF MailInv, TypeOK

LEMMA EraseKeeps ==
    ASSUME MailAssumption, MailInv, erase_client
    PROVE  MailInv' /\ Effect
  <1>1. /\ booking' = [booking EXCEPT !.email = FALSE] /\ link' = FALSE
        /\ UNCHANGED <<now, session, notices, due, page, calendar, overtaken, changes, silent, bounds>>
        /\ ~booking'.email /\ booking'.status = booking.status
        /\ booking'.rescheduled = booking.rescheduled
    BY DEF erase_client, MailInv, TypeOK
  <1>2. outbox' = [i \in 1 .. Len(outbox) |->
                      IF outbox[i].state = "sent" THEN outbox[i]
                                                  ELSE [outbox[i] EXCEPT !.state = "deleted"]]
    BY DEF erase_client
  <1>3. \A i \in 1 .. Len(outbox) : /\ outbox'[i] \in Mail /\ outbox'[i].kind = outbox[i].kind
                                    /\ outbox'[i].key = outbox[i].key
                                    /\ outbox'[i].at = outbox[i].at
                                    /\ outbox'[i].state \in {"sent", "deleted"}
    <2> TAKE i \in 1 .. Len(outbox)
    <2>1. outbox[i] \in Mail
      BY DEF MailInv, TypeOK
    <2>2. CASE outbox[i].state = "sent"
      BY <1>2, <2>1, <2>2
    <2>3. CASE outbox[i].state # "sent"
      <3>1. outbox'[i] = [outbox[i] EXCEPT !.state = "deleted"]
        BY <1>2, <2>3
      <3> QED
        BY <2>1, <3>1 DEF Mail
    <2> QED
      BY <2>2, <2>3
  <1>4. Len(outbox) \in Nat /\ outbox' \in [1 .. Len(outbox) -> Mail]
    BY <1>2, <1>3 DEF MailInv, TypeOK
  <1>5. outbox' \in Seq(Mail) /\ Len(outbox') = Len(outbox)
    BY <1>4, IsASeq, LenProperties
  <1>6. Restates
    BY <1>3, <1>5 DEF Restates
  <1>7. TypeOK'
    BY <1>1, <1>3, <1>5 DEF MailInv, TypeOK
  <1>8. Onward /\ Calm
    BY <1>1 DEF Onward, Calm, MailInv, TypeOK
  <1>9. Noticed'
    BY <1>1, NoticedAgain DEF MailInv
  <1>10. Effect
    BY <1>1 DEF Effect, erase_client
  <1> QED
    BY <1>6, <1>7, <1>8, <1>9, <1>10, QuietKeeps

LEMMA RemindKeeps ==
    ASSUME MailAssumption, MailInv, NEW j \in Jobs, queue_booking_reminders(j)
    PROVE  MailInv' /\ Effect
  <1>1. /\ due' = due \ {j} /\ Emit("reminder", booking)
        /\ UNCHANGED <<now, booking, session, notices, link, page, calendar, overtaken, changes, bounds>>
        /\ "reminder" \in Kinds /\ booking'.session \in Sessions
    BY DEF queue_booking_reminders, MailInv, TypeOK, Kinds
  <1>2. Onward /\ Noticed'
    BY <1>1, NoticedAgain DEF Onward, MailInv, TypeOK
  <1>3. \/ outbox' = outbox
        \/ Applies("reminder", booking) /\ Tells("reminder", 0)
    BY <1>1, EmitEffect DEF MailInv
  <1>4. silent' = silent
    BY <1>1 DEF Emit, MailInv, TypeOK
  <1>7. Unsaid
    BY <1>1, <1>4 DEF Unsaid, start
  <1>5. CASE outbox' = outbox
    <2>1. TypeOK'
      BY <1>1, <1>4, <1>5 DEF MailInv, TypeOK
    <2>2. Calm
      BY <1>1, <1>4 DEF Calm, Active, start
    <2>3. Effect
      BY <1>1, <1>5, <1>7 DEF Effect
    <2> QED
      BY <1>2, <1>5, <2>1, <2>2, <2>3, SameRows, QuietKeeps DEF MailInv, TypeOK
  <1>6. CASE Applies("reminder", booking) /\ Tells("reminder", 0)
    <2>1. booking.status = "confirmed" /\ booking.email
      BY <1>6 DEF Applies
    <2>2. TypeOK'
      BY <1>1, <1>4, <1>6, <2>1 DEF MailInv, TypeOK, Tells, Adds
    <2>3. Fits("reminder", 0)'
      BY <1>1, <2>1, <2>2 DEF Fits, TypeOK
    <2>4. Effect
      BY <1>1, <1>6, <1>7 DEF Effect, MailAssumption
    <2> QED
      BY <1>2, <1>6, <2>2, <2>3, <2>4, TellingKeeps
  <1> QED
    BY <1>3, <1>5, <1>6

\* The worker changes only the state of a row.
LEMMA StateEffect ==
    ASSUME outbox \in Seq(Mail), NEW i \in 1 .. Len(outbox),
           NEW st \in {"queued", "waiting", "sent", "deleted"},
           outbox' = [outbox EXCEPT ![i].state = st]
    PROVE  /\ Restates /\ outbox'[i].state = st
           /\ \A j \in 1 .. Len(outbox) \ {i} : outbox'[j] = outbox[j]
  <1>1. outbox[i] \in Mail
    OBVIOUS
  <1>2. [outbox[i] EXCEPT !.state = st] \in Mail
    BY <1>1 DEF Mail
  <1>3. outbox' = [outbox EXCEPT ![i] = [outbox[i] EXCEPT !.state = st]]
    OBVIOUS
  <1>4. /\ outbox' \in Seq(Mail) /\ Len(outbox') = Len(outbox)
        /\ \A j \in 1 .. Len(outbox) :
              outbox'[j] = IF j = i THEN [outbox[i] EXCEPT !.state = st] ELSE outbox[j]
    BY <1>2, <1>3, ExceptSeq
  <1> QED
    BY <1>1, <1>4 DEF Restates, Mail

LEMMA WorkKeeps ==
    ASSUME MailAssumption, MailInv, NEW i \in 1 .. Len(outbox), send(i) \/ fail(i) \/ retry(i)
    PROVE  MailInv'
  <1>1. /\ UNCHANGED <<now, booking, session, notices, due, page, changes, silent>>
        /\ bounds'.moves = bounds.moves
        /\ bounds' \in [moves: 0 .. MaxMoves, edits: 0 .. MaxEdits, fails: 0 .. MaxFails]
    <2>1. CASE fail(i)
      BY <2>1, BoundsGrow DEF fail, MailInv, TypeOK
    <2>2. CASE send(i) \/ retry(i)
      BY <2>2 DEF send, retry, MailInv, TypeOK
    <2> QED
      BY <2>1, <2>2
  <1>2. PICK st \in {"queued", "waiting", "sent"} : outbox' = [outbox EXCEPT ![i].state = st]
    BY DEF send, fail, retry
  <1>3. /\ Restates /\ outbox'[i].state = st
        /\ \A j \in 1 .. Len(outbox) \ {i} : outbox'[j] = outbox[j]
    BY <1>2, StateEffect DEF MailInv, TypeOK
  <1>4. outbox[i] \in Mail /\ outbox[i].state \in {"queued", "waiting"}
    BY DEF send, fail, retry, claim, MailInv, TypeOK
  <1>5. booking.email
    BY <1>4 DEF MailInv, TypeOK
  <1>6. link' \in BOOLEAN /\ calendar' \in Starts \cup {None}
    BY <1>4 DEF send, fail, retry, Reaches, MailInv, TypeOK, Mail
  <1>9. overtaken' \in BOOLEAN
    BY DEF send, fail, retry, Reaches, MailInv, TypeOK
  <1>7. TypeOK'
    BY <1>1, <1>3, <1>5, <1>6, <1>9 DEF MailInv, TypeOK, Restates
  <1>8. Onward /\ Calm /\ Noticed'
    BY <1>1, NoticedAgain DEF Onward, Calm, Active, start, MailInv, TypeOK
  <1> QED
    BY <1>3, <1>7, <1>8, QuietKeeps

\* Time passes, the job makes its list, the customer looks at the page.
LEMMA OthersKeep ==
    ASSUME MailAssumption, MailInv,
           Visit \/ download \/ Tick \/ \E j \in Jobs : due_reminders(j)
    PROVE  MailInv'
  <1>1. /\ UNCHANGED <<booking, session, outbox, notices, link, changes, silent, bounds>>
        /\ now' \in 0 .. MaxTime /\ due' \subseteq Jobs
        /\ page' \in Starts \cup {None} /\ calendar' \in Starts \cup {None}
    BY DEF Visit, download, Tick, due_reminders, start, MailInv, TypeOK, MailAssumption
  <1>4. overtaken' \in BOOLEAN
    BY DEF Visit, download, Tick, due_reminders, MailInv, TypeOK
  <1>2. TypeOK'
    BY <1>1, <1>4 DEF MailInv, TypeOK
  <1>3. Onward /\ Calm /\ Noticed'
    BY <1>1, NoticedAgain DEF Onward, Calm, Active, start, MailInv, TypeOK
  <1> QED
    BY <1>1, <1>2, <1>3, SameRows, QuietKeeps DEF MailInv, TypeOK

LEMMA InitInv ==
    ASSUME MailAssumption, Init
    PROVE  MailInv
  <1>1. TypeOK
    <2>1. outbox \in Seq(Mail) /\ Len(outbox) = 0
      BY DEF Init
    <2>2. session \in [Sessions -> [start: Starts, scheduled: BOOLEAN]]
      BY DEF Init, MailAssumption, Starts
    <2>3. bounds \in [moves: 0 .. MaxMoves, edits: 0 .. MaxEdits, fails: 0 .. MaxFails]
      BY DEF Init, MailAssumption
    <2>4. /\ now \in 0 .. MaxTime /\ notices \subseteq Notices /\ due \subseteq Jobs
          /\ link \in BOOLEAN /\ silent \in BOOLEAN /\ changes \in 0 .. 2
          /\ page \in Starts \cup {None} /\ calendar \in Starts \cup {None} /\ overtaken \in BOOLEAN
      <3>1. /\ now = 0 /\ notices = {} /\ due = {} /\ link = FALSE /\ silent = FALSE
            /\ changes = 0 /\ page = None /\ calendar = None /\ overtaken = FALSE /\ MaxTime \in Nat
        BY DEF Init, MailAssumption
      <3>2. now \in 0 .. MaxTime /\ changes \in 0 .. 2
        BY <3>1
      <3>3. link \in BOOLEAN /\ silent \in BOOLEAN /\ overtaken \in BOOLEAN
        BY <3>1, Zenon
      <3> QED
        BY <3>1, <3>2, <3>3
    <2>5. booking \in [status: {"none", "pending", "confirmed", "cancelled"}, session: Sessions,
                       origin: Origins, email: BOOLEAN, rescheduled: BOOLEAN] /\ booking.email
      BY DEF Init
    <2> QED
      BY <2>1, <2>2, <2>3, <2>4, <2>5 DEF TypeOK
  <1>2. RowsFit /\ RowsDiffer
    BY DEF Init, RowsFit, RowsDiffer
  <1>3. booking.status = "none" /\ ~booking.rescheduled /\ notices = {} /\ changes = 0
    BY DEF Init
  <1>4. Noticed /\ TimeIsTold
    BY <1>3 DEF Noticed, TimeIsTold, Active
  <1> QED
    BY <1>1, <1>2, <1>4 DEF MailInv

LEMMA StepKeeps ==
    ASSUME MailAssumption, MailInv, [Next]_vars
    PROVE  MailInv'
  <1>1. CASE UNCHANGED vars
    BY <1>1 DEF vars, MailInv, TypeOK, RowsFit, RowsDiffer, Fits, Noticed, TimeIsTold, Active, start
  <1>2. CASE Next
    <2>1. CASE \E status \in {"pending", "confirmed"} : create_booking(status)
      BY <2>1, CreateKeeps
    <2>2. CASE confirm
      BY <2>2, ConfirmKeeps
    <2>3. CASE drop
      BY <2>3, DropKeeps
    <2>4. CASE cancel
      BY <2>4, CancelKeeps
    <2>5. CASE erase_client
      BY <2>5, EraseKeeps
    <2>6. CASE Visit \/ download \/ Tick \/ \E j \in Jobs : due_reminders(j)
      BY <2>6, OthersKeep
    <2>7. CASE \E s \in Sessions : reschedule(s)
      BY <2>7, RescheduleKeeps
    <2>8. CASE \E s \in Sessions : move_booking(s)
      BY <2>8, MoveKeeps
    <2>9. CASE \E s \in Sessions, r \in [start: Starts, scheduled: BOOLEAN] : update_session(s, r)
      BY <2>9, EditKeeps
    <2>10. CASE \E j \in Jobs : queue_booking_reminders(j)
      BY <2>10, RemindKeeps
    <2>11. CASE \E i \in 1 .. Len(outbox) : send(i) \/ fail(i) \/ retry(i)
      BY <2>11, WorkKeeps
    <2> QED
      BY <1>2, <2>1, <2>2, <2>3, <2>4, <2>5, <2>6, <2>7, <2>8, <2>9, <2>10, <2>11 DEF Next
  <1> QED
    BY <1>1, <1>2

LEMMA Invariance ==
    ASSUME MailAssumption
    PROVE  Spec => []MailInv
  BY InitInv, StepKeeps, PTL DEF Spec

-----------------------------------------------------------------------------
(* The customer's calendar, where no mail fails and no file is downloaded: *)
(* the mails that were sent are the first of the outbox, the last of them  *)
(* that has a file is what the calendar shows, and the last row of all     *)
(* that has one is of the booking as it is.                                *)

IsSent(i) == outbox[i].state = "sent"
Entry(i) == IF outbox[i].kind = "cancelled" THEN None ELSE outbox[i].at

SentFirst == booking.email =>
    \A i \in 1 .. Len(outbox) : /\ outbox[i].state \in {"queued", "sent"}
                                /\ IsSent(i) => \A j \in 1 .. i - 1 : IsSent(j)

Shown == booking.email =>
    \/ calendar = None /\ \A i \in 1 .. Len(outbox) : ~(IsSent(i) /\ Brings(i))
    \/ \E i \in 1 .. Len(outbox) :
          /\ IsSent(i) /\ Brings(i) /\ calendar = Entry(i)
          /\ \A j \in i + 1 .. Len(outbox) : ~(IsSent(j) /\ Brings(j))

Asks == /\ booking.origin = "public" /\ booking.email /\ ~silent
        /\ booking.status \in {"confirmed", "cancelled"}

IsLatest(i) ==
    /\ Brings(i) /\ \A j \in i + 1 .. Len(outbox) : ~Brings(j)
    /\ booking.status = "confirmed" => Entry(i) = start /\ outbox[i].kind # "cancelled"
    /\ booking.status = "cancelled" => outbox[i].kind = "cancelled"

Latest == Asks => \E i \in 1 .. Len(outbox) : IsLatest(i)

OnTime == booking.email => ~overtaken

CalendarInv == MailInv /\ SentFirst /\ Shown /\ Latest /\ OnTime

\* The rows before the new one are as they were, and the new one waits.
LEMMA AddsWhat ==
    ASSUME TypeOK, NEW kind, NEW key, Tells(kind, key)
    PROVE  LET n == Len(outbox) + 1 IN
           /\ Len(outbox) \in Nat /\ Len(outbox') = n
           /\ \A i \in 1 .. Len(outbox) : outbox'[i] = outbox[i]
           /\ outbox'[n].kind = kind /\ outbox'[n].at = start' /\ outbox'[n].state = "queued"
  BY DEF TypeOK, Tells, Adds, Row

LEMMA QuietCalendar ==
    ASSUME CalendarInv, MailInv', UNCHANGED <<calendar, overtaken>>, outbox' = outbox, Unsaid,
           booking'.email => booking.email
    PROVE  CalendarInv'
  <1>1. SentFirst'
    BY DEF CalendarInv, SentFirst, IsSent
  <1>2. Shown'
    BY DEF CalendarInv, Shown, IsSent, Brings, Entry
  <1>3. Asks' => Asks /\ booking'.status = booking.status /\ start' = start
    BY DEF Asks, Unsaid
  <1>4. Asks' => \A i \in 1 .. Len(outbox) : IsLatest(i) => IsLatest(i)'
    BY <1>3 DEF IsLatest, Brings, Entry
  <1>5. Latest'
    BY <1>3, <1>4 DEF CalendarInv, Latest
  <1>6. OnTime'
    BY DEF CalendarInv, OnTime
  <1> QED
    BY <1>1, <1>2, <1>5, <1>6 DEF CalendarInv

LEMMA TellingCalendar ==
    ASSUME CalendarInv, MailInv', UNCHANGED <<calendar, overtaken>>, NEW kind \in Kinds, NEW key, Tells(kind, key),
           booking'.email => booking.email,
           kind = "reminder" => Unsaid,
           kind = "received" => booking'.status = "pending",
           kind \in {"confirmed", "rescheduled"} => booking'.status \in {"pending", "confirmed"},
           kind = "cancelled" => booking'.status = "cancelled"
    PROVE  CalendarInv'
  <1>0. PICK n \in Nat : n = Len(outbox) + 1
    BY DEF CalendarInv, MailInv, TypeOK
  <1>1. /\ Len(outbox) \in Nat /\ n = Len(outbox) + 1 /\ Len(outbox') = n
        /\ \A i \in 1 .. Len(outbox) : outbox'[i] = outbox[i]
        /\ outbox'[n].kind = kind /\ outbox'[n].at = start' /\ outbox'[n].state = "queued"
    BY <1>0, AddsWhat DEF CalendarInv, MailInv
  <1>2. /\ ~IsSent(n)'
        /\ \A i \in 1 .. Len(outbox) : /\ IsSent(i)' <=> IsSent(i)
                                       /\ Brings(i)' <=> Brings(i)
                                       /\ Entry(i)' = Entry(i)
    BY <1>1 DEF IsSent, Brings, Entry
  <1>3. \A i \in 1 .. Len(outbox') : i \in 1 .. Len(outbox) \/ i = n
    BY <1>1
  <1>4. SentFirst'
    BY <1>1, <1>2, <1>3 DEF CalendarInv, SentFirst, IsSent
  <1>5. Shown'
    <2> SUFFICES ASSUME booking'.email PROVE Shown'
      BY DEF Shown
    <2>1. CASE calendar = None /\ \A i \in 1 .. Len(outbox) : ~(IsSent(i) /\ Brings(i))
      <3>1. \A i \in 1 .. Len(outbox') : ~(IsSent(i) /\ Brings(i))'
        BY <1>2, <1>3, <2>1
      <3> QED
        BY <2>1, <3>1 DEF Shown
    <2>2. ASSUME NEW i \in 1 .. Len(outbox),
                 IsSent(i), Brings(i), calendar = Entry(i),
                 \A j \in i + 1 .. Len(outbox) : ~(IsSent(j) /\ Brings(j))
          PROVE  Shown'
      <3>1. (IsSent(i) /\ Brings(i) /\ calendar = Entry(i))'
        BY <1>2, <2>2
      <3>2. \A j \in i + 1 .. Len(outbox') : ~(IsSent(j) /\ Brings(j))'
        BY <1>1, <1>2, <2>2
      <3> QED
        BY <1>1, <3>1, <3>2 DEF Shown
    <2> QED
      BY <2>1, <2>2 DEF CalendarInv, Shown
  <1>6. ASSUME kind \in {"received", "reminder"}
        PROVE  Latest'
    <2> SUFFICES ASSUME Asks' PROVE \E i \in 1 .. Len(outbox') : IsLatest(i)'
      BY DEF Latest
    <2>1. kind = "reminder" /\ Unsaid
      BY <1>6 DEF Asks
    <2>2. Asks /\ booking'.status = booking.status /\ start' = start
      BY <2>1 DEF Asks, Unsaid
    <2>3. PICK i \in 1 .. Len(outbox) : IsLatest(i)
      BY <2>2 DEF CalendarInv, Latest
    <2>4. ~Brings(n)'
      BY <1>1, <2>1 DEF Brings
    <2>5. i \in 1 .. Len(outbox') /\ Brings(i)' /\ \A j \in i + 1 .. Len(outbox') : ~Brings(j)'
      BY <1>1, <1>2, <2>3, <2>4 DEF IsLatest
    <2>6. outbox'[i] = outbox[i] /\ Entry(i)' = Entry(i)
      BY <1>1, <1>2
    <2>7. IsLatest(i)'
      BY <2>2, <2>3, <2>5, <2>6 DEF IsLatest
    <2> QED
      BY <2>5, <2>7
  <1>7. ASSUME kind \in {"confirmed", "rescheduled", "cancelled"}
        PROVE  Latest'
    <2>1. n \in 1 .. Len(outbox') /\ Brings(n)' /\ \A j \in n + 1 .. Len(outbox') : ~Brings(j)'
      BY <1>1, <1>7 DEF Brings
    <2>2. /\ booking'.status = "confirmed" => Entry(n)' = start' /\ outbox'[n].kind # "cancelled"
          /\ booking'.status = "cancelled" => outbox'[n].kind = "cancelled"
      BY <1>1, <1>7 DEF Entry
    <2>3. IsLatest(n)'
      BY <2>1, <2>2 DEF IsLatest
    <2> QED
      BY <2>1, <2>3 DEF Latest
  <1>8. Latest'
    BY <1>6, <1>7 DEF Kinds
  <1>9. OnTime'
    BY DEF CalendarInv, OnTime
  <1> QED
    BY <1>4, <1>5, <1>8, <1>9 DEF CalendarInv

LEMMA SendCalendar ==
    ASSUME CalendarInv, MailInv', NEW i \in 1 .. Len(outbox), send(i)
    PROVE  CalendarInv'
  <1>1. /\ outbox[i].state = "queued" /\ outbox' = [outbox EXCEPT ![i].state = "sent"]
        /\ UNCHANGED <<booking, session, silent>> /\ Reaches(i)
    BY DEF send, claim
  <1>2. /\ Restates /\ outbox'[i].state = "sent"
        /\ \A j \in 1 .. Len(outbox) \ {i} : outbox'[j] = outbox[j]
    BY <1>1, StateEffect DEF CalendarInv, MailInv, TypeOK
  <1>3. booking.email /\ Len(outbox) \in Nat /\ Len(outbox') = Len(outbox)
    <2>1. Len(outbox) \in Nat
      BY DEF CalendarInv, MailInv, TypeOK
    <2>2. ~booking.email => outbox[i].state \in {"sent", "deleted"}
      BY DEF CalendarInv, MailInv, TypeOK
    <2> QED
      BY <1>1, <1>2, <2>1, <2>2 DEF Restates
  <1>4. /\ IsSent(i)' /\ ~IsSent(i)
        /\ \A j \in 1 .. Len(outbox) : /\ j # i => (IsSent(j)' <=> IsSent(j))
                                       /\ Brings(j)' <=> Brings(j)
                                       /\ Entry(j)' = Entry(j)
    BY <1>1, <1>2 DEF IsSent, Brings, Entry, Restates
  <1>5. \A j \in 1 .. Len(outbox) : IsSent(j) <=> j < i
    <2>1. \A j \in 1 .. Len(outbox) : j < i => IsSent(j)
      BY <1>3 DEF CalendarInv, SentFirst, IsSent, send, claim
    <2>2. \A j \in 1 .. Len(outbox) : IsSent(j) => \A k \in 1 .. j - 1 : IsSent(k)
      BY <1>3 DEF CalendarInv, SentFirst
    <2> QED
      BY <1>3, <1>4, <2>1, <2>2
  <1>6. \A j \in 1 .. Len(outbox) : IsSent(j)' <=> j <= i
    BY <1>3, <1>4, <1>5
  <1>7. SentFirst'
    <2> SUFFICES ASSUME NEW j \in 1 .. Len(outbox)
                 PROVE  /\ outbox'[j].state \in {"queued", "sent"}
                        /\ IsSent(j)' => \A k \in 1 .. j - 1 : IsSent(k)'
      BY <1>3 DEF SentFirst
    <2>1. outbox'[j].state \in {"queued", "sent"}
      BY <1>2, <1>3 DEF CalendarInv, SentFirst
    <2>2. IsSent(j)' => \A k \in 1 .. j - 1 : IsSent(k)'
      BY <1>3, <1>6
    <2> QED
      BY <2>1, <2>2
  <1>8. Shown'
    <2>1. CASE Brings(i)
      <3>1. calendar' = Entry(i)'
        BY <1>1, <1>4, <2>1 DEF Reaches, Brings, Entry
      <3>2. \A j \in i + 1 .. Len(outbox') : ~(IsSent(j) /\ Brings(j))'
        BY <1>3, <1>6
      <3> QED
        BY <1>3, <1>4, <2>1, <3>1, <3>2 DEF Shown
    <2>2. CASE ~Brings(i)
      <3>1. calendar' = calendar
        BY <1>1, <2>2 DEF Reaches, Brings
      <3>2. \A j \in 1 .. Len(outbox) : (IsSent(j) /\ Brings(j))' <=> IsSent(j) /\ Brings(j)
        BY <1>4, <2>2
      <3>3. CASE calendar = None /\ \A j \in 1 .. Len(outbox) : ~(IsSent(j) /\ Brings(j))
        BY <1>3, <3>1, <3>2, <3>3 DEF Shown
      <3>4. ASSUME NEW k \in 1 .. Len(outbox),
                   IsSent(k), Brings(k), calendar = Entry(k),
                   \A j \in k + 1 .. Len(outbox) : ~(IsSent(j) /\ Brings(j))
            PROVE  Shown'
        <4>1. (IsSent(k) /\ Brings(k) /\ calendar = Entry(k))'
          BY <1>4, <3>1, <3>2, <3>4
        <4>2. \A j \in k + 1 .. Len(outbox') : ~(IsSent(j) /\ Brings(j))'
          BY <1>3, <3>2, <3>4
        <4> QED
          BY <1>3, <4>1, <4>2 DEF Shown
      <3> QED
        BY <1>3, <3>3, <3>4 DEF CalendarInv, Shown
    <2> QED
      BY <2>1, <2>2
  <1>9. Latest'
    <2>1. start' = start
      BY <1>1 DEF start
    <2>2. \A j \in 1 .. Len(outbox) : outbox'[j].kind = outbox[j].kind
      BY <1>2 DEF Restates
    <2>3. \A j \in 1 .. Len(outbox) : IsLatest(j) => IsLatest(j)'
      BY <1>1, <1>3, <1>4, <2>1, <2>2 DEF IsLatest
    <2> QED
      BY <1>1, <1>3, <2>3 DEF CalendarInv, Latest, Asks
  <1>10. OnTime'
    <2>1. ~\E j \in i + 1 .. Len(outbox) : outbox[j].state = "sent" /\ Brings(j)
      BY <1>3, <1>5 DEF IsSent
    <2>2. ~overtaken
      BY <1>3 DEF CalendarInv, OnTime
    <2>3. overtaken' = IF Brings(i) THEN \E j \in i + 1 .. Len(outbox) : outbox[j].state = "sent" /\ Brings(j)
                       ELSE overtaken
      BY <1>1 DEF Reaches
    <2> QED
      BY <2>1, <2>2, <2>3, Zenon DEF OnTime
  <1> QED
    BY <1>7, <1>8, <1>9, <1>10 DEF CalendarInv

LEMMA EffectCalendar ==
    ASSUME CalendarInv, MailInv', Effect, booking'.email => booking.email
    PROVE  CalendarInv'
  <1>1. CASE outbox' = outbox /\ Unsaid
    BY <1>1, QuietCalendar DEF Effect
  <1>2. ASSUME NEW kind \in Kinds, NEW key \in 0 .. MaxMoves,
               Tells(kind, key),
               kind = "reminder" => Unsaid,
               kind = "received" => booking'.status = "pending",
               kind \in {"confirmed", "rescheduled"} => booking'.status \in {"pending", "confirmed"},
               kind = "cancelled" => booking'.status = "cancelled"
        PROVE  CalendarInv'
    BY <1>2, TellingCalendar DEF Effect
  <1>3. CASE ~booking'.email
    BY <1>3 DEF CalendarInv, SentFirst, Shown, Latest, Asks, OnTime
  <1> QED
    BY <1>1, <1>2, <1>3 DEF Effect

\* Only an erasure takes the address, and nothing gives it back.
LEMMA EmailGoes ==
    ASSUME TypeOK, [Next]_vars
    PROVE  booking'.email => booking.email
  <1>1. CASE \E status \in {"pending", "confirmed"} : create_booking(status)
    BY <1>1 DEF create_booking, TypeOK
  <1>2. CASE confirm \/ drop \/ cancel \/ \E s \in Sessions : reschedule(s) \/ move_booking(s)
    BY <1>2 DEF confirm, drop, cancel, reschedule, move_booking, TypeOK
  <1>3. CASE erase_client
    BY <1>3 DEF erase_client
  <1>4. CASE booking' = booking
    BY <1>4
  <1> QED
    BY <1>1, <1>2, <1>3, <1>4
       DEF Next, vars, Visit, download, Tick, update_session, due_reminders,
           queue_booking_reminders, send, fail, retry

LEMMA StepCalendar ==
    ASSUME MailAssumption, MaxFails = 0, Downloads = FALSE, CalendarInv, [Next]_vars
    PROVE  CalendarInv'
  <1>1. MailInv /\ MailInv' /\ (booking'.email => booking.email)
    BY StepKeeps, EmailGoes DEF CalendarInv, MailInv
  <1>2. CASE Effect
    BY <1>1, <1>2, EffectCalendar
  <1>3. CASE UNCHANGED vars \/ Tick \/ \E j \in Jobs : due_reminders(j)
    <2>1. UNCHANGED <<booking, session, outbox, silent, calendar, overtaken>>
      BY <1>3 DEF vars, Tick, due_reminders
    <2>2. start' = start
      BY <2>1 DEF start
    <2> QED
      BY <1>1, <2>1, <2>2, QuietCalendar DEF Unsaid
  <1>4. CASE \E i \in 1 .. Len(outbox) : send(i)
    BY <1>1, <1>4, SendCalendar
  <1>5. ~(Visit \/ download)
    BY DEF Visit, download
  <1>6. ~\E i \in 1 .. Len(outbox) : fail(i)
    BY <1>1 DEF fail, MailInv, TypeOK
  <1>7. ASSUME NEW i \in 1 .. Len(outbox), retry(i)
        PROVE  CalendarInv'
    <2>1. outbox[i].state = "waiting" /\ booking' = booking
      BY <1>7 DEF retry
    <2>2. ~booking.email
      BY <2>1 DEF CalendarInv, SentFirst
    <2> QED
      BY <1>1, <2>1, <2>2 DEF CalendarInv, SentFirst, Shown, Latest, Asks, OnTime
  <1>8. CASE \/ \E status \in {"pending", "confirmed"} : create_booking(status)
             \/ confirm \/ drop \/ cancel \/ erase_client
             \/ \E s \in Sessions : reschedule(s) \/ move_booking(s)
             \/ \E s \in Sessions, r \in [start: Starts, scheduled: BOOLEAN] : update_session(s, r)
             \/ \E j \in Jobs : queue_booking_reminders(j)
    <2>1. Effect
      BY <1>1, <1>8, CreateKeeps, ConfirmKeeps, DropKeeps, CancelKeeps, EraseKeeps, RescheduleKeeps,
         MoveKeeps, EditKeeps, RemindKeeps
    <2> QED
      BY <1>2, <2>1
  <1> QED
    BY <1>3, <1>4, <1>5, <1>6, <1>7, <1>8 DEF Next

LEMMA CalendarInvariance ==
    ASSUME MailAssumption, MaxFails = 0, Downloads = FALSE
    PROVE  Spec => []CalendarInv
  <1>1. Init => CalendarInv
    <2> SUFFICES ASSUME Init PROVE CalendarInv
      OBVIOUS
    <2>1. MailInv /\ Len(outbox) = 0 /\ calendar = None /\ booking.status = "none"
      BY InitInv DEF Init
    <2>2. SentFirst /\ Shown /\ Latest
      BY <2>1 DEF SentFirst, Shown, Latest, Asks
    <2>3. OnTime
      BY DEF Init, OnTime
    <2> QED
      BY <2>1, <2>2, <2>3 DEF CalendarInv
  <1>2. CalendarInv /\ [Next]_vars => CalendarInv'
    BY StepCalendar
  <1> QED
    BY <1>1, <1>2, PTL DEF Spec

-----------------------------------------------------------------------------
(* Theorems.                                                               *)

\* Rows, notices and the job's lists keep their types, and an erased customer
\* has no mail to come, through any number of moves, edits, jobs and failures.
THEOREM TypeCorrect ==
    ASSUME MailAssumption
    PROVE  Spec => []TypeOK
  <1>1. MailInv => TypeOK
    BY DEF MailInv
  <1> QED
    BY <1>1, Invariance, PTL

\* The last mail to the customer of an online booking names the time the booking is at,
\* unless the session itself was edited since: every command that changes the
\* time finds its row not yet in the outbox.
THEOREM TimeIsAlwaysTold ==
    ASSUME MailAssumption
    PROVE  Spec => []TimeIsTold
  <1>1. MailInv => TimeIsTold
    BY DEF MailInv
  <1> QED
    BY <1>1, Invariance, PTL

\* Any number of overlapping runs of the maintenance job remind the customer
\* at most once.
THEOREM RemindedOnce ==
    ASSUME MailAssumption
    PROVE  Spec => []OneReminder
  <1>1. ASSUME MailInv PROVE OneReminder
    <2> DEFINE reminders == {i \in 1 .. Len(outbox) : outbox[i].kind = "reminder"}
    <2>1. \A i \in reminders : outbox[i].key = 0
      BY <1>1 DEF MailInv, RowsFit, Fits
    <2>2. \A i, j \in reminders : i = j
      BY <1>1, <2>1 DEF MailInv, RowsDiffer
    <2>3. Cardinality(reminders) \in {0, 1}
      <3>1. CASE reminders = {}
        BY <3>1, FS_EmptySet
      <3>2. CASE reminders # {}
        <4>1. PICK i \in reminders : TRUE
          BY <3>2
        <4>2. reminders = {i}
          BY <2>2, <4>1
        <4> HIDE DEF reminders
        <4> QED
          BY <4>2, FS_Singleton
      <3> QED
        BY <3>1, <3>2
    <2> QED
      BY <2>3 DEF OneReminder
  <1> QED
    BY <1>1, Invariance, PTL

\* The operator has a notice for every change the customer made by the link.
THEOREM EveryChangeNoticed ==
    ASSUME MailAssumption
    PROVE  Spec => []ChangesAreNoticed
  <1>1. ASSUME MailInv PROVE ChangesAreNoticed
    <2> DEFINE moved == notices \cap {"reschedule_requested"}
               own == notices \cap {"reschedule_requested", "booking_cancelled"}
    <2>1. /\ IsFiniteSet(moved)
          /\ Cardinality(moved) = IF "reschedule_requested" \in notices THEN 1 ELSE 0
      <3>1. moved = IF "reschedule_requested" \in notices THEN {"reschedule_requested"} ELSE {}
        OBVIOUS
      <3> HIDE DEF moved
      <3> QED
        BY <3>1, FS_EmptySet, FS_Singleton
    <2>2. Cardinality(own) = Cardinality(moved) + (IF "booking_cancelled" \in notices THEN 1 ELSE 0)
      <3>1. CASE "booking_cancelled" \in notices
        <4>1. own = moved \cup {"booking_cancelled"} /\ "booking_cancelled" \notin moved
          BY <3>1
        <4> HIDE DEF moved, own
        <4> QED
          BY <2>1, <3>1, <4>1, FS_AddElement
      <3>2. CASE "booking_cancelled" \notin notices
        <4>1. own = moved
          BY <3>2
        <4> HIDE DEF moved, own
        <4> QED
          BY <2>1, <3>2, <4>1
      <3> QED
        BY <3>1, <3>2
    <2>3. changes = (IF "reschedule_requested" \in notices THEN 1 ELSE 0) +
                    (IF "booking_cancelled" \in notices THEN 1 ELSE 0)
      BY <1>1 DEF MailInv, Noticed
    <2>4. changes = Cardinality(own)
      <3> HIDE DEF moved, own
      <3> QED
        BY <2>1, <2>2, <2>3
    <2> QED
      BY <2>4 DEF ChangesAreNoticed
  <1> QED
    BY <1>1, Invariance, PTL

\* Where no mail fails and the customer downloads no file by hand, a calendar
\* that has every mail shows a confirmed online booking at its time and no
\* cancelled one: the files of confirmations, moves, reschedules and
\* cancellations arrive in the order of the changes, whatever is queued between, and
\* none is made late.
THEOREM CalendarStaysCurrent ==
    ASSUME MailAssumption, MaxFails = 0, Downloads = FALSE
    PROVE  Spec => [](CalendarIsCurrent /\ (booking.email => ~overtaken))
  <1>1. CalendarInv => CalendarIsCurrent
    <2> SUFFICES ASSUME CalendarInv, booking.origin = "public", booking.email, ~silent,
                        booking.status \in {"confirmed", "cancelled"},
                        \A i \in 1 .. Len(outbox) : IsSent(i)
                 PROVE  /\ booking.status = "confirmed" => calendar = start
                        /\ booking.status = "cancelled" => calendar = None
      BY DEF CalendarIsCurrent, IsSent
    <2>1. Len(outbox) \in Nat
      BY DEF CalendarInv, MailInv, TypeOK
    <2>2. PICK k \in 1 .. Len(outbox) : IsLatest(k)
      BY DEF CalendarInv, Latest, Asks
    <2>3. PICK i \in 1 .. Len(outbox) :
             /\ Brings(i) /\ calendar = Entry(i)
             /\ \A j \in i + 1 .. Len(outbox) : ~Brings(j)
      <3>1. IsSent(k) /\ Brings(k)
        BY <2>2 DEF IsLatest
      <3> QED
        BY <2>1, <3>1 DEF CalendarInv, Shown
    <2>4. i = k
      BY <2>1, <2>2, <2>3 DEF IsLatest
    <2> QED
      BY <2>2, <2>3, <2>4 DEF IsLatest, Entry
  <1>2. CalendarInv => (booking.email => ~overtaken)
    BY DEF CalendarInv, OnTime
  <1> QED
    BY <1>1, <1>2, CalendarInvariance, PTL

=============================================================================
