--------------------------- MODULE BookingDetail ---------------------------
(***************************************************************************)
(* The page of one booking in the web client: its copy of the booking and  *)
(* of the booking's session, the commands it sends, the card that records  *)
(* a session's outcome, and the dialog that moves the booking              *)
(* (web/src: app/(admin)/admin/bookings/[id], MoveBookingDialog,           *)
(* services/bookings.service).                                             *)
(*                                                                         *)
(* The sessions are 1:1 sessions of one service.  Money, names, the        *)
(* printed summary and the demo's branches are left out.                   *)
(***************************************************************************)
EXTENDS Naturals, FiniteSets

CONSTANTS Sessions,     \* the sessions a booking can be moved between
          MaxKeys,      \* bound: idempotency keys the move dialog makes
          MaxEvents,    \* bound: changes by the customer or from another tab
          Slots,        \* bound: commands in flight at a time
          None          \* no booking, no session, no dialog, no request

DetailAssumption == MaxKeys \in Nat /\ MaxEvents \in Nat /\ None \notin Sessions

Booking == [status: {"pending", "confirmed", "completed", "noshow", "cancelled"},
            approval: BOOLEAN,        \* it waits for the operator's approval
            unpaid: BOOLEAN,          \* a manual payment is pending
            session: Sessions]

Actions == {"approve", "decline", "payment", "cancel"}
Outcomes == {"completed", "noshow"}

VARIABLES server,      \* the booking
          started,     \* the sessions that have started
          keys,        \* the session each key's move was made to
          booking,     \* the page's copy
          session,     \* the page's session, and whether it had started when it was loaded
          error,       \* the page shows that a load failed
          load,        \* the load under way; an older one is ignored
          dialog,      \* the action that the confirmation dialog asks about
          moving,      \* the move dialog: its choice, its key, whether it has moved the booking
          busy,        \* which of dialog, move and card wait for an answer
          calls,       \* the commands in flight
          fresh,       \* keys made so far
          twice,       \* a move dialog moved the booking twice
          behind,      \* since its load was read, the booking changed without the page being told,
                       \* or an outcome was recorded before that load arrived
          events       \* changes by others so far

pageVars == <<booking, session, error, load, dialog, moving, busy>>
vars == <<server, started, keys, pageVars, calls, fresh, twice, behind, events>>

Parts == {"dialog", "move", "card"}
Dialog == [to: Sessions \cup {None}, key: 1..MaxKeys, moved: BOOLEAN]
Call == [op: Actions \cup Outcomes \cup {"move"}, to: Sessions \cup {None}, key: 0..MaxKeys,
         seen: Sessions \cup {None},          \* the session the outcome's card was about
         part: Parts \cup {None, "gone"},     \* the part that waits: None when only the part
                                              \* is gone, "gone" when the page is
         answer: {"none", "ok", "failed"}, got: Booking \cup {None}]

TypeOK == /\ server \in Booking /\ started \subseteq Sessions
          /\ keys \in [1..MaxKeys -> Sessions \cup {None}]
          /\ booking \in Booking \cup {None} /\ error \in BOOLEAN
          /\ session \in [id: Sessions, started: BOOLEAN] \cup {None}
          /\ load \in [stage: {"idle", "asked", "read", "rest"}, got: Booking \cup {None}]
          /\ dialog \in Actions \cup {None} /\ moving \in Dialog \cup {None}
          /\ busy \subseteq Parts
          /\ calls \in [Slots -> Call \cup {None}]
          /\ "dialog" \in busy => dialog # None
          /\ "move" \in busy => moving # None
          /\ fresh \in 0..MaxKeys /\ events \in 0..MaxEvents
          /\ twice \in BOOLEAN /\ behind \in BOOLEAN

Flying == {i \in Slots : calls[i] # None}
Idle == [stage |-> "idle", got |-> None]
Asked == [stage |-> "asked", got |-> None]

\* A confirmed booking has passed both gates, one that waits for either is pending.
Init == /\ \E s \in Sessions, a, u \in BOOLEAN :
             server = [status |-> IF a \/ u THEN "pending" ELSE "confirmed",
                       approval |-> a, unpaid |-> u, session |-> s]
        /\ started \in SUBSET Sessions
        /\ keys = [k \in 1..MaxKeys |-> None]
        /\ booking = None /\ session = None /\ error = FALSE /\ load = Asked
        /\ dialog = None /\ moving = None  /\ busy = {}
        /\ calls = [i \in Slots |-> None]
        /\ fresh = 0 /\ twice = FALSE /\ behind = FALSE /\ events = 0

-----------------------------------------------------------------------------
(* What the page shows. *)

Shown == booking # None /\ ~error
Active(b) == b.status \in {"pending", "confirmed"}

\* The card that asks how the session went.
CardShown(b, s, e) == /\ b # None /\ ~e /\ s # None
                      /\ b.status = "confirmed" /\ s.started

\* A card that is taken off the page no longer waits for its answer.
WithoutCard(cs) == [i \in Slots |-> IF cs[i] # None /\ cs[i].part = "card"
                                    THEN [cs[i] EXCEPT !.part = None] ELSE cs[i]]

\* The page has changed to b, s and e; the waiting parts are bs, the calls cs.
Rendered(b, s, e, bs, cs) ==
    /\ booking' = b /\ session' = s /\ error' = e
    /\ busy' = IF CardShown(b, s, e) THEN bs ELSE bs \ {"card"}
    /\ calls' = IF CardShown(b, s, e) THEN cs ELSE WithoutCard(cs)

\* Leaving the page and opening it again: its requests go on without it.
Reopen ==
    /\ booking' = None /\ session' = None /\ error' = FALSE /\ load' = Asked
    /\ dialog' = None /\ moving' = None /\ busy' = {}
    /\ calls' = [i \in Slots |-> IF i \in Flying THEN [calls[i] EXCEPT !.part = "gone"] ELSE None]
    /\ UNCHANGED <<server, started, keys, fresh, twice, behind, events>>

-----------------------------------------------------------------------------
(* Loading. *)

LoadRead ==
    /\ load.stage = "asked"
    /\ load' = [stage |-> "read", got |-> server]
    /\ behind' = FALSE
    /\ UNCHANGED <<server, started, keys, booking, session, error, dialog, moving, busy,
                   calls, fresh, twice, events>>

LoadFails ==
    /\ load.stage = "asked" /\ load' = Idle
    /\ Rendered(booking, session, TRUE, busy, calls)
    /\ UNCHANGED <<server, started, keys, dialog, moving, fresh, twice, behind, events>>

BookingArrives ==
    /\ load.stage = "read" /\ load' = [load EXCEPT !.stage = "rest"]
    /\ Rendered(load.got, session, FALSE, busy, calls)
    /\ UNCHANGED <<server, started, keys, dialog, moving, fresh, twice, behind, events>>

StartedAsBefore(id) == id \in started \/ (session # None /\ session.started)

\* The session's start is compared with the clock when the session arrives.
HasStarted(id) == id \in started

\* The client, the session and then its service arrive; one of them may fail.
RestArrives ==
    /\ load.stage = "rest" /\ load' = Idle
    /\ LET loaded == [id |-> load.got.session, started |-> HasStarted(load.got.session)] IN
         \/ Rendered(booking, loaded, error, busy, calls)
         \/ Rendered(booking, loaded, TRUE, busy, calls)
         \/ Rendered(booking, session, TRUE, busy, calls)
    /\ UNCHANGED <<server, started, keys, dialog, moving, fresh, twice, behind, events>>

Retry ==
    /\ error /\ load' = Asked
    /\ UNCHANGED <<server, started, keys, booking, session, error, dialog, moving, busy,
                   calls, fresh, twice, behind, events>>

-----------------------------------------------------------------------------
(* The operator.  A dialog that is open hides the page behind it. *)

OnPage == Shown /\ dialog = None /\ moving = None
PageOnly == UNCHANGED <<server, started, keys, booking, session, error, load, twice, behind, events>>

Offers(a) == CASE a \in {"approve", "decline"} -> booking.approval
               [] a = "payment" -> booking.unpaid
               [] OTHER -> TRUE

Ask(a) == /\ OnPage /\ Active(booking) /\ Offers(a)
          /\ dialog' = a
          /\ UNCHANGED <<moving, busy, calls, fresh>> /\ PageOnly

CloseDialog == /\ dialog # None /\ "dialog" \notin busy /\ dialog' = None
               /\ UNCHANGED <<moving, busy, calls, fresh>> /\ PageOnly

Send(op, to, key, seen, part) ==
    /\ part \notin busy /\ busy' = busy \cup {part}
    /\ \E i \in Slots \ Flying :
         calls' = [calls EXCEPT ![i] = [op |-> op, to |-> to, key |-> key,
                                        seen |-> seen, part |-> part, answer |-> "none", got |-> None]]

\* Every command has a key of its own; only that of the move dialog is kept.
RunAction == /\ dialog # None /\ booking # None
             /\ Send(dialog, None, 0, None, "dialog")
             /\ UNCHANGED <<dialog, moving, fresh>> /\ PageOnly

RecordOutcome(o) == /\ OnPage /\ CardShown(booking, session, error)
                    /\ Send(o, None, 0, session.id, "card")
                    /\ UNCHANGED <<dialog, moving, fresh>> /\ PageOnly

OpenMove == /\ OnPage /\ Active(booking) /\ fresh < MaxKeys
            /\ fresh' = fresh + 1
            /\ moving' = [to |-> None, key |-> fresh + 1, moved |-> FALSE]
            /\ UNCHANGED <<dialog, busy, calls>> /\ PageOnly

\* The upcoming sessions with room; one may start before the dialog is submitted.
ChooseSession(s) == /\ moving # None /\ s \notin started /\ s # booking.session /\ moving' = [moving EXCEPT !.to = s]
                    /\ UNCHANGED <<dialog, busy, calls, fresh>> /\ PageOnly

CloseMove == /\ moving # None /\ "move" \notin busy /\ moving' = None
             /\ UNCHANGED <<dialog, busy, calls, fresh>> /\ PageOnly

SubmitMove == /\ moving # None /\ moving.to # None
              /\ Send("move", moving.to, moving.key, None, "move")
              /\ UNCHANGED <<dialog, moving, fresh>> /\ PageOnly

-----------------------------------------------------------------------------
(* The server. *)

Ready(b) == [b EXCEPT !.status = IF ~b.approval /\ ~b.unpaid THEN "confirmed" ELSE "pending"]

Allowed(c) ==
    CASE c.op \in {"approve", "decline"} -> server.status = "pending" /\ server.approval
      [] c.op = "payment" -> server.status = "pending" /\ server.unpaid
      [] c.op = "cancel" -> Active(server)
      [] c.op \in Outcomes -> server.status = "confirmed"
      [] c.op = "move" -> /\ keys[c.key] = None /\ Active(server)
                          /\ c.to # server.session /\ c.to \notin started

After(c) ==
    CASE c.op = "approve" -> Ready([server EXCEPT !.approval = FALSE])
      [] c.op = "payment" -> Ready([server EXCEPT !.unpaid = FALSE])
      [] c.op = "decline" -> [server EXCEPT !.approval = FALSE, !.status = "cancelled"]
      [] c.op = "cancel" -> [server EXCEPT !.status = "cancelled"]
      [] c.op \in Outcomes -> [server EXCEPT !.status = c.op]
      [] c.op = "move" -> [server EXCEPT !.session = c.to]

\* The command is done; its answer may get lost.
Serve(i) ==
    /\ i \in Flying /\ calls[i].answer = "none" /\ Allowed(calls[i])
    /\ LET c == calls[i] IN
         /\ server' = After(c)
         /\ keys' = IF c.op = "move" THEN [keys EXCEPT ![c.key] = c.to] ELSE keys
         /\ IF c.op = "move" /\ c.part = "move"
            THEN moving' = [moving EXCEPT !.moved = TRUE] /\ twice' = (twice \/ moving.moved)
            ELSE UNCHANGED <<moving, twice>>
         /\ \E a \in {"ok", "failed"} :
              /\ calls' = [calls EXCEPT ![i].answer = a,
                                        ![i].got = IF a = "ok" /\ c.part # "gone" THEN server' ELSE None]
              /\ behind' = (\/ behind \/ a = "failed" \/ c.part = "gone"
                            \/ c.op \in Outcomes /\ load.stage = "read")
    /\ UNCHANGED <<started, booking, session, error, load, dialog, busy, fresh, events>>

\* A move whose key is known is answered with the booking as it is.
Replay(i) ==
    /\ i \in Flying /\ calls[i].answer = "none" /\ calls[i].op = "move"
    /\ keys[calls[i].key] = calls[i].to
    /\ calls' = [calls EXCEPT ![i].answer = "ok",
                              ![i].got = IF calls[i].part = "gone" THEN None ELSE server]
    /\ UNCHANGED <<server, started, keys, pageVars, fresh, twice, behind, events>>

Refuse(i) ==
    /\ i \in Flying /\ calls[i].answer = "none"
    /\ calls' = [calls EXCEPT ![i].answer = "failed"]
    /\ UNCHANGED <<server, started, keys, pageVars, fresh, twice, behind, events>>

\* The customer reschedules or cancels, the deadline passes, or another tab moves it.
Elsewhere ==
    /\ Active(server) /\ events < MaxEvents /\ events' = events + 1
    /\ \/ server' = [server EXCEPT !.status = "cancelled"]
       \/ \E s \in Sessions \ (started \cup {server.session}) : server' = [server EXCEPT !.session = s]
    /\ behind' = TRUE
    /\ UNCHANGED <<started, keys, pageVars, calls, fresh, twice>>

TimePasses(s) ==
    /\ s \notin started /\ started' = started \cup {s}
    /\ UNCHANGED <<server, keys, pageVars, calls, fresh, twice, behind, events>>

-----------------------------------------------------------------------------
(* The answers. *)

WithoutCall(i) == [calls EXCEPT ![i] = None]

\* runAction: the booking is shown as it was answered, and loaded again.
ActionDone(i) ==
    /\ i \in Flying /\ calls[i].part = "dialog" /\ calls[i].answer = "ok"
    /\ Rendered(calls[i].got, session, error, busy \ {"dialog"}, WithoutCall(i))
    /\ load' = Asked /\ dialog' = None
    /\ UNCHANGED <<server, started, keys, moving, fresh, twice, behind, events>>

MoveDone(i) ==
    /\ i \in Flying /\ calls[i].part = "move" /\ calls[i].answer = "ok"
    /\ Rendered(calls[i].got, session, error, busy \ {"move"}, WithoutCall(i))
    /\ load' = Asked /\ moving' = None
    /\ UNCHANGED <<server, started, keys, dialog, fresh, twice, behind, events>>

\* The card hands the booking to the page, which does not load it again.
OutcomeDone(i) ==
    /\ i \in Flying /\ calls[i].op \in Outcomes /\ calls[i].part # "gone" /\ calls[i].answer = "ok"
    /\ Rendered(calls[i].got, session, error, IF calls[i].part = "card" THEN busy \ {"card"} ELSE busy,
                WithoutCall(i))
    /\ UNCHANGED <<server, started, keys, load, dialog, moving, fresh, twice, behind, events>>

\* A toast tells it; dialogs stay open.
Failed(i) ==
    /\ i \in Flying /\ calls[i].part # "gone" /\ calls[i].answer = "failed"
    /\ busy' = busy \ {calls[i].part} /\ calls' = WithoutCall(i)
    /\ UNCHANGED <<server, started, keys, booking, session, error, load, dialog, moving,
                   fresh, twice, behind, events>>

Unheard(i) ==
    /\ i \in Flying /\ calls[i].part = "gone" /\ calls[i].answer # "none"
    /\ calls' = WithoutCall(i)
    /\ UNCHANGED <<server, started, keys, pageVars, fresh, twice, behind, events>>

-----------------------------------------------------------------------------

Operator == \/ Reopen \/ Retry \/ CloseDialog \/ RunAction \/ OpenMove \/ CloseMove \/ SubmitMove
            \/ \E a \in Actions : Ask(a)
            \/ \E o \in Outcomes : RecordOutcome(o)
            \/ \E s \in Sessions : ChooseSession(s)
Loading == LoadRead \/ LoadFails \/ BookingArrives \/ RestArrives
Server == \/ Elsewhere \/ \E s \in Sessions : TimePasses(s)
          \/ \E i \in Slots : Serve(i) \/ Replay(i) \/ Refuse(i)
Settle(i) == ActionDone(i) \/ MoveDone(i) \/ OutcomeDone(i) \/ Failed(i) \/ Unheard(i)
Next == Operator \/ Loading \/ Server \/ \E i \in Slots : Settle(i)

Spec == Init /\ [][Next]_vars

\* Requests settle and their continuations run.
FairSpec == /\ Spec
            /\ \A i \in Slots : WF_vars(Serve(i) \/ Replay(i) \/ Refuse(i)) /\ WF_vars(Settle(i))

\* When nothing is under way the page shows the booking as it is, with the session it
\* is booked into, unless somebody else changed it since the page was loaded, an
\* answer was lost, or an outcome overtook a load that had read the older booking.
ShowsServer == Shown /\ Flying = {} /\ load.stage = "idle" /\ ~behind =>
                 booking = server /\ session # None /\ session.id = server.session

\* "A double-click or retry replays, never moves twice": a dialog moves the booking
\* at most once, also when its answer was lost and another session is chosen then.
MovesOnce == ~twice

\* An outcome is recorded for a session the operator saw as started only when it has.
OutcomeAsShownStep ==
    \A i \in Flying : /\ calls[i].op \in Outcomes /\ calls[i].answer = "none"
                       /\ calls'[i] # None /\ calls'[i].answer # "none" /\ server' # server
                      => server.session \in started \/ calls[i].seen # server.session
\* An outcome is recorded once the session has started.
OutcomeAfterStart ==
    [][server.status \notin Outcomes /\ server'.status \in Outcomes => server.session \in started]_vars
=============================================================================
