--------------------------- MODULE OperatorForms ---------------------------
(***************************************************************************)
(* The operator's list of bookings and the drawer that books a client into *)
(* a session (web/src: components/admin/bookings/BookingsView,             *)
(* components/drawers/BookingDrawer), with the server's create_operator_   *)
(* booking (slotera_api: bookings/repository.py).                          *)
(*                                                                         *)
(* The drawer is always mounted: it loads clients and sessions once, and   *)
(* keeps its busy flag when it is closed.  Each opened form has a key.     *)
(***************************************************************************)
EXTENDS Naturals, FiniteSets

CONSTANTS Clients, Sessions,
          Capacity,   \* seats of a session
          MaxKeys,    \* forms opened
          None        \* nothing chosen, nothing shown, nothing asked

VARIABLES booked,   \* the operator's bookings with the keys they were made under
          others,   \* seats taken by customers
          off,      \* cancelled sessions
          keys,     \* forms opened so far
          lists,    \* the drawer's sessions
          drawer, busy, op,
          view,     \* the page: its load, its rows, the client of its address
          told      \* keys the operator was told "Booking created" of

vars == <<booked, others, off, keys, lists, drawer, busy, op, view, told>>
server == <<booked, others, off>>

Bookings == [key: 1 .. MaxKeys, client: Clients, session: Sessions]
Requests == [key: 1 .. MaxKeys, client: Clients, session: Sessions,
             stage: {"sent", "created", "refused"}]

ASSUME FormsAssumption == /\ Capacity \in Nat /\ MaxKeys \in Nat
                          /\ None \notin Clients \cup Sessions \cup Requests

Closed == [mode |-> "closed", key |-> 0, client |-> None, session |-> None]

TypeOK == /\ booked \subseteq Bookings /\ others \in [Sessions -> 0 .. Capacity] /\ off \subseteq Sessions
          /\ keys \in 0 .. MaxKeys /\ told \subseteq 1 .. keys
          /\ lists \in [stage: {"loading", "failed", "shown"}, room: SUBSET Sessions]
          /\ drawer \in [mode: {"closed", "view", "new"}, key: 0 .. keys,
                         client: Clients \cup {None}, session: Sessions \cup {None}]
          /\ op \in Requests \cup {None} /\ (op # None => op.key <= keys)
          /\ busy <=> op # None
          /\ drawer.mode = "new" <=> drawer.key # 0
          /\ view \in [stage: {"loading", "read", "settled", "failed"}, answer: SUBSET Bookings,
                       rows: SUBSET Bookings, client: Clients \cup {None}]

Init == /\ booked = {} /\ others \in [Sessions -> 0 .. Capacity] /\ off = {}
        /\ keys = 0 /\ told = {}
        /\ lists = [stage |-> "loading", room |-> {}]
        /\ drawer = Closed /\ busy = FALSE /\ op = None
        /\ view \in [stage: {"loading"}, answer: {{}}, rows: {{}}, client: Clients \cup {None}]

Taken(s) == others[s] + Cardinality({b \in booked : b.session = s})
HasRoom(s) == s \notin off /\ Taken(s) < Capacity

-----------------------------------------------------------------------------
(* The drawer's lists, loaded when the layout is mounted and never again. *)

ListsLoaded ==
    /\ lists.stage = "loading"
    /\ lists' = [stage |-> "shown", room |-> {s \in Sessions : HasRoom(s)}]
    /\ UNCHANGED <<server, keys, drawer, busy, op, view, told>>

\* Nothing is said, and the selects stay empty.
ListsFailed ==
    /\ lists.stage = "loading"
    /\ lists' = [lists EXCEPT !.stage = "failed"]
    /\ UNCHANGED <<server, keys, drawer, busy, op, view, told>>

-----------------------------------------------------------------------------
(* The page. *)

loadAll ==
    /\ view.stage = "loading"
    /\ view' = [view EXCEPT !.stage = "read", !.answer = booked]
    /\ UNCHANGED <<server, keys, lists, drawer, busy, op, told>>

Settled ==
    /\ view.stage = "read"
    /\ view' = [view EXCEPT !.stage = "settled", !.rows = view.answer, !.answer = {}]
    /\ UNCHANGED <<server, keys, lists, drawer, busy, op, told>>

LoadFailed ==
    /\ view.stage \in {"loading", "read"}
    /\ view' = [view EXCEPT !.stage = "failed", !.answer = {}]
    /\ UNCHANGED <<server, keys, lists, drawer, busy, op, told>>

\* A new attempt; the answer of an earlier one is dropped, the rows stay.
Reloaded == [view EXCEPT !.stage = "loading", !.answer = {}]

Retry ==
    /\ view.stage = "failed" /\ drawer.mode = "closed"
    /\ view' = Reloaded
    /\ UNCHANGED <<server, keys, lists, drawer, busy, op, told>>

filtered == {b \in view.rows : view.client \in {None, b.client}}

clearClientFilter ==
    /\ view.client # None /\ drawer.mode = "closed"
    /\ view' = [view EXCEPT !.client = None]
    /\ UNCHANGED <<server, keys, lists, drawer, busy, op, told>>

-----------------------------------------------------------------------------
(* The drawer. *)

OpenRow ==
    /\ drawer.mode = "closed" /\ view.stage # "failed" /\ filtered # {}
    /\ drawer' = [Closed EXCEPT !.mode = "view"]
    /\ UNCHANGED <<server, keys, lists, busy, op, view, told>>

\* "New booking": an empty form with a key of its own.
OpenNew ==
    /\ drawer.mode = "closed" /\ keys < MaxKeys
    /\ keys' = keys + 1
    /\ drawer' = [Closed EXCEPT !.mode = "new", !.key = keys + 1]
    /\ UNCHANGED <<server, lists, busy, op, view, told>>

\* Escape and the backdrop close it while it is busy, too.
Close ==
    /\ drawer.mode # "closed"
    /\ drawer' = Closed
    /\ UNCHANGED <<server, keys, lists, busy, op, view, told>>

bookableSessions == IF lists.stage = "shown" THEN lists.room ELSE {}

\* The fields stay enabled while a request is under way.
Choose ==
    /\ drawer.mode = "new" /\ lists.stage = "shown"
    /\ \/ \E c \in Clients \ {drawer.client} : drawer' = [drawer EXCEPT !.client = c]
       \/ \E s \in bookableSessions \ {drawer.session} : drawer' = [drawer EXCEPT !.session = s]
    /\ UNCHANGED <<server, keys, lists, busy, op, view, told>>

ready == drawer.client # None /\ drawer.session # None

save ==
    /\ drawer.mode = "new" /\ ready /\ ~busy
    /\ busy' = TRUE
    /\ op' = [key |-> drawer.key, client |-> drawer.client, session |-> drawer.session, stage |-> "sent"]
    /\ UNCHANGED <<server, keys, lists, drawer, view, told>>

\* The page reloads, and the drawer is closed, whatever it shows by now.
Created ==
    /\ busy /\ op.stage = "created"
    /\ told' = told \cup {op.key}
    /\ view' = Reloaded
    /\ drawer' = Closed
    /\ busy' = FALSE /\ op' = None
    /\ UNCHANGED <<server, keys, lists>>

\* A refusal, or a request or an answer that is lost: "Couldn't save booking".
Failed ==
    /\ busy
    /\ busy' = FALSE /\ op' = None
    /\ UNCHANGED <<server, keys, lists, drawer, view, told>>

-----------------------------------------------------------------------------
(* The server: one transaction that locks the session. *)

\* A variant of Recorded: a key is looked up together with the request.
RecordedSame == {b \in booked : b = [key |-> op.key, client |-> op.client, session |-> op.session]}

Recorded == {b \in booked : b.key = op.key}

Replays == [key |-> op.key, client |-> op.client, session |-> op.session] \in Recorded

\* A variant of create_operator_booking: the last seat is counted as free when it is taken.
create_operator_bookingOver ==
    /\ op # None /\ op.stage = "sent"
    /\ LET fits == Recorded = {} /\ op.session \notin off /\ Taken(op.session) <= Capacity IN
       /\ booked' = IF fits THEN booked \cup {[key |-> op.key, client |-> op.client, session |-> op.session]}
                    ELSE booked
       /\ op' = [op EXCEPT !.stage = IF fits \/ Replays THEN "created" ELSE "refused"]
    /\ UNCHANGED <<others, off, keys, lists, drawer, busy, view, told>>

create_operator_booking ==
    /\ op # None /\ op.stage = "sent"
    /\ LET fits == Recorded = {} /\ op.session \notin off /\ Taken(op.session) < Capacity IN
       /\ booked' = IF fits THEN booked \cup {[key |-> op.key, client |-> op.client, session |-> op.session]}
                    ELSE booked
       /\ op' = [op EXCEPT !.stage = IF fits \/ Replays THEN "created" ELSE "refused"]
    /\ UNCHANGED <<others, off, keys, lists, drawer, busy, view, told>>

CustomerBooks(s) ==
    /\ HasRoom(s)
    /\ others' = [others EXCEPT ![s] = @ + 1]
    /\ UNCHANGED <<booked, off, keys, lists, drawer, busy, op, view, told>>

CustomerCancels(s) ==
    /\ others[s] > 0
    /\ others' = [others EXCEPT ![s] = @ - 1]
    /\ UNCHANGED <<booked, off, keys, lists, drawer, busy, op, view, told>>

SessionCancelled(s) ==
    /\ s \notin off
    /\ off' = off \cup {s}
    /\ UNCHANGED <<booked, others, keys, lists, drawer, busy, op, view, told>>

-----------------------------------------------------------------------------

Page == loadAll \/ Settled \/ LoadFailed \/ Retry \/ clearClientFilter

Form == \/ ListsLoaded \/ ListsFailed \/ OpenRow
        \/ OpenNew \/ Close \/ Choose \/ save \/ Created \/ Failed

Server == \/ create_operator_booking
          \/ \E s \in Sessions : CustomerBooks(s) \/ CustomerCancels(s) \/ SessionCancelled(s)

Next == Page \/ Form \/ Server

Spec == Init /\ [][Next]_vars

\* A request is answered or given up.
FairSpec == /\ Spec
            /\ WF_vars(Created \/ Failed)
            /\ WF_vars(loadAll \/ LoadFailed) /\ WF_vars(Settled \/ LoadFailed)

-----------------------------------------------------------------------------
(* An opened form makes one booking at most, however often it is sent. *)
OnePerForm == \A a, b \in booked : a.key = b.key => a = b

(* No session has more bookings than seats, although the drawer's lists are old. *)
SeatsFit == \A s \in Sessions : others[s] + Cardinality({b \in booked : b.session = s}) <= Capacity

(* A booking the operator was told of comes to be listed, or the page says that it could not load. *)
Expected(k) == k \in told
Fulfilled(k) == view.stage = "failed" \/ \E b \in view.rows : b.key = k

(* The button comes back. *)
Awaited == IF busy THEN {"save"} ELSE {}

(* What is refused was not booked by the same form. *)
RefusedIsNotBooked == (op # None /\ op.stage = "refused") => \A b \in booked : b.key # op.key

=============================================================================
