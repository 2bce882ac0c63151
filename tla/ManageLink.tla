---------------------------- MODULE ManageLink ----------------------------
(***************************************************************************)
(* The customer's page for one booking, opened from the link of a mail     *)
(* (web/src: app/(public)/booking/manage/page.tsx), with the server's part *)
(* of it (slotera_api: public_booking/manage.py).                          *)
(*                                                                         *)
(* The link's token is in the address after the #, and the page takes it   *)
(* from there whenever it is rendered, that is with every change of its    *)
(* state: a link pasted over another one loads no new document, and does   *)
(* not render by itself.  A link is named by its booking, which has one;   *)
(* none is pasted while two are being loaded, which is the bound.          *)
(* Seats are those of services with a session for each booking.            *)
(***************************************************************************)
EXTENDS Naturals, FiniteSets

CONSTANTS Tabs,      \* open documents of the customer
          Bookings,  \* the customer's bookings, one link each
          Slots,     \* start times
          Notice,    \* start times the change notice is over for, once it passes
          Links,     \* the links that are opened or pasted
          BadLink,   \* a link that is of no booking, or no longer
          None       \* no link, no booking, no slot

ASSUME LinkAssumption == /\ Notice \subseteq Slots
                         /\ BadLink \notin Bookings /\ Links \subseteq Bookings \cup {BadLink}
                         /\ None \notin Links

VARIABLES booking,  \* the server's rows
          others,   \* slots of other customers
          late,     \* the notice of the slots in Notice is over
          moves,    \* how often its customer moved a booking, at most twice
          page      \* the documents

vars == <<booking, others, late, moves, page>>

\* Pending or confirmed, which makes no difference to what a customer may do.
Live(row) == row.status = "live"

\* A variant of CanCancel: the deadline alone is looked at.
CanCancelAny(row) == ~(late /\ row.slot \in Notice)

\* ManagedBooking.can_cancel and can_reschedule, at the time of the request.
CanCancel(row) == Live(row) /\ ~(late /\ row.slot \in Notice)

\* A variant of CanReschedule: moves are not counted.
CanRescheduleAgain(row) == CanCancel(row)

CanReschedule(row) == CanCancel(row) /\ ~row.moved

Rows == [status: {"live", "cancelled", "completed"}, slot: Slots, moved: BOOLEAN]
ViewOf(b, row) == [id |-> b, row |-> row, canCancel |-> CanCancel(row), canReschedule |-> CanReschedule(row)]
Seen == [id: Bookings, row: Rows, canCancel: BOOLEAN, canReschedule: BOOLEAN]

Blank == [hash |-> None, token |-> None, shown |-> None, notFound |-> FALSE, confirmCancel |-> FALSE,
          rescheduling |-> FALSE, pick |-> None, op |-> None, loads |-> {}]

Ops == [id: Links, to: Slots \cup {None}, stage: {"sent", "refused", "served"},
        view: Seen \cup {None}]

TypeOK ==
    /\ booking \in [Bookings -> Rows] /\ others \subseteq Slots /\ late \in BOOLEAN
    /\ moves \in [Bookings -> 0 .. 2]
    /\ \A t \in Tabs :
         LET p == page[t] IN
         /\ p.hash \in Links \cup {None} /\ p.token \in Links \cup {None}
         /\ p.shown \in Seen \cup {None} /\ p.op \in Ops \cup {None}
         /\ p.loads \subseteq [id: Links, view: Seen \cup {None}]
         /\ p.pick \in Slots \cup {None} /\ p.notFound \in BOOLEAN
         /\ p.confirmCancel \in BOOLEAN /\ p.rescheduling \in BOOLEAN
         /\ (p.op # None \/ p.confirmCancel \/ p.rescheduling) => p.shown # None
         /\ (p.token = None) <=> (p.hash = None)

Init == /\ booking \in [Bookings -> [status: {"live"}, slot: Slots, moved: {FALSE}]]
        /\ \A a, b \in Bookings : a # b => booking[a].slot # booking[b].slot
        /\ others \in SUBSET (Slots \ {booking[b].slot : b \in Bookings})
        /\ late = FALSE
        /\ moves = [b \in Bookings |-> 0]
        /\ page = [t \in Tabs |-> Blank]

-----------------------------------------------------------------------------
(* The document. *)

\* Rendering reads the address; another token than before is loaded by the page's effect.
Rendered(p) == IF p.token = p.hash THEN p
               ELSE [p EXCEPT !.token = p.hash, !.loads = @ \cup {[id |-> p.hash, view |-> None]}]

Sets(t, p) == page' = [page EXCEPT ![t] = Rendered(p)]

OpenLink(t, l) ==
    /\ page[t] = Blank
    /\ Sets(t, [Blank EXCEPT !.hash = l])
    /\ UNCHANGED <<booking, others, late, moves>>

\* Another link over the one in the address: the document stays and is not rendered.
PasteLink(t, l) ==
    /\ page[t].hash \notin {None, l} /\ Cardinality(page[t].loads) <= 1
    /\ page' = [page EXCEPT ![t].hash = l]
    /\ UNCHANGED <<booking, others, late, moves>>

CloseTab(t) ==
    /\ page[t] # Blank
    /\ page' = [page EXCEPT ![t] = Blank]
    /\ UNCHANGED <<booking, others, late, moves>>

getManagedBooking(t) ==
    /\ \E l \in page[t].loads :
         /\ l.view = None /\ l.id \in Bookings
         /\ page' = [page EXCEPT ![t].loads = (@ \ {l}) \cup {[l EXCEPT !.view = ViewOf(l.id, booking[l.id])]}]
    /\ UNCHANGED <<booking, others, late, moves>>

Loaded(t) ==
    /\ \E l \in page[t].loads :
         /\ l.view # None
         /\ Sets(t, [page[t] EXCEPT !.shown = l.view, !.loads = @ \ {l}])
    /\ UNCHANGED <<booking, others, late, moves>>

\* Whatever the failure.  The page never takes it back.
LoadFailed(t) ==
    /\ \E l \in page[t].loads : Sets(t, [page[t] EXCEPT !.notFound = TRUE, !.loads = @ \ {l}])
    /\ UNCHANGED <<booking, others, late, moves>>

-----------------------------------------------------------------------------
(* Its buttons: shown for a live booking, by what was last answered. *)

Changeable(t) == page[t].shown # None /\ ~page[t].notFound /\ Live(page[t].shown.row)

Busy(t) == page[t].op # None

AskCancel(t) ==
    /\ Changeable(t) /\ ~page[t].rescheduling /\ page[t].shown.canCancel
    /\ ~page[t].confirmCancel
    /\ Sets(t, [page[t] EXCEPT !.confirmCancel = TRUE])
    /\ UNCHANGED <<booking, others, late, moves>>

KeepBooking(t) ==
    /\ page[t].confirmCancel /\ ~Busy(t) /\ ~page[t].notFound
    /\ Sets(t, [page[t] EXCEPT !.confirmCancel = FALSE])
    /\ UNCHANGED <<booking, others, late, moves>>

StartReschedule(t) ==
    /\ Changeable(t) /\ ~page[t].rescheduling /\ page[t].shown.canReschedule
    /\ ~page[t].confirmCancel
    /\ Sets(t, [page[t] EXCEPT !.rescheduling = TRUE])
    /\ UNCHANGED <<booking, others, late, moves>>

\* Not disabled while the move is under way; the slot that was picked stays picked.
KeepTime(t) ==
    /\ Changeable(t) /\ page[t].rescheduling /\ ~page[t].confirmCancel
    /\ Sets(t, [page[t] EXCEPT !.rescheduling = FALSE])
    /\ UNCHANGED <<booking, others, late, moves>>

Pick(t, s) ==
    /\ Changeable(t) /\ page[t].rescheduling /\ ~page[t].confirmCancel /\ page[t].pick # s
    /\ Sets(t, [page[t] EXCEPT !.pick = s])
    /\ UNCHANGED <<booking, others, late, moves>>

\* The request is for the token of the last rendering.
Sends(t, slot) == Sets(t, [page[t] EXCEPT !.op = [id |-> page[t].token, to |-> slot, stage |-> "sent",
                                                  view |-> None]])

cancelManagedBooking(t) ==
    /\ page[t].confirmCancel /\ ~Busy(t) /\ ~page[t].notFound
    /\ Sends(t, None)
    /\ UNCHANGED <<booking, others, late, moves>>

rescheduleManagedBooking(t) ==
    /\ Changeable(t) /\ page[t].rescheduling /\ ~page[t].confirmCancel /\ page[t].pick # None
    /\ ~Busy(t)
    /\ Sends(t, page[t].pick)
    /\ UNCHANGED <<booking, others, late, moves>>

-----------------------------------------------------------------------------
(* The server.  Each request is one transaction that locks the booking. *)

Serves(t, row) == page' = [page EXCEPT ![t].op.stage = "served", ![t].op.view = ViewOf(page[t].op.id, row)]
Refuses(t) == page' = [page EXCEPT ![t].op.stage = "refused"]

Asks(t, kind) == /\ Busy(t) /\ page[t].op.stage = "sent" /\ page[t].op.id \in Bookings
                 /\ (kind = "cancel") <=> (page[t].op.to = None)

\* A booking that is cancelled already is answered as it is.
cancel(t) ==
    /\ Asks(t, "cancel")
    /\ LET b == page[t].op.id IN
       \/ /\ booking[b].status = "cancelled"
          /\ Serves(t, booking[b]) /\ UNCHANGED booking
       \/ /\ CanCancel(booking[b])
          /\ booking' = [booking EXCEPT ![b].status = "cancelled"]
          /\ Serves(t, booking'[b])
       \/ /\ ~CanCancel(booking[b]) /\ booking[b].status # "cancelled"
          /\ Refuses(t) /\ UNCHANGED booking
    /\ UNCHANGED <<others, late, moves>>

\* A variant of Free: the other customers' sessions are not looked at.
FreeOfOurs(s) == s \notin {booking[b].slot : b \in {a \in Bookings : Live(booking[a])}}

Free(s) == s \notin others \cup {booking[b].slot : b \in {a \in Bookings : Live(booking[a])}}

\* The slot it has is answered as it is, before anything else is looked at.
reschedule(t) ==
    /\ Asks(t, "move")
    /\ LET b == page[t].op.id
           s == page[t].op.to
           allowed == CanReschedule(booking[b]) /\ Free(s) IN
       \/ /\ booking[b].slot = s
          /\ Serves(t, booking[b]) /\ UNCHANGED <<booking, moves>>
       \/ /\ booking[b].slot # s /\ allowed
          /\ booking' = [booking EXCEPT ![b].slot = s, ![b].moved = TRUE]
          /\ moves' = [moves EXCEPT ![b] = IF @ = 2 THEN 2 ELSE @ + 1]
          /\ Serves(t, booking'[b])
       \/ /\ booking[b].slot # s /\ ~allowed
          /\ Refuses(t) /\ UNCHANGED <<booking, moves>>
    /\ UNCHANGED <<others, late>>

Succeeded(t) ==
    /\ Busy(t) /\ page[t].op.stage = "served"
    /\ Sets(t, [page[t] EXCEPT !.shown = page[t].op.view, !.op = None,
                               !.rescheduling = FALSE, !.confirmCancel = FALSE])
    /\ UNCHANGED <<booking, others, late, moves>>

\* A refusal (of a bad link too), or a request or an answer that is lost; nothing is loaded again.
Failed(t) ==
    /\ Busy(t)
    /\ Sets(t, [page[t] EXCEPT !.op = None])
    /\ UNCHANGED <<booking, others, late, moves>>

-----------------------------------------------------------------------------
(* The operator, the other customers, and time. *)

OperatorEnds(b) ==
    /\ Live(booking[b])
    /\ \E s \in {"cancelled", "completed"} : booking' = [booking EXCEPT ![b].status = s]
    /\ UNCHANGED <<others, late, moves, page>>

OperatorMoves(b, s) ==
    /\ Live(booking[b]) /\ Free(s)
    /\ booking' = [booking EXCEPT ![b].slot = s]
    /\ UNCHANGED <<others, late, moves, page>>

OthersBook(s) ==
    /\ Free(s)
    /\ others' = others \cup {s}
    /\ UNCHANGED <<booking, late, moves, page>>

OthersCancel(s) ==
    /\ s \in others
    /\ others' = others \ {s}
    /\ UNCHANGED <<booking, late, moves, page>>

NoticePasses ==
    /\ ~late /\ Notice # {}
    /\ late' = TRUE
    /\ UNCHANGED <<booking, others, moves, page>>

-----------------------------------------------------------------------------

Customer(t) == \/ \E l \in Links : OpenLink(t, l) \/ PasteLink(t, l)
               \/ CloseTab(t) \/ AskCancel(t) \/ KeepBooking(t) \/ StartReschedule(t) \/ KeepTime(t)
               \/ \E s \in Slots : Pick(t, s)
               \/ cancelManagedBooking(t) \/ rescheduleManagedBooking(t)

Requests(t) == \/ getManagedBooking(t) \/ Loaded(t) \/ LoadFailed(t)
               \/ cancel(t) \/ reschedule(t) \/ Succeeded(t) \/ Failed(t)

Others == \/ \E b \in Bookings : OperatorEnds(b) \/ \E s \in Slots : OperatorMoves(b, s)
          \/ \E s \in Slots : OthersBook(s) \/ OthersCancel(s)
          \/ NoticePasses

Next == (\E t \in Tabs : Customer(t) \/ Requests(t)) \/ Others

Spec == Init /\ [][Next]_vars

\* A request is served or given up and its answer, if any, arrives.
FairSpec == Spec /\ \A t \in Tabs : WF_vars(Succeeded(t) \/ Failed(t)) /\ WF_vars(Loaded(t) \/ LoadFailed(t))

-----------------------------------------------------------------------------
(* A customer moves a booking once, whatever is sent again and from how many documents. *)
MovedOnce == \A b \in Bookings : moves[b] <= 1

(* What ended is over: no request of the customer brings back a booking that was *)
(* cancelled or completed, or moves it, although pages that were loaded before   *)
(* still have the buttons.                                                       *)
EndedStays == [][\A b \in Bookings : ~Live(booking[b]) => booking'[b] = booking[b]]_vars

(* No two live bookings have one slot, and none has another customer's. *)
SlotsApart ==
    /\ \A a, b \in Bookings :
         (a # b /\ Live(booking[a]) /\ Live(booking[b])) => booking[a].slot # booking[b].slot
    /\ \A b \in Bookings : Live(booking[b]) => booking[b].slot \notin others

(* The buttons come back, and a page that was opened shows its booking or says it cannot. *)
Awaited == {t \in Tabs : Busy(t)}
Expected(t) == page[t].loads # {}
Fulfilled(t) == page[t].shown # None \/ page[t].notFound \/ page[t] = Blank
(* A request is about the booking that the page shows. *)
ChangesTheShown == [][\A t \in Tabs :
    (~Busy(t) /\ Busy(t)') => page'[t].op.id = page[t].shown.id]_vars

(* "Your booking has been moved": of a booking that is still to take place. *)
MovedIsLive == \A t \in Tabs :
    (Busy(t) /\ page[t].op.stage = "served" /\ page[t].op.to # None) => Live(page[t].op.view.row)

=============================================================================
