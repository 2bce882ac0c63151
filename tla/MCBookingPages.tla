------------------------ MODULE MCBookingPages ------------------------
(***************************************************************************)
(* The pages and mails that deal with bookings, for TLC.                   *)
(*                                                                         *)
(* The pages share nothing in the browser: each is loaded afresh and asks  *)
(* the server for all it shows.  So a behaviour is one of one page: which  *)
(* it is stands in at, and x1, ..., x15 are its variables in the order of  *)
(* its module.  The customer's page behind the link of a mail keeps the    *)
(* names it has in ManageLink; its constants are in the configuration.     *)
(***************************************************************************)
EXTENDS ManageLink, Integers, TLC

VARIABLES at,  \* the page that is open, or the part of it
          x1, x2, x3, x4, x5, x6, x7, x8, x9, x10, x11, x12, x13, x14, x15  \* its variables

\* The service asks a question that must be answered, before the payment or at any time; or none.
Question(early) == [type |-> "text", required |-> TRUE, beforePayment |-> early]
WithQuestion(early) == [s \in {"a"} |-> Question(early)]
WithoutQuestion == [s \in {"a"} |-> None]

\* Three sessions, two of them close to each other; the customer is offered the first.
ThreeStarts == "s1" :> 2 @@ "s2" :> 3 @@ "s3" :> 4

\* The booking page of a service with a question, and of one without: with two requests on their
\* way, and with one at a time, three presses that book, and any walk over the steps between them.
Answering == INSTANCE BookingPage WITH
    Workspaces <- {"w"}, Services <- {"a"}, Starts <- {"t"}, WorkspaceOf <- [s \in {"a"} |-> "w"],
    FormOf <- WithQuestion(TRUE), Offered <- {<<"a", "t">>}, FreeServices <- {}, Slots <- {"c1"},
    MaxMade <- 1,
    place <- x1, ws <- x2, settings <- x3, step <- x4, draft <- x5, asked <- x6, loaded <- x7,
    submitting <- x8, leaving <- x9, stored <- x10, calls <- x11, made <- x12, unshown <- x13,
    unseen <- x14

Filling == INSTANCE BookingPage WITH
    Workspaces <- {"w"}, Services <- {"a"}, Starts <- {"t"}, WorkspaceOf <- [s \in {"a"} |-> "w"],
    FormOf <- WithQuestion(FALSE), Offered <- {<<"a", "t">>}, FreeServices <- {}, Slots <- {"c1"},
    MaxMade <- 1,
    place <- x1, ws <- x2, settings <- x3, step <- x4, draft <- x5, asked <- x6, loaded <- x7,
    submitting <- x8, leaving <- x9, stored <- x10, calls <- x11, made <- x12, unshown <- x13,
    unseen <- x14

Booking == INSTANCE BookingPage WITH
    Workspaces <- {"w"}, Services <- {"a"}, Starts <- {"t"}, WorkspaceOf <- [s \in {"a"} |-> "w"],
    FormOf <- WithoutQuestion, Offered <- {<<"a", "t">>}, FreeServices <- {}, Slots <- {"c1", "c2"},
    MaxMade <- 2,
    place <- x1, ws <- x2, settings <- x3, step <- x4, draft <- x5, asked <- x6, loaded <- x7,
    submitting <- x8, leaving <- x9, stored <- x10, calls <- x11, made <- x12, unshown <- x13,
    unseen <- x14

Again == INSTANCE BookingPage WITH
    Workspaces <- {"w"}, Services <- {"a"}, Starts <- {"t"}, WorkspaceOf <- [s \in {"a"} |-> "w"],
    FormOf <- WithoutQuestion, Offered <- {<<"a", "t">>}, FreeServices <- {}, Slots <- {"c1"},
    MaxMade <- 3,
    place <- x1, ws <- x2, settings <- x3, step <- x4, draft <- x5, asked <- x6, loaded <- x7,
    submitting <- x8, leaving <- x9, stored <- x10, calls <- x11, made <- x12, unshown <- x13,
    unseen <- x14

\* The mails of a booking: of its reminders, its calendar, and of a session that is edited.
Reminding == INSTANCE BookingMail WITH
    Sessions <- DOMAIN ThreeStarts, PublicSessions <- {"s1"}, Origins <- {"public"},
    FirstStart <- ThreeStarts, MaxTime <- 4, Lead <- 1, ChangeNotice <- 1, Jobs <- {"j1", "j2"},
    MaxMoves <- 1, MaxEdits <- 0, MaxFails <- 0, Downloads <- FALSE,
    now <- x1, booking <- x2, session <- x3, outbox <- x4, notices <- x5, due <- x6, link <- x7,
    page <- x8, calendar <- x9, overtaken <- x10, changes <- x11, silent <- x12, bounds <- x13

Inviting == INSTANCE BookingMail WITH
    Sessions <- DOMAIN ThreeStarts, PublicSessions <- {"s1"}, Origins <- {"public", "operator"},
    FirstStart <- ThreeStarts, MaxTime <- 4, Lead <- 1, ChangeNotice <- 1, Jobs <- {},
    MaxMoves <- 2, MaxEdits <- 0, MaxFails <- 0, Downloads <- FALSE,
    now <- x1, booking <- x2, session <- x3, outbox <- x4, notices <- x5, due <- x6, link <- x7,
    page <- x8, calendar <- x9, overtaken <- x10, changes <- x11, silent <- x12, bounds <- x13

Retrying == INSTANCE BookingMail WITH
    Sessions <- DOMAIN ThreeStarts, PublicSessions <- {"s1"}, Origins <- {"public"},
    FirstStart <- ThreeStarts, MaxTime <- 4, Lead <- 1, ChangeNotice <- 1, Jobs <- {},
    MaxMoves <- 1, MaxEdits <- 0, MaxFails <- 1, Downloads <- FALSE,
    now <- x1, booking <- x2, session <- x3, outbox <- x4, notices <- x5, due <- x6, link <- x7,
    page <- x8, calendar <- x9, overtaken <- x10, changes <- x11, silent <- x12, bounds <- x13

Editing == INSTANCE BookingMail WITH
    Sessions <- {"s1", "s2"}, PublicSessions <- {"s1"}, Origins <- {"public"},
    FirstStart <- [s \in {"s1", "s2"} |-> ThreeStarts[s]], MaxTime <- 3, Lead <- 1,
    ChangeNotice <- 1, Jobs <- {"j1"}, MaxMoves <- 0, MaxEdits <- 1, MaxFails <- 0,
    Downloads <- TRUE,
    now <- x1, booking <- x2, session <- x3, outbox <- x4, notices <- x5, due <- x6, link <- x7,
    page <- x8, calendar <- x9, overtaken <- x10, changes <- x11, silent <- x12, bounds <- x13

\* The demo of the customer's page.
Demo == INSTANCE ManageDemo WITH
    Required <- {"intake"}, Optional <- {"notes", "update"}, Texts <- {"", "a"}, MaxTimers <- 2,
    page <- x1, copied <- x2, timers <- x3, tab <- x4, formValues <- x5, completed <- x6,
    openFormId <- x7, message <- x8, dialog <- x9, saved <- x10

\* The operator's page of a booking: moved by the operator, there and back, or to one of two
\* sessions that is chosen anew; and changed by others.
Moving == INSTANCE BookingDetail WITH
    Sessions <- {"s1", "s2"}, MaxKeys <- 2, MaxEvents <- 0, Slots <- {"c1"},
    server <- x1, started <- x2, keys <- x3, booking <- x4, session <- x5, error <- x6, load <- x7,
    dialog <- x8, moving <- x9, busy <- x10, calls <- x11, fresh <- x12, twice <- x13,
    behind <- x14, events <- x15

Choosing == INSTANCE BookingDetail WITH
    Sessions <- {"s1", "s2", "s3"}, MaxKeys <- 1, MaxEvents <- 0, Slots <- {"c1"},
    server <- x1, started <- x2, keys <- x3, booking <- x4, session <- x5, error <- x6, load <- x7,
    dialog <- x8, moving <- x9, busy <- x10, calls <- x11, fresh <- x12, twice <- x13,
    behind <- x14, events <- x15

Ending == INSTANCE BookingDetail WITH
    Sessions <- {"s1", "s2"}, MaxKeys <- 0, MaxEvents <- 1, Slots <- {"c1"},
    server <- x1, started <- x2, keys <- x3, booking <- x4, session <- x5, error <- x6, load <- x7,
    dialog <- x8, moving <- x9, busy <- x10, calls <- x11, fresh <- x12, twice <- x13,
    behind <- x14, events <- x15

\* The attendance of a group session.
Sheet == INSTANCE AttendanceSheet WITH
    Bookings <- {"b1", "b2"}, Marks <- {"present", "late"}, Present <- "present", MaxPresses <- 2,
    Slots <- {"c1", "c2", "c3"},
    server <- x1, rows <- x2, busyIds <- x3, load <- x4, calls <- x5, snapshot <- x6, presses <- x7,
    meant <- x8, excused <- x9, shared <- x10

\* The note of a session, saved from its drawer, and its action items.
Noting == INSTANCE SessionEditor WITH
    Ids <- {"s1"}, Starts <- {"t1"}, Notes <- {"n1", "n2"}, MaxNotes <- 1, MaxEvents <- 0,
    server <- x1, late <- x2, board <- x3, loading <- x4, drawer <- x5, form <- x6, confirm <- x7,
    check <- x8, conflict <- x9, op <- x10, noting <- x11, seen <- x12, noted <- x13, behind <- x14,
    events <- x15

Todo == INSTANCE ActionItems WITH
    Sessions <- {"s1"}, Items <- {"i1", "i2"}, Texts <- {"", "a"}, Visible <- {FALSE}, MaxOps <- 2,
    row <- x1, open <- x2, loaded <- x3, load <- x4, panel <- x5, draft <- x6, edit <- x7,
    asking <- x8, busy <- x9, ops <- x10, outdated <- x11

Todos == INSTANCE ActionItems WITH
    Sessions <- {"s1", "s2"}, Items <- {"i1"}, Texts <- {"", "a"}, Visible <- BOOLEAN, MaxOps <- 1,
    row <- x1, open <- x2, loaded <- x3, load <- x4, panel <- x5, draft <- x6, edit <- x7,
    asking <- x8, busy <- x9, ops <- x10, outdated <- x11

ASSUME InstancesAssumption ==
    /\ Answering!PageAssumption /\ Filling!PageAssumption /\ Booking!PageAssumption
    /\ Again!PageAssumption
    /\ Reminding!MailAssumption /\ Inviting!MailAssumption
    /\ Retrying!MailAssumption /\ Editing!MailAssumption
    /\ Moving!DetailAssumption /\ Choosing!DetailAssumption /\ Ending!DetailAssumption
    /\ Sheet!AttendanceAssumption
    /\ Noting!EditorAssumption /\ Todo!ItemsAssumption /\ Todos!ItemsAssumption

-----------------------------------------------------------------------------
(* One page is open, and it is opened afresh. *)

Rest0 == <<x1, x2, x3, x4, x5, x6, x7, x8, x9, x10, x11, x12, x13, x14, x15>>
Rest10 == <<x11, x12, x13, x14, x15>>
Rest11 == <<x12, x13, x14, x15>>
Rest13 == <<x14, x15>>
Rest14 == <<x15>>

NoRest14 == x15 = None
NoRest13 == x14 = None /\ NoRest14
NoRest11 == x12 = None /\ x13 = None /\ NoRest13
NoRest10 == x11 = None /\ NoRest11
NoRest0 == x1 = None /\ x2 = None /\ x3 = None /\ x4 = None /\ x5 = None /\ x6 = None
          /\ x7 = None /\ x8 = None /\ x9 = None /\ x10 = None /\ NoRest10

\* No document of the customer's is open, and there is nothing to change.
NoLink == /\ booking = [b \in Bookings |-> [status |-> "cancelled", slot |-> None, moved |-> FALSE]]
          /\ others = {} /\ late = FALSE /\ moves = [b \in Bookings |-> 0]
          /\ page = [t \in Tabs |-> Blank]
\* A booking to move: confirmed and paid, of sessions that have not begun.
ToMove == /\ x1 = [status |-> "confirmed", approval |-> FALSE, unpaid |-> FALSE, session |-> "s1"]
          /\ x2 = {}

\* A session with a note, to note on.
ToNote == x1["s1"] = [start |-> "t1", status |-> "scheduled", note |-> "n1"]

\* Two action items, neither of them done.
TwoItems == \A i \in {"i1", "i2"} : x1[i] # None /\ ~x1[i].done

PagesInit ==
    \/ at = "link" /\ Init /\ NoRest0
    \/ at = "answering" /\ Answering!Init /\ NoLink /\ NoRest14
    \/ at = "filling" /\ Filling!Init /\ NoLink /\ NoRest14
    \/ at = "booking" /\ Booking!Init /\ NoLink /\ NoRest14
    \/ at = "again" /\ Again!Init /\ NoLink /\ NoRest14
    \/ at = "reminding" /\ Reminding!Init /\ NoLink /\ NoRest13
    \/ at = "inviting" /\ Inviting!Init /\ NoLink /\ NoRest13
    \/ at = "retrying" /\ Retrying!Init /\ NoLink /\ NoRest13
    \/ at = "editing" /\ Editing!Init /\ NoLink /\ NoRest13
    \/ at = "demo" /\ Demo!Init /\ NoLink /\ NoRest10
    \/ at = "moving" /\ Moving!Init /\ ToMove /\ NoLink
    \/ at = "choosing" /\ Choosing!Init /\ ToMove /\ NoLink
    \/ at = "ending" /\ Ending!Init /\ NoLink
    \/ at = "sheet" /\ Sheet!Init /\ NoLink /\ NoRest10
    \/ at = "noting" /\ Noting!Init /\ ToNote /\ NoLink
    \/ at = "todo" /\ Todo!Init /\ TwoItems /\ NoLink /\ NoRest11
    \/ at = "todos" /\ Todos!Init /\ NoLink /\ NoRest11

\* What is not of the page that is open stays as it is.
Apart ==
    /\ UNCHANGED at
    /\ CASE at = "link" -> UNCHANGED Rest0
         [] at \in {"demo", "sheet"} -> UNCHANGED vars /\ UNCHANGED Rest10
         [] at \in {"todo", "todos"} -> UNCHANGED vars /\ UNCHANGED Rest11
         [] at \in {"reminding", "inviting", "retrying", "editing"} -> UNCHANGED vars /\ UNCHANGED Rest13
         [] at \in {"answering", "filling", "booking", "again"} -> UNCHANGED vars /\ UNCHANGED Rest14
         [] OTHER -> UNCHANGED vars

\* Bounds on three parts.  With two requests on their way the customer only walks on, or reloads the
\* page at its last step, and stays on it.  A session that is noted on is not also being cancelled:
\* the calendar of MCWorkspacePages has that.  Of two action items neither is new, and their panel is
\* left when nothing is under way: the part with one item has both.
Onward == /\ x1' # "away"
          /\ \/ Booking!Index(x4') >= Booking!Index(x4)
             \/ x4' = "service" /\ x4 = "pay"
Kept == x7' = FALSE
NothingNew == x6' = "" /\ (x5' \/ x10 = {})

PagesNext ==
    \/ at = "link" /\ Next /\ Apart
    \/ at = "answering" /\ Answering!Next /\ Apart
    \/ at = "filling" /\ Filling!Next /\ Apart
    \/ at = "booking" /\ Booking!Next /\ Onward /\ Apart
    \/ at = "again" /\ Again!Next /\ Apart
    \/ at = "reminding" /\ Reminding!Next /\ Apart
    \/ at = "inviting" /\ Inviting!Next /\ Apart
    \/ at = "retrying" /\ Retrying!Next /\ Apart
    \/ at = "editing" /\ Editing!Next /\ Apart
    \/ at = "demo" /\ Demo!Next /\ Apart
    \/ at = "moving" /\ Moving!Next /\ Apart
    \/ at = "choosing" /\ Choosing!Next /\ Apart
    \/ at = "ending" /\ Ending!Next /\ Apart
    \/ at = "sheet" /\ Sheet!Next /\ Apart
    \/ at = "noting" /\ Noting!Next /\ Kept /\ Apart
    \/ at = "todo" /\ Todo!Next /\ NothingNew /\ Apart
    \/ at = "todos" /\ Todos!Next /\ Apart

allVars == <<at, vars, Rest0>>
PagesSpec == PagesInit /\ [][PagesNext]_allVars

-----------------------------------------------------------------------------
(* Properties: what the modules promise of their pages, by theme.          *)

\* The variables of the page that is open are of their types (vars of each module).
TypesOK ==
    /\ at = "link" => TypeOK
    /\ at = "answering" => Answering!TypeOK
    /\ at = "filling" => Filling!TypeOK
    /\ at = "booking" => Booking!TypeOK
    /\ at = "again" => Again!TypeOK
    /\ at = "reminding" => Reminding!TypeOK
    /\ at = "inviting" => Inviting!TypeOK
    /\ at = "retrying" => Retrying!TypeOK
    /\ at = "editing" => Editing!TypeOK
    /\ at = "demo" => Demo!TypeOK
    /\ at = "moving" => Moving!TypeOK
    /\ at = "choosing" => Choosing!TypeOK
    /\ at = "ending" => Ending!TypeOK
    /\ at = "sheet" => Sheet!TypeOK
    /\ at = "noting" => Noting!TypeOK
    /\ at = "todo" => Todo!TypeOK
    /\ at = "todos" => Todos!TypeOK

\* What is done once. A customer who presses again has no more bookings than confirmations that
\* were not shown (an answer that was lost, a page that was left, a press while the confirmation was
\* on its way), and one: each press has a key of its own, so one that repeats a booking whose answer
\* was lost does book again. A dialog of the operator's, which keeps its key, moves the booking
\* at most once, whatever is lost; and overlapping runs of the job remind at most once.
DoneOnce ==
    /\ at = "answering" => Answering!BookedOnce
    /\ at = "filling" => Filling!BookedOnce
    /\ at = "booking" => Booking!BookedOnce
    /\ at = "again" => Again!BookedOnce
    /\ at = "moving" => Moving!MovesOnce
    /\ at = "choosing" => Choosing!MovesOnce
    /\ at = "reminding" => Reminding!OneReminder
    /\ at = "editing" => Editing!OneReminder

\* Once everything is answered, a page of the operator's shows what the server has. Not promised
\* is, of the attendance, a row whose answer was lost, that was marked again while it was busy or
\* had its request on its way as the tab was opened, that the roll-back of another row's request took
\* along, or whose own request "mark all" stopped waiting for; of a booking or the calendar, anything
\* after somebody else's change, a lost answer, or a load that was overtaken; and of the action
\* items, one that two requests were about, whose answer was lost, or that another operation put
\* back as it was when that began. Every other row and item is current.
ShowsWhatTheServerHas ==
    /\ at = "sheet" => Sheet!RowsFollowServer
    /\ at = "moving" => Moving!ShowsServer
    /\ at = "choosing" => Choosing!ShowsServer
    /\ at = "ending" => Ending!ShowsServer
    /\ at = "noting" => Noting!BoardFollows /\ Noting!NoteStays
    /\ at = "todo" => Todo!SettledIsCurrent
    /\ at = "todos" => Todos!ItemsOfTheOpen /\ Todos!SettledIsCurrent


\* However the customer walks back and forth and reloads, a booking request is complete, a draft is
\* stored as it is typed, and on the demo's page no answer given before the payment is edited. A
\* required question is answered if its form was there when the customer went past its step;
\* without the answer a booking is made only then, and only of a question that is not due before
\* the payment (GatedOnRequired below is what the documentation says).
AnswersGoAlong ==
    /\ at = "answering" => /\ Answering!SentComplete /\ Answering!RequiredAnswered /\ Answering!BookedAnswered
                           /\ Answering!DraftIsStored
    /\ at = "filling" => /\ Filling!SentComplete /\ Filling!RequiredAnswered /\ Filling!BookedAnswered
                         /\ Filling!DraftIsStored
    /\ at = "booking" => Booking!SentComplete /\ Booking!DraftIsStored
    /\ at = "again" => Again!SentComplete /\ Again!DraftIsStored
    /\ at = "demo" => Demo!AnswersKept

\* Three kinds of step that must not come late. An outcome is recorded only when the session has
\* started, unless the booking was moved to another session than the operator saw: the server does
\* not ask. A mark that is recorded is the one chosen last for its row, but for the
\* rows that the attendance is not promised for either: one that was freed while its request was on
\* its way can be marked anew, and the older request may be recorded after that. And a save of a
\* session's details leaves alone the note that was saved from its drawer, unless the form started over.
StepsAreMeant ==
    [][/\ at = "ending" => Ending!OutcomeAsShownStep
       /\ at = "moving" => Moving!OutcomeAsShownStep
       /\ at = "choosing" => Choosing!OutcomeAsShownStep
       /\ at = "sheet" => Sheet!OnlyTheNewestStep
       /\ at = "noting" => Noting!SaveKeepsNoteStep]_allVars

-----------------------------------------------------------------------------
(* Of the booking page alone. *)

FillingSpec == PagesInit /\ at = "filling" /\ [][PagesNext]_allVars

\* "A conditional Forms step appears [...] and is gated on required fields before payment"
\* (docs/PRODUCT.md:430): nothing is booked without the answer to a required question.
GatedOnRequired == at = "filling" => Filling!GatedOnRequired
=============================================================================
