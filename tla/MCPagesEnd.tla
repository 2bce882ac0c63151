------------------------ MODULE MCPagesEnd ------------------------
(***************************************************************************)
(* What must come to an end on the pages: every request settles, one way   *)
(* or the other, and then its continuation runs (for TLC).                 *)
(*                                                                         *)
(* As in MCBookingPages a behaviour is one of one page: at names it, and   *)
(* x1, ..., x15 are its variables in the order of its module.  The cached  *)
(* timezone keeps the names it has in WorkspaceCache; its constants are in *)
(* the configuration.                                                      *)
(***************************************************************************)
EXTENDS WorkspaceCache, Integers, TLC

VARIABLES at,  \* the page that is open, or the part of it
          x1, x2, x3, x4, x5, x6, x7, x8, x9, x10, x11, x12, x13, x14, x15  \* its variables

CONSTANTS ann, pat

AllClients == [t \in 1 .. 2 |-> "client"]

\* The pages of visitors and customers.
Guarded == INSTANCE WebSession WITH
    Users <- {ann, pat}, Staff <- {pat}, Tabs <- {"t1"}, MaxSessions <- 1,
    Forms <- {"reset", "change", "close"}, Slots <- {"c1"},
    cookie <- x1, stored <- x2, owner <- x3, tab <- x4, calls <- x5, resting <- x6

SigningUp == INSTANCE SignUp WITH
    Emails <- {"e1"}, Slugs <- {"a", "b"}, LinkLimit <- 1, MaxChecks <- 1,
    owner <- x1, mailed <- x2, asked <- x3, page <- x4, email <- x5, slug <- x6, edited <- x7,
    taken <- x8, loading <- x9, checks <- x10, request <- x11, sentTo <- x12

Booking == INSTANCE BookingPage WITH
    Workspaces <- {"w"}, Services <- {"a"}, Starts <- {"t"}, WorkspaceOf <- [s \in {"a"} |-> "w"],
    FormOf <- [s \in {"a"} |-> None], Offered <- {<<"a", "t">>}, FreeServices <- {},
    Slots <- {"c1"}, MaxMade <- 1,
    place <- x1, ws <- x2, settings <- x3, step <- x4, draft <- x5, asked <- x6, loaded <- x7,
    submitting <- x8, leaving <- x9, stored <- x10, calls <- x11, made <- x12, unshown <- x13,
    unseen <- x14

Link == INSTANCE ManageLink WITH
    Tabs <- {"t1"}, Bookings <- {"b1"}, Links <- {"b1", "bad"}, Slots <- {"s1"}, Notice <- {"s1"},
    BadLink <- "bad",
    booking <- x1, others <- x2, late <- x3, moves <- x4, page <- x5

Demo == INSTANCE ManageDemo WITH
    Required <- {"intake"}, Optional <- {"notes", "update"}, Texts <- {"", "a"}, MaxTimers <- 2,
    page <- x1, copied <- x2, timers <- x3, tab <- x4, formValues <- x5, completed <- x6,
    openFormId <- x7, message <- x8, dialog <- x9, saved <- x10

Contact == INSTANCE ContactForms WITH
    Texts <- {"", "a"}, Presets <- {""}, persist <- TRUE, dataSource <- "api", Limit <- 1,
    MaxSends <- 1,
    contact <- x1, preset <- x2, pilot <- x3, sends <- x4, used <- x5, inbox <- x6

\* The operator's.
FirstSteps == INSTANCE Onboarding WITH
    MaxServices <- 1, MaxFinishes <- 1,
    server <- x1, screen <- x2, read <- x3, ready <- x4, step <- x5, form <- x6, busy <- x7,
    saving <- x8, finishing <- x9, had <- x10, made <- x11

Closing == INSTANCE WorkspaceClosure WITH
    Tabs <- {"t1"},
    ws <- x1, cause <- x2, spared <- x3, session <- x4, signing <- x5, card <- x6, tab <- x7

Places == INSTANCE SettingsPanels WITH
    Locations <- {"l1"}, MaxEdits <- 1, Slots <- {"c1"},
    server <- x1, page <- x2, draft <- x3, saving <- x4, card <- x5, calls <- x6, edits <- x7,
    stale <- x8

Sheet == INSTANCE AttendanceSheet WITH
    Bookings <- {"b1"}, Marks <- {"present", "late"}, Present <- "present", MaxPresses <- 2,
    Slots <- {"c1"},
    server <- x1, rows <- x2, busyIds <- x3, load <- x4, calls <- x5, snapshot <- x6, presses <- x7,
    meant <- x8, excused <- x9, shared <- x10

Detail == INSTANCE BookingDetail WITH
    Sessions <- {"s1", "s2"}, MaxKeys <- 1, MaxEvents <- 0, Slots <- {"c1"},
    server <- x1, started <- x2, keys <- x3, booking <- x4, session <- x5, error <- x6, load <- x7,
    dialog <- x8, moving <- x9, busy <- x10, calls <- x11, fresh <- x12, twice <- x13,
    behind <- x14, events <- x15

Editor == INSTANCE SessionEditor WITH
    Ids <- {"s1"}, Starts <- {"t1"}, Notes <- {"n1"}, MaxNotes <- 1, MaxEvents <- 0,
    server <- x1, late <- x2, board <- x3, loading <- x4, drawer <- x5, form <- x6, confirm <- x7,
    check <- x8, conflict <- x9, op <- x10, noting <- x11, seen <- x12, noted <- x13, behind <- x14,
    events <- x15

ServiceList == INSTANCE Catalog WITH
    Ids <- {"s1"}, Names <- {"n1"}, Blank <- "blank", Kind <- "service", MaxLoads <- 1,
    MaxEvents <- 0,
    server <- x1, used <- x2, list <- x3, error <- x4, filter <- x5, loads <- x6, drawer <- x7,
    form <- x8, confirm <- x9, op <- x10, seen <- x11, order <- x12, behind <- x13, events <- x14

ForClient == INSTANCE OperatorForms WITH
    Clients <- {"c1"}, Sessions <- {"s1"}, Capacity <- 2, MaxKeys <- 2,
    booked <- x1, others <- x2, off <- x3, keys <- x4, lists <- x5, drawer <- x6, busy <- x7,
    op <- x8, view <- x9, told <- x10

Client == INSTANCE ClientRecord WITH
    Clients <- {"c1"}, Emails <- {"e1"}, Details <- {"d1"}, MaxOps <- 1,
    row <- x1, page <- x2, drawer <- x3, dialog <- x4, ops <- x5, behind <- x6

Writing == INSTANCE ClientNotes WITH
    Notes <- {"n1"}, Texts <- {"", "a"}, MaxOps <- 1,
    row <- x1, list <- x2, load <- x3, form <- x4, confirm <- x5, ops <- x6, behind <- x7

Todo == INSTANCE ActionItems WITH
    Sessions <- {"s1"}, Items <- {"i1"}, Texts <- {"", "a"}, Visible <- {FALSE}, MaxOps <- 2,
    row <- x1, open <- x2, loaded <- x3, load <- x4, panel <- x5, draft <- x6, edit <- x7,
    asking <- x8, busy <- x9, ops <- x10, outdated <- x11

Feed == INSTANCE CalendarFeed WITH
    Tabs <- {"t1"}, Links <- {"l1", "l2"}, MaxCalls <- 2,
    card <- x1, calls <- x2, live <- x3, issued <- x4, crossed <- x5

Search == INSTANCE WorkspaceSearch WITH
    Things <- {1, 2}, KindOf <- AllClients, Queries <- {"", "a"}, Matches <- {"title", "none"},
    Limit <- 2, Surface <- "palette", dataSource <- "api",
    hit <- x1, open <- x2, query <- x3, active <- x4, request <- x5, answer <- x6, index <- x7,
    went <- x8

Inbox == INSTANCE InquiryInbox WITH
    Inquiries <- {"q1"}, Business <- {"q1"}, Typed <- {"f"}, MaxOps <- 2, CanLose <- TRUE,
    read <- x1, workspaces <- x2, items <- x3, openId <- x4, promoting <- x5, form <- x6,
    busy <- x7, ops <- x8

ASSUME InstancesAssumption ==
    /\ Guarded!WebAssumption /\ SigningUp!SignUpAssumption /\ Booking!PageAssumption
    /\ Contact!FormsAssumption /\ FirstSteps!OnboardingAssumption /\ Places!SettingsAssumption
    /\ Sheet!AttendanceAssumption /\ Detail!DetailAssumption /\ Editor!EditorAssumption
    /\ ServiceList!CatalogAssumption /\ Client!ClientsAssumption /\ Writing!NotesAssumption
    /\ Todo!ItemsAssumption /\ Feed!FeedAssumption /\ Search!SearchAssumption
    /\ Inbox!InboxAssumption

-----------------------------------------------------------------------------
(* One page is open, and it is opened afresh. *)

Rest0 == <<x1, x2, x3, x4, x5, x6, x7, x8, x9, x10, x11, x12, x13, x14, x15>>
Rest5 == <<x6, x7, x8, x9, x10, x11, x12, x13, x14, x15>>
Rest6 == <<x7, x8, x9, x10, x11, x12, x13, x14, x15>>
Rest7 == <<x8, x9, x10, x11, x12, x13, x14, x15>>
Rest8 == <<x9, x10, x11, x12, x13, x14, x15>>
Rest10 == <<x11, x12, x13, x14, x15>>
Rest11 == <<x12, x13, x14, x15>>
Rest12 == <<x13, x14, x15>>
Rest14 == <<x15>>

NoRest14 == x15 = None
NoRest12 == x13 = None /\ x14 = None /\ NoRest14
NoRest11 == x12 = None /\ NoRest12
NoRest10 == x11 = None /\ NoRest11
NoRest8 == x9 = None /\ x10 = None /\ NoRest10
NoRest7 == x8 = None /\ NoRest8
NoRest6 == x7 = None /\ NoRest7
NoRest5 == x6 = None /\ NoRest6
NoRest0 == x1 = None /\ x2 = None /\ x3 = None /\ x4 = None /\ x5 = None /\ NoRest5

\* Nothing shows a time.
NoTimes == Init

\* A booking to move: confirmed and paid, of sessions that have not begun.
ToMove == /\ x1 = [status |-> "confirmed", approval |-> FALSE, unpaid |-> FALSE, session |-> "s1"]
          /\ x2 = {}

\* A service that no session refers to, to edit.
ToEdit == x1["s1"] # None /\ x1["s1"].active /\ x2 = {}

\* A session with a note, to note on.
ToNote == x1["s1"] = [start |-> "t1", status |-> "scheduled", note |-> "n1"] /\ x2 = FALSE

\* An item to edit and to delete; boxes and eyes, which set no button busy, are left alone.
ToDo == x1["i1"] # None /\ ~x1["i1"].done
OnlyBusy == \A o \in x10' : o.kind \in Todo!SetsBusy

PagesInit ==
    \/ at = "cache" /\ Init /\ NoRest0
    \/ at = "guarded" /\ Guarded!Init /\ NoTimes /\ NoRest6
    \/ at = "signup" /\ SigningUp!Init /\ NoTimes /\ NoRest12
    \/ at = "booking" /\ Booking!Init /\ NoTimes /\ NoRest14
    \/ at = "link" /\ Link!Init /\ NoTimes /\ NoRest5
    \/ at = "demo" /\ Demo!Init /\ NoTimes /\ NoRest10
    \/ at = "contact" /\ Contact!Init /\ NoTimes /\ NoRest6
    \/ at = "onboarding" /\ FirstSteps!Init /\ NoTimes /\ NoRest11
    \/ at = "closing" /\ Closing!Init /\ NoTimes /\ NoRest7
    \/ at = "places" /\ Places!Init /\ NoTimes /\ NoRest8
    \/ at = "sheet" /\ Sheet!Init /\ NoTimes /\ NoRest10
    \/ at = "detail" /\ Detail!Init /\ ToMove /\ NoTimes
    \/ at = "editor" /\ Editor!Init /\ ToNote /\ NoTimes
    \/ at = "services" /\ ServiceList!Init /\ ToEdit /\ NoTimes /\ NoRest14
    \/ at = "for_client" /\ ForClient!Init /\ NoTimes /\ NoRest10
    \/ at = "client" /\ Client!Init /\ NoTimes /\ NoRest6
    \/ at = "writing" /\ Writing!Init /\ NoTimes /\ NoRest7
    \/ at = "todo" /\ Todo!Init /\ ToDo /\ NoTimes /\ NoRest11
    \/ at = "feed" /\ Feed!Init /\ NoTimes /\ NoRest5
    \/ at = "search" /\ Search!Init /\ NoTimes /\ NoRest8
    \/ at = "inbox" /\ Inbox!Init /\ NoTimes /\ NoRest8

\* What is not of the page that is open stays as it is.
Apart ==
    /\ UNCHANGED at
    /\ CASE at = "cache" -> UNCHANGED Rest0
         [] at \in {"link", "feed"} -> UNCHANGED vars /\ UNCHANGED Rest5
         [] at \in {"guarded", "contact", "client"} -> UNCHANGED vars /\ UNCHANGED Rest6
         [] at \in {"closing", "writing"} -> UNCHANGED vars /\ UNCHANGED Rest7
         [] at \in {"places", "search", "inbox"} -> UNCHANGED vars /\ UNCHANGED Rest8
         [] at \in {"demo", "sheet", "for_client"} -> UNCHANGED vars /\ UNCHANGED Rest10
         [] at \in {"onboarding", "todo"} -> UNCHANGED vars /\ UNCHANGED Rest11
         [] at = "signup" -> UNCHANGED vars /\ UNCHANGED Rest12
         [] at \in {"booking", "services"} -> UNCHANGED vars /\ UNCHANGED Rest14
         [] OTHER -> UNCHANGED vars

PagesNext ==
    \/ at = "cache" /\ Next /\ Apart
    \/ at = "guarded" /\ (Guarded!Next \/ Guarded!Rest) /\ Apart
    \/ at = "signup" /\ SigningUp!Next /\ Apart
    \/ at = "booking" /\ Booking!Next /\ Apart
    \/ at = "link" /\ Link!Next /\ Apart
    \/ at = "demo" /\ Demo!Next /\ Apart
    \/ at = "contact" /\ Contact!Next /\ Apart
    \/ at = "onboarding" /\ FirstSteps!Next /\ Apart
    \/ at = "closing" /\ Closing!Next /\ Apart
    \/ at = "places" /\ Places!Next /\ Apart
    \/ at = "sheet" /\ Sheet!Next /\ Apart
    \/ at = "detail" /\ Detail!Next /\ Apart
    \/ at = "editor" /\ Editor!Next /\ Apart
    \/ at = "services" /\ ServiceList!Next /\ Apart
    \/ at = "for_client" /\ ForClient!Next /\ Apart
    \/ at = "client" /\ Client!Next /\ Apart
    \/ at = "writing" /\ Writing!Next /\ Apart
    \/ at = "todo" /\ Todo!Next /\ OnlyBusy /\ Apart
    \/ at = "feed" /\ Feed!Next /\ Apart
    \/ at = "search" /\ Search!Next /\ Apart
    \/ at = "inbox" /\ Inbox!Next /\ Apart

allVars == <<at, vars, Rest0>>
\* What settles on the page that is open, by the fairness of its module: the requests that the
\* page waits for are answered or fail, and what waits for them goes on. A page has up to 7 of these.
Settling(n) ==
    CASE n = 1 -> \/ at = "guarded" /\ (Guarded!Serve("c1") \/ Guarded!Lose("c1")) /\ UNCHANGED x6
                  \/ at = "signup" /\ (SigningUp!signup \/ SigningUp!request_password_reset \/ SigningUp!Lost)
                  \/ at = "booking" /\ (Booking!ServerBooks("c1") \/ Booking!ServerRefuses("c1"))
                  \/ at = "link" /\ (Link!Loaded("t1") \/ Link!LoadFailed("t1"))
                  \/ at = "demo" /\ Demo!CopiedTimeout
                  \/ at = "contact" /\ \E s \in Contact!Sends : s \in x4 /\ (Contact!Answered(s) \/ Contact!Failed(s))
                  \/ at = "onboarding" /\ FirstSteps!Serve
                  \/ at = "closing" /\ (Closing!Closed \/ Closing!Refused)
                  \/ at = "places" /\ (Places!Serve("c1") \/ Places!Refuse("c1"))
                  \/ at = "sheet" /\ (Sheet!Serve("c1") \/ Sheet!Refuse("c1"))
                  \/ at = "detail" /\ (Detail!Serve("c1") \/ Detail!Replay("c1") \/ Detail!Refuse("c1"))
                  \/ at = "editor" /\ (Editor!Serve \/ Editor!Refuse)
                  \/ at = "services" /\ (ServiceList!Serve \/ ServiceList!Refuse)
                  \/ at = "for_client" /\ (ForClient!Created \/ ForClient!Failed)
                  \/ at = "client" /\ Client!loadDetail
                  \/ at = "writing" /\ Writing!listClientNotes
                  \/ at = "todo" /\ Todo!listActionItemsForSession
                  \/ at = "feed" /\ \E c \in Feed!Of("t1") : Feed!Answer(c)
                  \/ at = "search" /\ Search!getSearchIndex
                  \/ at = "inbox" /\ \E o \in x8 : o.kind = "provision" /\ (Inbox!Serves(o) \/ Inbox!Answers(o))
      [] n = 2 -> \/ at = "guarded" /\ Guarded!Arrive("c1") /\ UNCHANGED x6
                  \/ at = "signup" /\ (SigningUp!Accepted \/ SigningUp!Refused \/ SigningUp!ResetAccepted)
                  \/ at = "booking" /\ Booking!Hearing
                  \/ at = "link" /\ (Link!Succeeded("t1") \/ Link!Failed("t1"))
                  \/ at = "onboarding" /\ FirstSteps!Answer
                  \/ at = "closing" /\ (Closing!Answered("t1") \/ Closing!Failed("t1"))
                  \/ at = "places" /\ Places!ServeList("c1")
                  \/ at = "sheet" /\ Sheet!RowSettles("c1")
                  \/ at = "detail" /\ Detail!Settle("c1")
                  \/ at = "editor" /\ Editor!Succeeded
                  \/ at = "services" /\ (ServiceList!Switched \/ ServiceList!Succeeded \/ ServiceList!Failed)
                  \/ at = "for_client" /\ (ForClient!loadAll \/ ForClient!LoadFailed)
                  \/ at = "client" /\ Client!Loaded
                  \/ at = "writing" /\ Writing!ListArrives
                  \/ at = "todo" /\ Todo!ListArrives
                  \/ at = "search" /\ (Search!Answered \/ Search!Failed)
      [] n = 3 -> \/ at = "booking" /\ Booking!Navigate
                  \/ at = "onboarding" /\ FirstSteps!completeOnboarding
                  \/ at = "closing" /\ Closing!ThirtyDays
                  \/ at = "places" /\ Places!Arrive("c1")
                  \/ at = "sheet" /\ Sheet!Unheard("c1")
                  \/ at = "editor" /\ Editor!Failed
                  \/ at = "services" /\ (ServiceList!ReadList \/ ServiceList!LoseList)
                  \/ at = "for_client" /\ (ForClient!Settled \/ ForClient!LoadFailed)
                  \/ at = "client" /\ \E o \in x5 : o.kind = "save" /\ (Client!Saved(o) \/ Client!Failed(o))
                  \/ at = "writing" /\ \E o \in x6 : Writing!Answered(o) \/ Writing!Failed(o)
                  \/ at = "todo" /\ \E o \in x10 : o.kind \in Todo!SetsBusy /\ o.left = "no" /\ (Todo!Answered(o) \/ Todo!Failed(o))
      [] n = 4 -> \/ at = "onboarding" /\ FirstSteps!Finished
                  \/ at = "closing" /\ Closing!purge_closed
                  \/ at = "sheet" /\ Sheet!LoadRead
                  \/ at = "editor" /\ (Editor!ServeNote \/ Editor!RefuseNote)
                  \/ at = "services" /\ ServiceList!ListArrives
                  \/ at = "client" /\ \E o \in x5 : o.kind # "save" /\ o.here /\ (Client!Answered(o) \/ Client!Failed(o))
      [] n = 5 -> \/ at = "sheet" /\ Sheet!LoadArrives
                  \/ at = "editor" /\ Editor!NoteSaved
      [] n = 6 -> at = "sheet" /\ Sheet!AllDone
      [] n = 7 -> at = "sheet" /\ Sheet!AllFailed

PagesSpec ==
    /\ PagesInit /\ [][PagesNext]_allVars
    /\ \A p \in Loads : /\ WF_allVars(at = "cache" /\ ServerAnswers(p) /\ Apart)
                        /\ WF_allVars(at = "cache" /\ (Resolve(p) \/ Reject(p)) /\ Apart)
    /\ \A n \in 1 .. 7 : WF_allVars(Settling(n) /\ Apart)

-----------------------------------------------------------------------------
(* Properties. *)

\* The parts of the page that are busy.
Awaited ==
    CASE at = "signup" -> SigningUp!Awaited
      [] at = "booking" -> Booking!Awaited
      [] at = "link" -> Link!Awaited
      [] at = "demo" -> Demo!Awaited
      [] at = "contact" -> Contact!Awaited
      [] at = "onboarding" -> FirstSteps!Awaited
      [] at = "closing" -> Closing!Awaited
      [] at = "places" -> Places!Awaited
      [] at = "editor" -> Editor!Awaited
      [] at = "services" -> ServiceList!Awaited
      [] at = "for_client" -> ForClient!Awaited
      [] at = "client" -> Client!Awaited
      [] at = "writing" -> Writing!Awaited
      [] at = "todo" -> Todo!Awaited
      [] at = "feed" -> Feed!Awaited
      [] at = "search" -> Search!Awaited
      [] at = "inbox" -> Inbox!Awaited
      [] at = "sheet" -> x3
      [] at = "detail" -> x10
      [] OTHER -> {}

\* Every button, row or list that waits for an answer gets it, or goes away: whatever is lost,
\* refused or left, no part of a page is busy for good.
ButtonsComeBack ==
    \A p \in {"save", "remove", "note", "list", "apply", "copied", "t1", "b1",
             "dialog", "move", "card"} : []<>(p \notin Awaited)

\* Asked, and settled: a closed workspace is deleted unless it was reactivated, skipping leads to
\* the dashboard, a booking the operator was told of is listed, the customer's page shows the
\* booking or says why not, each unless the page says that it could not load.
Asked(k) ==
    CASE at = "closing" -> Closing!Expected
      [] at = "onboarding" -> FirstSteps!Expected
      [] at = "for_client" -> ForClient!Expected(k)
      [] at = "link" -> Link!Expected("t1")
      [] OTHER -> FALSE
Answered(k) ==
    CASE at = "closing" -> Closing!Fulfilled
      [] at = "onboarding" -> FirstSteps!Fulfilled
      [] at = "for_client" -> ForClient!Fulfilled(k)
      [] at = "link" -> Link!Fulfilled("t1")
      [] OTHER -> TRUE

\* What was asked of the server is settled in the end, and the redirects between homes, unlisted
\* pages and the sign-in page end.
AskedIsSettled == /\ \A k \in 1 .. 2 : Asked(k) ~> Answered(k)
                  /\ <>[]((at = "guarded" /\ x6) => Guarded!Fulfilled)
=============================================================================
