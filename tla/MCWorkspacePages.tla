------------------------ MODULE MCWorkspacePages ------------------------
(***************************************************************************)
(* The pages on which an operator signs up, sets a workspace up and looks  *)
(* after its sessions, forms and clients, for TLC.                         *)
(*                                                                         *)
(* As in MCBookingPages a behaviour is one of one page: at names it, and   *)
(* x1, ..., x15 are its variables in the order of its module.  The drawer  *)
(* that books for a client keeps the names it has in OperatorForms; its    *)
(* constants are in the configuration.                                     *)
(***************************************************************************)
EXTENDS OperatorForms, Integers, TLC

VARIABLES at,  \* the page that is open, or the part of it
          x1, x2, x3, x4, x5, x6, x7, x8, x9, x10, x11, x12, x13, x14, x15  \* its variables

CONSTANTS ann, pat

\* Thing 3 is a page of the workspace, the others are clients.
PageAndClients == [t \in 1 .. 3 |-> IF t = 3 THEN "navigation" ELSE "client"]

\* January and February; hours around midnight UTC at the turn of January, one in the morning.
TwoMonths == <<31, 28>>
AroundMidnight == {743, 751}

\* The clocks change in the night of day 7, a Sunday, on both sides of UTC.
BerlinSpring == [before |-> 1, after |-> 2, jump |-> 169]
NewYorkAutumn == [before |-> -4, after |-> -5, jump |-> 174]

\* Two tabs in which an operator and one of the staff sign in and out.
Signing == INSTANCE WebSession WITH
    Users <- {ann, pat}, Staff <- {pat}, Tabs <- {"t1", "t2"}, MaxSessions <- 2, Forms <- {},
    Slots <- {"c1"},
    cookie <- x1, stored <- x2, owner <- x3, tab <- x4, calls <- x5, resting <- x6

Resetting == INSTANCE WebSession WITH
    Users <- {ann}, Staff <- {}, Tabs <- {"t1"}, MaxSessions <- 2,
    Forms <- {"reset", "change", "close"}, Slots <- {"c1", "c2"},
    cookie <- x1, stored <- x2, owner <- x3, tab <- x4, calls <- x5, resting <- x6

\* The sign-up, the first steps in a workspace, and its end.
SigningUp == INSTANCE SignUp WITH
    Emails <- {"e1"}, Slugs <- {"a", "b"}, LinkLimit <- 1, MaxChecks <- 1,
    owner <- x1, mailed <- x2, asked <- x3, page <- x4, email <- x5, slug <- x6, edited <- x7,
    taken <- x8, loading <- x9, checks <- x10, request <- x11, sentTo <- x12

Asking == INSTANCE SignUp WITH
    Emails <- {"e1", "e2"}, Slugs <- {"a"}, LinkLimit <- 1, MaxChecks <- 1,
    owner <- x1, mailed <- x2, asked <- x3, page <- x4, email <- x5, slug <- x6, edited <- x7,
    taken <- x8, loading <- x9, checks <- x10, request <- x11, sentTo <- x12

FirstSteps == INSTANCE Onboarding WITH
    MaxServices <- 1, MaxFinishes <- 1,
    server <- x1, screen <- x2, read <- x3, ready <- x4, step <- x5, form <- x6, busy <- x7,
    saving <- x8, finishing <- x9, had <- x10, made <- x11

Closing == INSTANCE WorkspaceClosure WITH
    Tabs <- {"t1"},
    ws <- x1, cause <- x2, spared <- x3, session <- x4, signing <- x5, card <- x6, tab <- x7

\* The panels of the settings, and again with the page left meanwhile, and the places of the
\* business.
Panels == INSTANCE SettingsPanels WITH
    Locations <- {}, MaxEdits <- 1, Slots <- {"c1", "c2"},
    server <- x1, page <- x2, draft <- x3, saving <- x4, card <- x5, calls <- x6, edits <- x7,
    stale <- x8

Leaving == INSTANCE SettingsPanels WITH
    Locations <- {}, MaxEdits <- 1, Slots <- {"c1", "c2"},
    server <- x1, page <- x2, draft <- x3, saving <- x4, card <- x5, calls <- x6, edits <- x7,
    stale <- x8

Places == INSTANCE SettingsPanels WITH
    Locations <- {"l1"}, MaxEdits <- 1, Slots <- {"c1", "c2"},
    server <- x1, page <- x2, draft <- x3, saving <- x4, card <- x5, calls <- x6, edits <- x7,
    stale <- x8

\* The catalog, and the editors of packages and forms.
ServiceList == INSTANCE Catalog WITH
    Ids <- {"s1"}, Names <- {"n1"}, Blank <- "blank", Kind <- "service", MaxLoads <- 1,
    MaxEvents <- 1,
    server <- x1, used <- x2, list <- x3, error <- x4, filter <- x5, loads <- x6, drawer <- x7,
    form <- x8, confirm <- x9, op <- x10, seen <- x11, order <- x12, behind <- x13, events <- x14

PackageList == INSTANCE Catalog WITH
    Ids <- {"s1"}, Names <- {"n1"}, Blank <- "blank", Kind <- "package", MaxLoads <- 2,
    MaxEvents <- 0,
    server <- x1, used <- x2, list <- x3, error <- x4, filter <- x5, loads <- x6, drawer <- x7,
    form <- x8, confirm <- x9, op <- x10, seen <- x11, order <- x12, behind <- x13, events <- x14

FormList == INSTANCE Catalog WITH
    Ids <- {"s1"}, Names <- {"n1"}, Blank <- "blank", Kind <- "form", MaxLoads <- 1, MaxEvents <- 0,
    server <- x1, used <- x2, list <- x3, error <- x4, filter <- x5, loads <- x6, drawer <- x7,
    form <- x8, confirm <- x9, op <- x10, seen <- x11, order <- x12, behind <- x13, events <- x14

Plan == INSTANCE FormBuilder WITH
    Services <- {"s1", "s2"}, RowIds <- {"r1", "r2", "r3"}, Keys <- {"k"}, NewLine <- "line",
    Editing <- "package", MaxRows <- 3, MaxKeys <- 0,
    catalog <- x1, services <- x2, rows <- x3, attached <- x4, others <- x5, saved <- x6

Question == INSTANCE FormBuilder WITH
    Services <- {"s1", "s2"}, RowIds <- {"r1", "r2", "r3"}, Keys <- {"k"}, NewLine <- "line",
    Editing <- "form", MaxRows <- 2, MaxKeys <- 1,
    catalog <- x1, services <- x2, rows <- x3, attached <- x4, others <- x5, saved <- x6

\* A client: the record, its erasure and its notes.
Client == INSTANCE ClientRecord WITH
    Clients <- {"c1"}, Emails <- {"e1"}, Details <- {"d1"}, MaxOps <- 2,
    row <- x1, page <- x2, drawer <- x3, dialog <- x4, ops <- x5, behind <- x6

Erasing == INSTANCE ClientRecord WITH
    Clients <- {"c1"}, Emails <- {"e1", "e2"}, Details <- {"d1"}, MaxOps <- 1,
    row <- x1, page <- x2, drawer <- x3, dialog <- x4, ops <- x5, behind <- x6

Writing == INSTANCE ClientNotes WITH
    Notes <- {"n1"}, Texts <- {"", "a"}, MaxOps <- 2,
    row <- x1, list <- x2, load <- x3, form <- x4, confirm <- x5, ops <- x6, behind <- x7

\* The staff's inbox, the contact dialog, and the tools around the pages.
Inbox == INSTANCE InquiryInbox WITH
    Inquiries <- {"q1", "q2"}, Business <- {"q1", "q2"}, Typed <- {"f"}, MaxOps <- 1,
    CanLose <- TRUE,
    read <- x1, workspaces <- x2, items <- x3, openId <- x4, promoting <- x5, form <- x6,
    busy <- x7, ops <- x8

Contact == INSTANCE ContactForms WITH
    Texts <- {"", "a"}, Presets <- {"", "a"}, persist <- TRUE, dataSource <- "api", Limit <- 1,
    MaxSends <- 1,
    contact <- x1, preset <- x2, pilot <- x3, sends <- x4, used <- x5, inbox <- x6

Search == INSTANCE WorkspaceSearch WITH
    Things <- {1, 2, 3}, KindOf <- PageAndClients, Queries <- {"", "a", "b"},
    Matches <- {"starts", "none"}, Limit <- 2, Surface <- "navbar", dataSource <- "api",
    hit <- x1, open <- x2, query <- x3, active <- x4, request <- x5, answer <- x6, index <- x7,
    went <- x8

Palette == INSTANCE WorkspaceSearch WITH
    Things <- {1, 2, 3}, KindOf <- PageAndClients, Queries <- {"", "a"},
    Matches <- {"equal", "starts", "title", "subtitle", "hidden", "none"}, Limit <- 1,
    Surface <- "palette", dataSource <- "mock",
    hit <- x1, open <- x2, query <- x3, active <- x4, request <- x5, answer <- x6, index <- x7,
    went <- x8

Feed == INSTANCE CalendarFeed WITH
    Tabs <- {"t1"}, Links <- {"l1", "l2", "l3"}, MaxCalls <- 2,
    card <- x1, calls <- x2, live <- x3, issued <- x4, crossed <- x5

Bells == INSTANCE Notifications WITH
    Tabs <- {"t1", "t2"}, MaxNotices <- 2, Limit <- 2, MaxCalls <- 2,
    made <- x1, read <- x2, bell <- x3, calls <- x4, crossed <- x5

Layers == INSTANCE Dialogs WITH
    Drawers <- {"d1", "d2"}, EnableCommandPalette <- FALSE,
    open <- x1, rendered <- x2, entered <- x3, frames <- x4, timers <- x5, asked <- x6, busy <- x7,
    palette <- x8, locked <- x9, listeners <- x10, key <- x11, focus <- x12, opener <- x13,
    stacked <- x14, searched <- x15

Commands == INSTANCE Dialogs WITH
    Drawers <- {"d1"}, EnableCommandPalette <- TRUE,
    open <- x1, rendered <- x2, entered <- x3, frames <- x4, timers <- x5, asked <- x6, busy <- x7,
    palette <- x8, locked <- x9, listeners <- x10, key <- x11, focus <- x12, opener <- x13,
    stacked <- x14, searched <- x15

\* The calendar page and its drawer: two times, a note, and changes by others.
Timing == INSTANCE SessionEditor WITH
    Ids <- {"s1"}, Starts <- {"t1", "t2"}, Notes <- {"n1"}, MaxNotes <- 0, MaxEvents <- 0,
    server <- x1, late <- x2, board <- x3, loading <- x4, drawer <- x5, form <- x6, confirm <- x7,
    check <- x8, conflict <- x9, op <- x10, noting <- x11, seen <- x12, noted <- x13, behind <- x14,
    events <- x15

Sharing == INSTANCE SessionEditor WITH
    Ids <- {"s1"}, Starts <- {"t1"}, Notes <- {"n1"}, MaxNotes <- 0, MaxEvents <- 1,
    server <- x1, late <- x2, board <- x3, loading <- x4, drawer <- x5, form <- x6, confirm <- x7,
    check <- x8, conflict <- x9, op <- x10, noting <- x11, seen <- x12, noted <- x13, behind <- x14,
    events <- x15

\* The pages of the calendar, and the times of its sessions.
Calendar == INSTANCE CalendarPages WITH
    MonthLengths <- TwoMonths, FirstWeekday <- 0, Offsets <- {-2, 0, 2}, Instants <- AroundMidnight,
    view <- x1, anchor <- x2, sessions <- x3, local <- x4, zone <- x5

Zoned == INSTANCE ZonedTime WITH
    Zones <- {BerlinSpring, NewYorkAutumn}, Instants <- 167 .. 176, Walls <- 166 .. 174,
    Durations <- {1}, Weeks <- 1,
    zone <- x1, start <- x2, length <- x3, other <- x4, form <- x5, typed <- x6, clash <- x7,
    series <- x8

Clashing == INSTANCE ZonedTime WITH
    Zones <- {BerlinSpring, NewYorkAutumn}, Instants <- {143, 144, 166, 168},
    Walls <- {145, 167, 170}, Durations <- {1, 3, 24, 26}, Weeks <- 1,
    zone <- x1, start <- x2, length <- x3, other <- x4, form <- x5, typed <- x6, clash <- x7,
    series <- x8

ASSUME InstancesAssumption ==
    /\ Signing!WebAssumption /\ Resetting!WebAssumption /\ SigningUp!SignUpAssumption
    /\ Asking!SignUpAssumption /\ FirstSteps!OnboardingAssumption /\ Panels!SettingsAssumption
    /\ Leaving!SettingsAssumption
    /\ Places!SettingsAssumption /\ ServiceList!CatalogAssumption
    /\ PackageList!CatalogAssumption /\ FormList!CatalogAssumption /\ Plan!BuilderAssumption
    /\ Question!BuilderAssumption /\ Client!ClientsAssumption /\ Erasing!ClientsAssumption
    /\ Writing!NotesAssumption /\ Inbox!InboxAssumption /\ Contact!FormsAssumption
    /\ Search!SearchAssumption /\ Palette!SearchAssumption /\ Feed!FeedAssumption
    /\ Bells!BellAssumption /\ Layers!DialogsAssumption /\ Commands!DialogsAssumption
    /\ Timing!EditorAssumption /\ Sharing!EditorAssumption /\ Calendar!PagesAssumption
    /\ Zoned!ZonedAssumption /\ Clashing!ZonedAssumption

-----------------------------------------------------------------------------
(* One page is open, and it is opened afresh. *)

Rest0 == <<x1, x2, x3, x4, x5, x6, x7, x8, x9, x10, x11, x12, x13, x14, x15>>
Rest5 == <<x6, x7, x8, x9, x10, x11, x12, x13, x14, x15>>
Rest6 == <<x7, x8, x9, x10, x11, x12, x13, x14, x15>>
Rest7 == <<x8, x9, x10, x11, x12, x13, x14, x15>>
Rest8 == <<x9, x10, x11, x12, x13, x14, x15>>
Rest11 == <<x12, x13, x14, x15>>
Rest12 == <<x13, x14, x15>>
Rest14 == <<x15>>

NoRest14 == x15 = None
NoRest12 == x13 = None /\ x14 = None /\ NoRest14
NoRest11 == x12 = None /\ NoRest12
NoRest8 == x9 = None /\ x10 = None /\ x11 = None /\ NoRest11
NoRest7 == x8 = None /\ NoRest8
NoRest6 == x7 = None /\ NoRest7
NoRest5 == x6 = None /\ NoRest6
NoRest0 == x1 = None /\ x2 = None /\ x3 = None /\ x4 = None /\ x5 = None /\ NoRest5

\* No drawer is open that books for a client, and there is nothing to load.
NoForm == /\ booked = {} /\ others = [s \in Sessions |-> 0] /\ off = {} /\ keys = 0 /\ told = {}
          /\ lists = [stage |-> "loading", room |-> {}] /\ drawer = Closed /\ busy = FALSE
          /\ op = None
          /\ view = [stage |-> "loading", answer |-> {}, rows |-> {}, client |-> None]

PagesInit ==
    \/ at = "booking" /\ Init /\ NoRest0
    \/ at = "signing" /\ Signing!Init /\ NoForm /\ NoRest6
    \/ at = "resetting" /\ Resetting!Init /\ NoForm /\ NoRest6
    \/ at = "signup" /\ SigningUp!Init /\ NoForm /\ NoRest12
    \/ at = "password" /\ Asking!Init /\ NoForm /\ NoRest12
    \/ at = "onboarding" /\ FirstSteps!Init /\ NoForm /\ NoRest11
    \/ at = "closing" /\ Closing!Init /\ NoForm /\ NoRest7
    \/ at = "panels" /\ Panels!Init /\ NoForm /\ NoRest8
    \/ at = "leaving" /\ Leaving!Init /\ NoForm /\ NoRest8
    \/ at = "places" /\ Places!Init /\ NoForm /\ NoRest8
    \/ at = "services" /\ ServiceList!Init /\ NoForm /\ NoRest14
    \/ at = "packages" /\ PackageList!Init /\ NoForm /\ NoRest14
    \/ at = "forms" /\ FormList!Init /\ NoForm /\ NoRest14
    \/ at = "package" /\ Plan!Init /\ NoForm /\ NoRest6
    \/ at = "form" /\ Question!Init /\ NoForm /\ NoRest6
    \/ at = "client" /\ Client!Init /\ NoForm /\ NoRest6
    \/ at = "erasing" /\ Erasing!Init /\ NoForm /\ NoRest6
    \/ at = "writing" /\ Writing!Init /\ NoForm /\ NoRest7
    \/ at = "inbox" /\ Inbox!Init /\ NoForm /\ NoRest8
    \/ at = "contact" /\ Contact!Init /\ NoForm /\ NoRest6
    \/ at = "search" /\ Search!Init /\ NoForm /\ NoRest8
    \/ at = "palette" /\ Palette!Init /\ NoForm /\ NoRest8
    \/ at = "feed" /\ Feed!Init /\ NoForm /\ NoRest5
    \/ at = "bells" /\ Bells!Init /\ NoForm /\ NoRest5
    \/ at = "drawers" /\ Layers!Init /\ NoForm
    \/ at = "commands" /\ Commands!Init /\ NoForm
    \/ at = "timing" /\ Timing!Init /\ NoForm
    \/ at = "sharing" /\ Sharing!Init /\ NoForm
    \/ at = "calendar" /\ Calendar!Init /\ NoForm /\ NoRest5
    \/ at = "zoned" /\ Zoned!Init /\ NoForm /\ NoRest8
    \/ at = "clashing" /\ Clashing!Init /\ NoForm /\ NoRest8

\* What is not of the page that is open stays as it is.
Apart ==
    /\ UNCHANGED at
    /\ CASE at = "booking" -> UNCHANGED Rest0
         [] at \in {"feed", "bells", "calendar"} -> UNCHANGED vars /\ UNCHANGED Rest5
         [] at \in {"signing", "resetting", "package", "form", "client", "erasing", "contact"} -> UNCHANGED vars /\ UNCHANGED Rest6
         [] at \in {"closing", "writing"} -> UNCHANGED vars /\ UNCHANGED Rest7
         [] at \in {"panels", "leaving", "places", "inbox", "search", "palette", "zoned", "clashing"} -> UNCHANGED vars /\ UNCHANGED Rest8
         [] at = "onboarding" -> UNCHANGED vars /\ UNCHANGED Rest11
         [] at \in {"signup", "password"} -> UNCHANGED vars /\ UNCHANGED Rest12
         [] at \in {"services", "packages", "forms"} -> UNCHANGED vars /\ UNCHANGED Rest14
         [] OTHER -> UNCHANGED vars

\* Bounds on five parts.  The page of the settings stays open with the two sections that save one
\* record (OneRecord) or with the one that has the locations (OneSection), and is left with two that
\* save different ones (TwoSections); of two drawers whose dialogs are asked neither is also acted
\* upon; and the session whose times are edited is not also being cancelled, which the part with the
\* changes by others has.
Stays == x2.state # "loading" => x2'.state # "loading"
OneRecord == x2'.section \in {"business", "emails"}
OneSection == x2'.section = "business"
TwoSections == x2'.section \in {"business", "calendar"}
OneActs == x6' # {"d1", "d2"} \/ x7' = {}
Kept == x7' = FALSE

PagesNext ==
    \/ at = "booking" /\ Next /\ Apart
    \/ at = "signing" /\ Signing!Next /\ Apart
    \/ at = "resetting" /\ Resetting!Next /\ Apart
    \/ at = "signup" /\ SigningUp!Next /\ Apart
    \/ at = "password" /\ Asking!Next /\ Apart
    \/ at = "onboarding" /\ FirstSteps!Next /\ Apart
    \/ at = "closing" /\ Closing!Next /\ Apart
    \/ at = "panels" /\ Panels!Next /\ Stays /\ OneRecord /\ Apart
    \/ at = "leaving" /\ Leaving!Next /\ TwoSections /\ Apart
    \/ at = "places" /\ Places!Next /\ Stays /\ OneSection /\ Apart
    \/ at = "services" /\ ServiceList!Next /\ Apart
    \/ at = "packages" /\ PackageList!Next /\ Apart
    \/ at = "forms" /\ FormList!Next /\ Apart
    \/ at = "package" /\ Plan!Next /\ Apart
    \/ at = "form" /\ Question!Next /\ Apart
    \/ at = "client" /\ Client!Next /\ Apart
    \/ at = "erasing" /\ Erasing!Next /\ Apart
    \/ at = "writing" /\ Writing!Next /\ Apart
    \/ at = "inbox" /\ Inbox!Next /\ Apart
    \/ at = "contact" /\ Contact!Next /\ Apart
    \/ at = "search" /\ Search!Next /\ Apart
    \/ at = "palette" /\ Palette!Next /\ Apart
    \/ at = "feed" /\ Feed!Next /\ Apart
    \/ at = "bells" /\ Bells!Next /\ Apart
    \/ at = "drawers" /\ Layers!Next /\ OneActs /\ Apart
    \/ at = "commands" /\ Commands!Next /\ Apart
    \/ at = "timing" /\ Timing!Next /\ Kept /\ Apart
    \/ at = "sharing" /\ Sharing!Next /\ Apart
    \/ at = "calendar" /\ Calendar!Next /\ Apart
    \/ at = "zoned" /\ Zoned!Next /\ Apart
    \/ at = "clashing" /\ Clashing!Next /\ Apart

allVars == <<at, vars, Rest0>>
PagesSpec == PagesInit /\ [][PagesNext]_allVars

-----------------------------------------------------------------------------
(* Properties: what the modules promise of their pages, by theme.          *)

\* The variables of the page that is open are of their types (vars of each module).
TypesOK ==
    /\ at = "booking" => TypeOK
    /\ at = "signing" => Signing!TypeOK
    /\ at = "resetting" => Resetting!TypeOK
    /\ at = "signup" => SigningUp!TypeOK
    /\ at = "password" => Asking!TypeOK
    /\ at = "onboarding" => FirstSteps!TypeOK
    /\ at = "closing" => Closing!TypeOK
    /\ at = "panels" => Panels!TypeOK
    /\ at = "leaving" => Leaving!TypeOK
    /\ at = "places" => Places!TypeOK
    /\ at = "services" => ServiceList!TypeOK
    /\ at = "packages" => PackageList!TypeOK
    /\ at = "forms" => FormList!TypeOK
    /\ at = "package" => Plan!TypeOK
    /\ at = "form" => Question!TypeOK
    /\ at = "client" => Client!TypeOK
    /\ at = "erasing" => Erasing!TypeOK
    /\ at = "writing" => Writing!TypeOK
    /\ at = "inbox" => Inbox!TypeOK
    /\ at = "contact" => Contact!TypeOK
    /\ at = "search" => Search!TypeOK
    /\ at = "palette" => Palette!TypeOK
    /\ at = "feed" => Feed!TypeOK
    /\ at = "bells" => Bells!TypeOK
    /\ at = "drawers" => Layers!TypeOK
    /\ at = "commands" => Commands!TypeOK
    /\ at = "timing" => Timing!TypeOK
    /\ at = "sharing" => Sharing!TypeOK
    /\ at = "calendar" => Calendar!TypeOK
    /\ at = "zoned" => Zoned!TypeOK
    /\ at = "clashing" => Clashing!TypeOK

\* Once everything is answered, a page shows what the server has. Not promised is, of the settings,
\* a part with a save on its way or one whose answer was lost, and one that an answer brought from
\* before its save (a location's answer brings the whole business as it was when that was sent); of
\* the catalog and the calendar, anything after a change that was not told or a list that was
\* overtaken; of clients and notes, the one that changed so; of the warning of a clash, a form that
\* started over; of the bell's error, a tab in which two requests to mark overlapped. A feed has
\* two links only if each of them was made while another was being made. Every other part, client
\* and note is current, whatever else is under way or was lost, and a search shows what matched of
\* the text that stands there.
ShowsWhatTheServerHas ==
    /\ at = "panels" => Panels!CopyFollowsServer
    /\ at = "leaving" => Leaving!CopyFollowsServer
    /\ at = "places" => Places!CopyFollowsServer
    /\ at = "services" => ServiceList!ListFollows /\ ServiceList!ErrorHidesNothing
    /\ at = "packages" => PackageList!ListFollows /\ PackageList!ErrorHidesNothing
    /\ at = "forms" => FormList!ListFollows /\ FormList!ErrorHidesNothing
    /\ at = "client" => Client!SettledIsCurrent
    /\ at = "erasing" => Erasing!SettledIsCurrent
    /\ at = "writing" => Writing!SettledIsCurrent
    /\ at = "feed" => Feed!CardIsTrue /\ Feed!TwoOnlyByCrossing
    /\ at = "bells" => Bells!ReadIsRead /\ Bells!ErrorCanBeCleared
    /\ at = "search" => Search!MatchedIsShown /\ Search!ActiveIsARow
    /\ at = "palette" => Palette!MatchedIsShown /\ Palette!ActiveIsARow
    /\ at = "timing" => Timing!BoardFollows /\ Timing!WarningIsForThisTime
    /\ at = "sharing" => Sharing!BoardFollows

\* What the server keeps of a workspace is what was asked: one workspace of an owner however often
\* the sign-up is sent, an account behind the page that speaks of the inbox, a part behind every
\* pane that was passed (at some moment while the page was open: a resumed pane may be put together
\* of parts that were never there together), a workspace that stays when its end was cancelled, and
\* a message behind the page that says it arrived.
AccountsHold ==
    /\ at = "signup" => SigningUp!OneWorkspaceEach /\ SigningUp!InboxHasAccount
    /\ at = "password" => Asking!OneWorkspaceEach /\ Asking!InboxHasAccount
    /\ at = "onboarding" => FirstSteps!PassedIsDone
    /\ at = "closing" => Closing!CancelledIsKept
    /\ at = "contact" => Contact!SuccessIsRecorded

\* What is edited stays itself through any order of keys and buttons: rows have an identity and the
\* order that is shown, options belong to choices, a service that is not shown stays attached, a
\* form is of the inquiry it was opened from, a form makes one session unless the answer to it was
\* lost, and the layers of the page give back its scrolling in any order, and the focus if none of
\* them was over another and the palette was not used.
EditorsHold ==
    /\ at = "package" => Plan!OrderMatches /\ Plan!RowsDistinct
    /\ at = "form" => Question!RowsDistinct /\ Question!OptionsOfChoices /\ Question!UnseenStays
    /\ at = "inbox" => Inbox!FormIsThePromoted
    /\ at = "timing" => Timing!CreatedOnce
    /\ at = "drawers" => /\ Layers!ShellFollows /\ Layers!PageScrollsAgain
                         /\ Layers!LockedUnderOne /\ Layers!WaitsOpen /\ Layers!FocusIsBack
    /\ at = "commands" => Commands!PageScrollsAgain /\ Commands!WaitsOpen /\ Commands!FocusIsBack

\* Every session that the calendar counts is drawn, on a page that shows the day it was turned to;
\* a weekly series has a session at the time that was typed, if that is on the same weekday in UTC
\* and comes once on its day; and a clash with a session of up to a day is warned of exactly when
\* an hour is shared, across midnights and changes of the clocks.
CalendarIsTrue ==
    /\ at = "calendar" => Calendar!CountedIsDrawn /\ Calendar!AnchorShown
    /\ at = "zoned" => Zoned!SeriesHasItsFirst
    /\ at = "clashing" => Clashing!WarnsOfSharedHours

\* No step does what was not meant. A page opens by a check made for that very page; the copy of
\* who is signed in comes apart from the cookie only by a check that was sent before the cookie
\* changed and answered after, which does write the older user over the newer one, or by a sign-in
\* whose page was left. A save of the settings brings back no older state of another part, and of
\* its own only where another save overtook it or its draft was of a copy that was behind. A save
\* sets whether an item is active only as its drawer has it, or from a copy that was no longer
\* true; a row that moves leaves the others as they were; the address typed to erase a client is
\* that client's; Enter opens the row that is drawn as active; a cancelled session comes back only
\* from a copy that was opened before; no answer changes a field that is typed in; a session that
\* is only opened and saved stays, unless its clock time comes twice; and the arrows miss a month
\* only from a day the next one lacks.
StepsAreMeant ==
    [][/\ at = "signing" => Signing!OpenedByItsOwnCheckStep /\ Signing!MixedOnlyByCrossingStep
       /\ at = "resetting" => Resetting!OpenedByItsOwnCheckStep
       /\ at = "panels" => Panels!NothingBroughtBackStep
       /\ at = "leaving" => Leaving!NothingBroughtBackStep
       /\ at = "places" => Places!NothingBroughtBackStep
       /\ at = "services" => ServiceList!ActiveIsSetStep
       /\ at = "packages" => PackageList!ActiveIsSetStep
       /\ at = "package" => Plan!OthersStayStep
       /\ at = "erasing" => Erasing!ErasedByItsEmailStep
       /\ at = "search" => Search!EnterOpensTheActiveStep
       /\ at = "sharing" => Sharing!RevivedUnseenStep /\ Sharing!TypedStaysStep
       /\ at = "timing" => Timing!TypedStaysStep
       /\ at = "calendar" => Calendar!NextUnlessTooShortStep
       /\ at = "zoned" => Zoned!UntypedStaysStep /\ Zoned!SavedAsTypedStep]_allVars
=============================================================================
