----------------------------- MODULE Onboarding -----------------------------
(***************************************************************************)
(* The five panes a new operator is led through (web/src:                  *)
(* app/(auth)/onboarding/page): welcome, first service, hours, payments,   *)
(* done.  The page resumes at the first pane whose part the workspace      *)
(* lacks; skipping and finishing mark the workspace as onboarded, which    *)
(* signing in (app/(auth)/login/page) looks at.                            *)
(*                                                                         *)
(* Of what is saved only whether there is any is kept, and how many        *)
(* services; other members may add or remove any of it meanwhile.          *)
(***************************************************************************)
EXTENDS Naturals, FiniteSets

CONSTANTS MaxServices,   \* bound: services of the workspace
          MaxFinishes,   \* bound: requests to complete that are under way
          None           \* nothing read, nothing asked

OnboardingAssumption == MaxServices \in Nat \ {0} /\ MaxFinishes \in Nat \ {0}

VARIABLES server,      \* services, hours, manual payment, completed
          screen,      \* "login", "onboarding" or "dashboard"
          read,        \* what the load of the page has read so far
          ready,       \* the page shows its panes
          step,
          form,        \* the service is named; a day is enabled; manual payment is on
          busy,
          saving,      \* the save under way
          finishing,   \* the completing requests under way
          had,         \* parts the workspace has had since the page opened
          made         \* services this page has made, two standing for more

vars == <<server, screen, read, ready, step, form, busy, saving, finishing, had, made>>

Parts == {"services", "hours", "manual"}
Unread == [p \in Parts |-> None]
Ops == {"service", "availability", "payments"}

TypeOK == /\ server \in [services: 0..MaxServices, hours: BOOLEAN, manual: BOOLEAN, done: BOOLEAN]
          /\ screen \in {"login", "onboarding", "dashboard"}
          /\ read \in [Parts -> BOOLEAN \cup {None}]
          /\ ready \in BOOLEAN /\ step \in 0..4
          /\ form \in [named: BOOLEAN, hours: BOOLEAN, manual: BOOLEAN]
          /\ busy \in BOOLEAN
          /\ saving \in [op: Ops, stage: {"sent", "taken", "refused"}, manual: BOOLEAN] \cup {None}
          /\ finishing \in [sent: 0..MaxFinishes, done: 0..MaxFinishes, failed: 0..MaxFinishes]
          /\ had \subseteq {"services", "hours"} /\ made \in 0..2
          /\ busy <=> saving # None /\ screen = "onboarding"
          /\ ready => screen = "onboarding" /\ read = Unread

Has(part) == CASE part = "services" -> server.services > 0
               [] part = "hours" -> server.hours
               [] part = "manual" -> server.manual

Idle == [sent |-> 0, done |-> 0, failed |-> 0]
Blank == [named |-> FALSE, hours |-> FALSE, manual |-> FALSE]

Init == /\ server \in [services: {0, 1}, hours: BOOLEAN, manual: BOOLEAN, done: {FALSE}]
        /\ screen = "login" /\ read = Unread /\ ready = FALSE /\ step = 0
        /\ form = Blank /\ busy = FALSE /\ saving = None /\ finishing = Idle
        /\ had = {} /\ made = 0

\* The page is left: its answers find nobody.
Leave(to) == /\ screen' = to /\ ready' = FALSE /\ read' = Unread /\ step' = 0 /\ form' = Blank
             /\ busy' = FALSE /\ had' = {} /\ made' = 0

-----------------------------------------------------------------------------
(* Coming in. *)

\* An operator whose workspace is not completed, if that can be told, is sent to the page.
needsOnboarding(told) == told /\ ~server.done

SignIn ==
    /\ screen = "login"
    /\ \E told \in BOOLEAN :
         screen' = IF needsOnboarding(told) THEN "onboarding" ELSE "dashboard"
    /\ UNCHANGED <<server, read, ready, step, form, busy, saving, finishing, had, made>>

\* The address of the page can be opened at any time; a second save waits for the first.
OpenPage ==
    /\ screen = "dashboard" /\ saving = None /\ finishing = Idle
    /\ screen' = "onboarding"
    /\ UNCHANGED <<server, read, ready, step, form, busy, saving, finishing, had, made>>

SignOut ==
    /\ screen = "dashboard" /\ saving = None /\ finishing = Idle
    /\ screen' = "login"
    /\ UNCHANGED <<server, read, ready, step, form, busy, saving, finishing, had, made>>

\* The parts are read side by side, each at a moment of its own.
ReadPart ==
    /\ screen = "onboarding" /\ ~ready
    /\ \E p \in Parts :
         /\ read[p] = None
         /\ read' = [read EXCEPT ![p] = Has(p)]
         /\ had' = IF Has(p) THEN had \cup ({p} \ {"manual"}) ELSE had
    /\ UNCHANGED <<server, screen, ready, step, form, busy, saving, finishing, made>>

\* The first pane whose part is missing, and the welcome when all are.
resumeStep(services, hours, payments) ==
    CASE ~services /\ ~hours /\ ~payments -> 0
      [] ~services /\ (hours \/ payments) -> 1
      [] services /\ ~hours -> 2
      [] services /\ hours /\ ~payments -> 3
      [] services /\ hours /\ payments -> 4

\* A workspace without hours is suggested a working week.
Loaded ==
    /\ screen = "onboarding" /\ ~ready /\ \A p \in Parts : read[p] # None
    /\ ready' = TRUE
    /\ form' = [named |-> FALSE, hours |-> TRUE, manual |-> read["manual"]]
    /\ step' = resumeStep(read["services"], read["hours"], read["manual"])
    /\ read' = Unread
    /\ UNCHANGED <<server, screen, busy, saving, finishing, had, made>>

-----------------------------------------------------------------------------
(* The panes. *)

Pane(s) == ready /\ step = s

getStarted ==
    /\ Pane(0)
    /\ step' = 1
    /\ UNCHANGED <<server, screen, read, ready, form, busy, saving, finishing, had, made>>

\* A variant of Back: the button is there on the welcome pane too.
BackAlways ==
    /\ ready /\ step \in 0..3 /\ ~busy
    /\ step' = step - 1
    /\ UNCHANGED <<server, screen, read, ready, form, busy, saving, finishing, had, made>>

Back ==
    /\ ready /\ step \in 1..3 /\ ~busy
    /\ step' = step - 1
    /\ UNCHANGED <<server, screen, read, ready, form, busy, saving, finishing, had, made>>

\* The pane's form, which a save disables.
Edit ==
    /\ ready /\ ~busy
    /\ \/ step = 1 /\ form' = [form EXCEPT !.named = ~@]
       \/ step = 2 /\ form' = [form EXCEPT !.hours = ~@]
       \/ step = 3 /\ form' = [form EXCEPT !.manual = ~@]
    /\ UNCHANGED <<server, screen, read, ready, step, busy, saving, finishing, had, made>>

\* The button shows that it is loading, and takes no press then.
Send(op) ==
    /\ ~busy /\ saving = None
    /\ busy' = TRUE
    /\ saving' = [op |-> op, stage |-> "sent", manual |-> form.manual]
    /\ UNCHANGED <<server, screen, read, ready, step, form, finishing, had, made>>

saveService == Pane(1) /\ form.named /\ Send("service")
saveAvailability == Pane(2) /\ form.hours /\ Send("availability")
savePayments == Pane(3) /\ Send("payments")

\* The server takes the save, or the request or its answer is lost on the way.
Serve ==
    /\ saving # None /\ saving.stage = "sent"
    /\ \/ \E told \in BOOLEAN :
            /\ saving.op = "service" => server.services < MaxServices
            /\ server' = CASE saving.op = "service" -> [server EXCEPT !.services = @ + 1]
                           [] saving.op = "availability" -> [server EXCEPT !.hours = TRUE]
                           [] saving.op = "payments" -> [server EXCEPT !.manual = saving.manual]
            /\ had' = CASE screen # "onboarding" -> had
                        [] saving.op = "service" -> had \cup {"services"}
                        [] saving.op = "availability" -> had \cup {"hours"}
                        [] saving.op = "payments" -> had
            /\ made' = IF saving.op = "service" /\ screen = "onboarding" /\ made < 2
                        THEN made + 1 ELSE made
            /\ saving' = [saving EXCEPT !.stage = IF told THEN "taken" ELSE "refused"]
       \/ /\ saving' = [saving EXCEPT !.stage = "refused"]
          /\ UNCHANGED <<server, had, made>>
    /\ UNCHANGED <<screen, read, ready, step, form, busy, finishing>>

PaneAfter(op) == CASE op = "service" -> 2 [] op = "availability" -> 3 [] op = "payments" -> 4

\* The next pane opens when the save was taken.
Answer ==
    /\ saving # None /\ saving.stage # "sent"
    /\ saving' = None
    /\ busy' = FALSE
    /\ step' = IF saving.stage = "taken" /\ screen = "onboarding" THEN PaneAfter(saving.op) ELSE step
    /\ UNCHANGED <<server, screen, read, ready, form, finishing, had, made>>

-----------------------------------------------------------------------------
(* Leaving. *)

\* "Skip for now" is there from the start, also while the page loads or saves.
finish ==
    /\ screen = "onboarding"
    /\ finishing.sent + finishing.done + finishing.failed < MaxFinishes
    /\ finishing' = [finishing EXCEPT !.sent = @ + 1]
    /\ UNCHANGED <<server, screen, read, ready, step, form, busy, saving, had, made>>

completeOnboarding ==
    /\ finishing.sent > 0
    /\ \/ /\ server' = [server EXCEPT !.done = TRUE]
          /\ finishing' = [finishing EXCEPT !.sent = @ - 1, !.done = @ + 1]
       \/ /\ finishing' = [finishing EXCEPT !.sent = @ - 1, !.failed = @ + 1]
          /\ UNCHANGED server
    /\ UNCHANGED <<screen, read, ready, step, form, busy, saving, had, made>>

\* Whatever came of it, the operator is brought to the dashboard.
Finished ==
    /\ \/ finishing.done > 0 /\ finishing' = [finishing EXCEPT !.done = @ - 1]
       \/ finishing.failed > 0 /\ finishing' = [finishing EXCEPT !.failed = @ - 1]
    /\ IF screen = "onboarding" THEN Leave("dashboard")
       ELSE UNCHANGED <<screen, read, ready, step, form, busy, had, made>>
    /\ UNCHANGED <<server, saving>>

\* Other members add and remove what the panes are about.
Elsewhere ==
    /\ \/ server' = [server EXCEPT !.hours = ~@]
       \/ server' = [server EXCEPT !.manual = ~@]
       \/ \E n \in 0..MaxServices : n # server.services /\ server' = [server EXCEPT !.services = n]
    /\ UNCHANGED <<screen, read, ready, step, form, busy, saving, finishing, had, made>>

Next == \/ SignIn \/ OpenPage \/ SignOut \/ ReadPart \/ Loaded
        \/ getStarted \/ Back \/ Edit \/ saveService \/ saveAvailability \/ savePayments
        \/ Serve \/ Answer \/ finish \/ completeOnboarding \/ Finished \/ Elsewhere

Spec == Init /\ [][Next]_vars

-----------------------------------------------------------------------------
(* Properties. *)

\* No pane is passed whose part the workspace never had while the page was open: the hours are
\* reached with a service, the payments with hours, though saves fail, answers are lost, members
\* change the workspace, and the load reads its parts at different moments.
PassedIsDone ==
    ready => /\ step >= 2 => "services" \in had
             /\ step >= 3 => "hours" \in had

\* Every save gives the buttons back, and skipping always ends on the dashboard.
Awaited == IF busy THEN {"save"} ELSE {}
Expected == screen = "onboarding" /\ finishing.sent > 0
Fulfilled == screen = "dashboard"
\* Skipping and finishing both mark onboarding complete on the server.
SkipIsRemembered ==
    [][(screen = "onboarding" /\ screen' = "dashboard") => server'.done]_vars

\* The page makes the workspace's first service, and no second one: going back and on again
\* saves what was saved.
OneFirstService == made <= 1

=============================================================================
