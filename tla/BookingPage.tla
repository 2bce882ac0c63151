----------------------------- MODULE BookingPage -----------------------------
(***************************************************************************)
(* The public booking page of the web client, in one tab: the stepper, its *)
(* draft and the copy of it in sessionStorage, the forms of the chosen     *)
(* service, and the requests that book (web/src:                           *)
(* components/booking/PublicBookingFlow, services/public-booking.service). *)
(*                                                                         *)
(* A form has one question.  The text of the fields, the receipt, the      *)
(* calendar's layout and the demo's branches are left out.                 *)
(***************************************************************************)
EXTENDS Naturals, Sequences, FiniteSets

CONSTANTS Workspaces, Services, Starts,
          WorkspaceOf,   \* the workspace of a service
          FormOf,        \* the question of its form, or None
          Offered,       \* the <<service, start>> that the server ever lists
          FreeServices,  \* those that cost nothing
          Slots,         \* bound: booking requests at a time
          MaxMade,       \* bound: bookings made
          None

Types == {"text", "yes_no", "consent"}
Question == [type: Types, required: BOOLEAN, beforePayment: BOOLEAN]
Answers == {"none", "empty", "text", "yes", "no"}

Steps == {"service", "time", "details", "forms", "billing", "review", "pay"}

Draft == [service: Services \cup {None},
          start: Starts \cup {None},              \* date, time and startAt
          details: BOOLEAN, billing: BOOLEAN,     \* the required fields are filled in
          answers: [Services -> Answers],         \* formResponses, by the form's service
          payment: {"card", "ready"}]

EmptyDraft == [service |-> None, start |-> None, details |-> FALSE, billing |-> FALSE,
               answers |-> [s \in Services |-> "none"], payment |-> "card"]

VARIABLES place,      \* what the tab shows: a booking page, its confirmation, another page
          ws,         \* the workspace of the page
          settings,   \* "asked", "shown", or "failed": the placeholder for good
          step, draft,
          asked,      \* the service whose forms are being fetched
          loaded,     \* loadedForms: the service whose forms are there
          submitting,
          leaving,    \* the confirmation was pushed and is on its way
          stored,     \* slotera.booking.draft
          calls,      \* the booking requests
          made,       \* bookings made since a confirmation was last shown
          unshown,    \* those of them no confirmation is going to be shown for
          unseen      \* the customer left the details before the forms were there

tab == <<place, ws, settings, step, draft, asked, loaded, submitting, leaving>>
ghosts == <<unshown, unseen>>
vars == <<tab, stored, calls, made, ghosts>>

\* "page": its page is shown; "left": its page was left, the document is not;
\* "gone": the document was unloaded.  late: pressed while a confirmation was on its way.
Call == [draft: Draft, ws: Workspaces, state: {"sent", "made", "failed"},
         from: {"page", "left", "gone"}, late: BOOLEAN, unseen: BOOLEAN]

PageAssumption == /\ WorkspaceOf \in [Services -> Workspaces]
                  /\ FormOf \in [Services -> Question \cup {None}]
                  /\ Offered \subseteq Services \X Starts
                  /\ FreeServices \subseteq Services
                  /\ MaxMade \in Nat /\ None \notin Call

TypeOK == /\ place \in {"page", "confirmation", "away"} /\ ws \in Workspaces
          /\ settings \in {"asked", "shown", "failed"}
          /\ step \in Steps /\ draft \in Draft
          /\ asked \in Services \cup {None} /\ loaded \in Services \cup {None}
          /\ submitting \in BOOLEAN /\ leaving \in BOOLEAN
          /\ stored \in Draft \cup {None}
          /\ calls \in [Slots -> Call \cup {None}]
          /\ made \in 0..MaxMade /\ unshown \in 0..MaxMade /\ unseen \in BOOLEAN

Flying == {i \in Slots : calls[i] # None}

-----------------------------------------------------------------------------
(* Forms, in the browser and at the server. *)

Forms == IF draft.service = None \/ loaded # draft.service THEN None ELSE FormOf[draft.service]

\* StepIndicator's order without the steps that are not shown.
ActiveSteps == IF Forms = None THEN <<"service", "time", "details", "billing", "review", "pay">>
               ELSE <<"service", "time", "details", "forms", "billing", "review", "pay">>
Index(s) == CHOOSE i \in DOMAIN ActiveSteps : ActiveSteps[i] = s

AnswerPresent(q, a) == q.required => a # "none"
AnswerComplete(q, a) == q.required => a \in {"text", "yes"}

\* What FormFieldInput can make of an answer.
Inputs(q) == IF q.type = "text" THEN {"empty", "text"} ELSE {"yes", "no"}

\* The server's check of the one question of a form that was sent.
AcceptsAnswer(q, a) == /\ q.type # "yes_no"
                       /\ q.type = "consent" => a = "yes"
                       /\ q.required => a # "empty"

AcceptsAnswers(d) ==
    \A s \in Services :
       IF d.answers[s] # "none" THEN /\ s = d.service \* a form of another service is refused
                                     /\ FormOf[s] # None /\ AcceptsAnswer(FormOf[s], d.answers[s])
       ELSE s = d.service /\ FormOf[s] # None => ~FormOf[s].beforePayment

-----------------------------------------------------------------------------
(* The page. *)

FreshTab(w, d) ==
    /\ place' = "page" /\ ws' = w /\ settings' = "asked" /\ step' = "service"
    /\ draft' = d /\ asked' = d.service /\ loaded' = None
    /\ submitting' = FALSE /\ leaving' = FALSE

\* Nothing is left of the page that was shown.
Closed(p) ==
    /\ place' = p /\ ws' = ws /\ settings' = "asked" /\ step' = "service"
    /\ draft' = EmptyDraft /\ asked' = None /\ loaded' = None
    /\ submitting' = FALSE /\ leaving' = FALSE

Restored == IF stored = None THEN EmptyDraft ELSE stored

Init == /\ place = "page" /\ ws \in Workspaces /\ settings = "asked" /\ step = "service"
        /\ draft = EmptyDraft /\ asked = None /\ loaded = None
        /\ submitting = FALSE /\ leaving = FALSE
        /\ stored = EmptyDraft /\ calls = [i \in Slots |-> None]  /\ made = 0
        /\ unshown = 0 /\ unseen = FALSE

LeftBehind == [i \in Slots |-> IF calls[i] # None /\ calls[i].from = "page"
                               THEN [calls[i] EXCEPT !.from = "left"] ELSE calls[i]]
Unloaded == [i \in Slots |-> IF calls[i] = None THEN None ELSE [calls[i] EXCEPT !.from = "gone"]]

\* A page is mounted: the draft is restored and saved at once.
Open(w) ==
    /\ place # "page"
    /\ FreshTab(w, Restored) /\ stored' = Restored /\ unseen' = FALSE
    /\ UNCHANGED <<calls, made, unshown>>

Reload ==
    /\ place = "page"
    /\ FreshTab(ws, Restored) /\ stored' = Restored /\ unseen' = FALSE
    /\ calls' = Unloaded /\ unshown' = made /\ UNCHANGED made

Leave ==
    /\ place = "page" /\ Closed("away") /\ unseen' = FALSE
    /\ calls' = LeftBehind /\ unshown' = made
    /\ UNCHANGED <<stored, made>>

SettingsArrive ==
    /\ place = "page" /\ settings = "asked" /\ settings' \in {"shown", "failed"}
    /\ UNCHANGED <<place, ws, step, draft, asked, loaded, submitting, leaving,
                   stored, calls, made, ghosts>>

Stepping == place = "page" /\ settings = "shown"

\* Every change of the draft is saved.
Change(d) ==
    /\ d # draft /\ draft' = d /\ stored' = d
    /\ UNCHANGED <<place, ws, settings, step, loaded, submitting, leaving,
                   calls, made, ghosts>>

SelectService(s) ==
    /\ Stepping /\ step = "service" /\ WorkspaceOf[s] = ws
    /\ Change([draft EXCEPT !.service = s])
    /\ asked' = s

FormsArrive ==
    /\ place = "page" /\ asked # None /\ loaded' = asked /\ asked' = None
    /\ UNCHANGED <<place, ws, settings, step, draft, submitting, leaving,
                   stored, calls, made, ghosts>>

\* Nobody hears of a failure: there are no forms.
FormsFail ==
    /\ place = "page" /\ asked # None /\ asked' = None
    /\ UNCHANGED <<place, ws, settings, step, draft, loaded, submitting, leaving,
                   stored, calls, made, ghosts>>

\* Choosing a day clears the time.
PickDate == /\ Stepping /\ step = "time" /\ Change([draft EXCEPT !.start = None]) /\ UNCHANGED asked
PickTime(t) == /\ Stepping /\ step = "time" /\ <<draft.service, t>> \in Offered
               /\ Change([draft EXCEPT !.start = t]) /\ UNCHANGED asked
FillDetails(b) == /\ Stepping /\ step = "details" /\ Change([draft EXCEPT !.details = b]) /\ UNCHANGED asked
FillBilling(b) == /\ Stepping /\ step = "billing" /\ Change([draft EXCEPT !.billing = b]) /\ UNCHANGED asked
SetAnswer(a) == /\ Stepping /\ step = "forms" /\ a \in Inputs(Forms)
                /\ Change([draft EXCEPT !.answers[draft.service] = a]) /\ UNCHANGED asked

\* The settings reach the payment step (or a card is typed before).
SettlePayment == /\ Stepping /\ step = "pay" /\ draft.service \notin FreeServices
                 /\ Change([draft EXCEPT !.payment = "ready"]) /\ UNCHANGED asked

CanAdvance ==
    CASE step = "service" -> draft.service # None
      [] step = "time" -> draft.start # None
      [] step = "details" -> draft.details
      [] step = "forms" -> Forms # None => AnswerComplete(Forms, draft.answers[draft.service])
      [] step = "billing" -> draft.billing
      [] step = "pay" -> draft.service \in FreeServices \/ draft.payment = "ready"
      [] OTHER -> TRUE

Walk(s) == /\ step' = s
           /\ UNCHANGED <<place, ws, settings, draft, asked, loaded, submitting, leaving,
                          stored, calls, made, unshown>>

Back == /\ Stepping /\ Index(step) > 1
        /\ Walk(ActiveSteps[Index(step) - 1]) /\ UNCHANGED unseen

\* The button is busy while a booking is on its way.
Forward == /\ Stepping /\ step # "pay" /\ CanAdvance /\ ~submitting
           /\ Walk(ActiveSteps[Index(step) + 1])
           /\ unseen' = IF step \in {"details", "forms"} THEN loaded # draft.service ELSE unseen

\* The review has a row for the forms whenever something was answered; a step
\* that is not shown falls back to the details.
Edit(s) == /\ Stepping /\ step = "review" /\ s \in {"service", "time", "details", "forms", "billing"}
           /\ s = "forms" => \E x \in Services : draft.answers[x] # "none"
           /\ Walk(IF s = "forms" /\ Forms = None THEN "details" ELSE s)
           /\ UNCHANGED unseen

Submit ==
    /\ Stepping /\ step = "pay" /\ CanAdvance /\ ~submitting
    /\ submitting' = TRUE
    /\ \E i \in Slots \ Flying :
         calls' = [calls EXCEPT ![i] = [draft |-> draft, ws |-> ws, state |-> "sent", from |-> "page",
                                        late |-> leaving, unseen |-> unseen]]
    /\ UNCHANGED <<place, ws, settings, step, draft, asked, loaded, leaving, stored, made, ghosts>>

-----------------------------------------------------------------------------
(* The server. *)

Bookable(c) == /\ <<c.draft.service, c.draft.start>> \in Offered
               /\ WorkspaceOf[c.draft.service] = c.ws
               /\ AcceptsAnswers(c.draft)

Settle(i, state) == calls' = [calls EXCEPT ![i].state = state]

\* Each request has a key of its own, so that none is a replay.
ServerBooks(i) ==
    /\ i \in Flying /\ calls[i].state = "sent" /\ Bookable(calls[i]) /\ made < MaxMade
    /\ made' = made + 1
    /\ \/ Settle(i, "made")
          /\ unshown' = IF calls[i].from = "page" /\ ~calls[i].late THEN unshown ELSE unshown + 1
       \/ Settle(i, "failed") /\ unshown' = unshown + 1          \* the answer is lost
    /\ UNCHANGED <<tab, stored, unseen>>

\* Someone else has the slot, or the request is at fault.
ServerRefuses(i) ==
    /\ i \in Flying /\ calls[i].state = "sent" /\ Settle(i, "failed")
    /\ UNCHANGED <<tab, stored, made, ghosts>>

-----------------------------------------------------------------------------
(* The answer. *)

Confirmed(i) ==
    /\ i \in Flying /\ calls[i].state = "made" /\ calls[i].from # "gone"
    /\ stored' = None
    /\ submitting' = IF calls[i].from = "page" THEN FALSE ELSE submitting
    /\ leaving' = TRUE
    /\ calls' = [calls EXCEPT ![i] = None]
    /\ UNCHANGED <<place, ws, settings, step, draft, asked, loaded, made, ghosts>>

\* finally: a failed booking leaves the draft and gives the button back.
Failed(i) ==
    /\ i \in Flying /\ calls[i].state = "failed" /\ calls[i].from # "gone"
    /\ submitting' = IF calls[i].from = "page" THEN FALSE ELSE submitting
    /\ calls' = [calls EXCEPT ![i] = None]
    /\ UNCHANGED <<place, ws, settings, step, draft, asked, loaded, leaving, stored, made, ghosts>>

Unheard(i) ==
    /\ i \in Flying /\ calls[i].from = "gone" /\ calls[i].state # "sent"
    /\ calls' = [calls EXCEPT ![i] = None]
    /\ UNCHANGED <<tab, stored, made, ghosts>>

\* The pushed page replaces whatever is shown.
Navigate ==
    /\ leaving /\ Closed("confirmation") /\ made' = 0 /\ unshown' = 0 /\ unseen' = FALSE
    /\ calls' = LeftBehind /\ UNCHANGED stored

-----------------------------------------------------------------------------

Customer == \/ \E w \in Workspaces : Open(w)
            \/ Reload \/ Leave \/ PickDate \/ Back \/ Forward \/ Submit
            \/ \E s \in Services : SelectService(s)
            \/ \E t \in Starts : PickTime(t)
            \/ \E b \in BOOLEAN : FillDetails(b) \/ FillBilling(b)
            \/ \E a \in Answers : SetAnswer(a)
            \/ \E s \in Steps : Edit(s)
Hearing == \E i \in Slots : Confirmed(i) \/ Failed(i)
Environment == \/ SettingsArrive \/ FormsArrive \/ FormsFail \/ SettlePayment \/ Navigate
               \/ \E i \in Slots : ServerBooks(i) \/ ServerRefuses(i) \/ Unheard(i)
Next == Customer \/ Hearing \/ Environment

Spec == Init /\ [][Next]_vars

\* Requests are answered, and their continuations and the router's pushes run.
FairSpec == Spec /\ WF_vars(Hearing) /\ WF_vars(Navigate)
                 /\ \A i \in Slots : WF_vars(ServerBooks(i) \/ ServerRefuses(i))

-----------------------------------------------------------------------------

Sent == {calls[i] : i \in Flying}
Answered(d) == LET q == FormOf[d.service]
               IN  q # None /\ q.required => d.answers[d.service] \in {"text", "yes"}

\* However the customer walks, reloads and edits, a booking request carries a
\* service, a start, the required details and the billing address.
SentComplete == \A c \in Sent : /\ c.draft.service # None /\ c.draft.start # None
                                /\ c.draft.details /\ c.draft.billing

\* A required question goes unanswered only when the forms were not there yet (or had failed
\* to load) as the customer walked past their step.
RequiredAnswered == \A c \in Sent : c.unseen \/ Answered(c.draft)

\* What is booked without the answer was let through twice: by the page, which did not see
\* the forms, and by the server, which asks only for those that are due before the payment.
BookedAnswered ==
    \A c \in Sent : c.state = "made" /\ ~Answered(c.draft)
                        => c.unseen /\ ~FormOf[c.draft.service].beforePayment

\* A reload brings back what was typed, until a booking is confirmed (also one
\* of a page that was left: its answer takes the tab with it).
DraftIsStored == place = "page" /\ ~leaving => stored = draft

\* The customer has at most one booking more than those no confirmation is shown for: the
\* ones whose answer was lost, whose page was left before it, or that were ordered while a
\* confirmation was on its way.  With none of those a second press books nothing.
BookedOnce == made <= unshown + 1

\* A button that went busy comes back, or the page is left.
Awaited == IF submitting THEN {"save"} ELSE {}

\* docs/PRODUCT.md:430, the forms are "gated on required fields before payment": nothing is
\* booked without the answer to a required question.
GatedOnRequired == \A c \in Sent : c.state = "made" => Answered(c.draft)

\* FormFieldInput.tsx:13: the seven types of fields can be answered; what the page
\* lets through, the server does not refuse.
AnswersAccepted == \A c \in Sent : AcceptsAnswers(c.draft)

\* forms.service.ts:120: the forms attached to the service are what the flow shows;
\* a request answers no other form.
OnlyItsForms == \A c \in Sent : \A s \in Services : c.draft.answers[s] # "none" => s = c.draft.service

\* PublicBookingFlow.tsx:40: the workspace is selected before the page renders; what
\* it books is a service of that workspace.
OfItsWorkspace == \A c \in Sent : WorkspaceOf[c.draft.service] = c.ws

\* server/README.md:106, the bookings of the public page have "idempotency": a press that is
\* repeated because no confirmation came books once.
RetriesBookOnce == made <= 1
=============================================================================
