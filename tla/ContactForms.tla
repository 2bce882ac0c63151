---------------------------- MODULE ContactForms ----------------------------
(***************************************************************************)
(* The contact dialog and the pilot's application (web/src: components/    *)
(* public/ContactModal.tsx, PilotApplication.tsx; services/                *)
(* platform.service.ts) with the server's inquiries and their hourly limit *)
(* (slotera_api: api/platform_extras.py).                                  *)
(*                                                                         *)
(* The dialog stays mounted where it is closed, so the answer to one       *)
(* message may find the dialog opened for the next.  A text stands for the *)
(* fields of a form; two requests alike are not under way at once, which   *)
(* is a bound.                                                             *)
(***************************************************************************)
EXTENDS Naturals, FiniteSets

CONSTANTS Texts,      \* what may be typed; "" is not valid
          Presets,    \* what the dialog is filled with when it opens
          persist,    \* how the dialog's caller asks for it
          dataSource, \* "api" or "mock"
          Limit,      \* messages of a scope in an hour
          MaxSends,   \* requests under way
          None

FormsAssumption ==
    /\ "" \in Texts /\ Presets \subseteq Texts /\ persist \in BOOLEAN
    /\ dataSource \in {"api", "mock"} /\ Limit \in Nat \ {0} /\ MaxSends \in Nat

VARIABLES contact, \* the dialog
          preset,  \* what its caller fills it with, which follows the page
          pilot,   \* the application; None when its page is not shown
          sends,   \* requests under way
          used,    \* the hour's count, by scope
          inbox    \* what was recorded, by scope

vars == <<contact, preset, pilot, sends, used, inbox>>

Scopes == {"public_inquiry", "pilot_application"}
emptyForm(p) == [open |-> TRUE, text |-> p, submitting |-> FALSE, success |-> FALSE]
EMPTY == [text |-> "", consent |-> FALSE, busy |-> FALSE, done |-> FALSE, error |-> None]
Sends == [scope: Scopes, text: Texts, status: {"sent", "accepted", "limited"}, gone: BOOLEAN]

TypeOK == /\ contact \in [open: BOOLEAN, text: Texts, submitting: BOOLEAN, success: BOOLEAN]
          /\ preset \in Presets
          /\ pilot = None \/ pilot \in [text: Texts, consent: BOOLEAN, busy: BOOLEAN, done: BOOLEAN,
                                        error: {None, "pilot.rateLimited", "pilot.error"}]
          /\ sends \subseteq Sends /\ Cardinality(sends) <= MaxSends
          /\ used \in [Scopes -> 0 .. Limit] /\ inbox \in [Scopes -> SUBSET Texts]
          \* a busy form waits for a request of its own
          /\ contact.submitting => \E s \in sends : s.scope = "public_inquiry"
          /\ pilot # None => (pilot.busy =>
                 \E s \in sends : s.scope = "pilot_application" /\ ~s.gone)

Init == /\ preset \in Presets
        /\ contact = [emptyForm(preset) EXCEPT !.open = FALSE]
        /\ pilot = None /\ sends = {}
        /\ used = [c \in Scopes |-> 0] /\ inbox = [c \in Scopes |-> {}]

Send(scope, text) ==
    LET s == [scope |-> scope, text |-> text, status |-> "sent", gone |-> FALSE]
    IN  s \notin sends /\ Cardinality(sends) < MaxSends /\ sends' = sends \cup {s}

Becomes(s, status) == sends' = (sends \ {s}) \cup {[s EXCEPT !.status = status]}

-----------------------------------------------------------------------------
(* The dialog. *)

Open ==
    /\ ~contact.open
    /\ contact' = emptyForm(preset)
    /\ UNCHANGED <<preset, pilot, sends, used, inbox>>

\* Cancel, Escape, X and the backdrop, also while a message is sent.
Close ==
    /\ contact.open
    /\ contact' = [contact EXCEPT !.open = FALSE]
    /\ UNCHANGED <<preset, pilot, sends, used, inbox>>

\* Another page, by the browser's buttons: what fills the dialog changes, and
\* an open one is filled again.
Navigate(p) ==
    /\ p # preset
    /\ preset' = p
    /\ contact' = IF contact.open THEN emptyForm(p) ELSE contact
    /\ UNCHANGED <<pilot, sends, used, inbox>>

Type(x) ==
    /\ contact.open /\ ~contact.success /\ contact.text # x
    /\ contact' = [contact EXCEPT !.text = x]
    /\ UNCHANGED <<preset, pilot, sends, used, inbox>>

submit ==
    /\ contact.open /\ ~contact.success /\ ~contact.submitting /\ contact.text # ""
    /\ contact' = [contact EXCEPT !.submitting = TRUE]
    /\ Send("public_inquiry", contact.text)
    /\ UNCHANGED <<preset, pilot, used, inbox>>

-----------------------------------------------------------------------------
(* The pilot's application. *)

VisitPilot ==
    /\ pilot = None
    /\ pilot' = EMPTY
    /\ UNCHANGED <<contact, preset, sends, used, inbox>>

LeavePilot ==
    /\ pilot # None
    /\ pilot' = None
    /\ sends' = {IF s.scope = "pilot_application" THEN [s EXCEPT !.gone = TRUE] ELSE s : s \in sends}
    /\ UNCHANGED <<contact, preset, used, inbox>>

Fill(x, c) ==
    /\ pilot # None /\ ~pilot.done /\ <<pilot.text, pilot.consent>> # <<x, c>>
    /\ pilot' = [pilot EXCEPT !.text = x, !.consent = c]
    /\ UNCHANGED <<contact, preset, sends, used, inbox>>

Apply ==
    /\ pilot # None /\ ~pilot.done /\ ~pilot.busy /\ pilot.text # "" /\ pilot.consent
    /\ pilot' = [pilot EXCEPT !.busy = TRUE, !.error = None]
    /\ Send("pilot_application", pilot.text)
    /\ UNCHANGED <<contact, preset, used, inbox>>

-----------------------------------------------------------------------------
(* The server.  The demo waits and records nothing. *)

Records == dataSource = "api"

create_inquiry(s) ==
    /\ s.status = "sent" /\ (Records => used[s.scope] < Limit)
    /\ IF Records THEN /\ used' = [used EXCEPT ![s.scope] = @ + 1]
                       /\ inbox' = [inbox EXCEPT ![s.scope] = @ \cup {s.text}]
                  ELSE UNCHANGED <<used, inbox>>
    /\ Becomes(s, "accepted")
    /\ UNCHANGED <<contact, preset, pilot>>

\* consume_rate_limit refuses before anything is recorded.
Limited(s) ==
    /\ s.status = "sent" /\ Records /\ used[s.scope] = Limit
    /\ Becomes(s, "limited")
    /\ UNCHANGED <<contact, preset, pilot, used, inbox>>

HourPasses(scope) ==
    /\ used[scope] > 0
    /\ used' = [used EXCEPT ![scope] = 0]
    /\ UNCHANGED <<contact, preset, pilot, sends, inbox>>

-----------------------------------------------------------------------------
(* The answers. *)

\* Whichever form is shown by then.
Outcome(s, success, error) ==
    CASE s.scope = "public_inquiry" ->
            /\ contact' = [contact EXCEPT !.submitting = FALSE, !.success = @ \/ success]
            /\ UNCHANGED pilot
      [] s.scope = "pilot_application" /\ ~s.gone ->
            /\ pilot' = [pilot EXCEPT !.busy = FALSE, !.done = success, !.error = error]
            /\ UNCHANGED contact
      [] OTHER -> UNCHANGED <<contact, pilot>>

Answered(s) ==
    /\ s.status = "accepted"
    /\ sends' = sends \ {s}
    /\ Outcome(s, TRUE, None)
    /\ UNCHANGED <<preset, used, inbox>>

\* Refused, or lost before or after it was recorded; the dialog says nothing.
Failed(s) ==
    /\ Records
    /\ sends' = sends \ {s}
    /\ Outcome(s, FALSE, IF s.status = "limited" THEN "pilot.rateLimited" ELSE "pilot.error")
    /\ UNCHANGED <<preset, used, inbox>>

-----------------------------------------------------------------------------

Next == \/ Open \/ Close \/ submit \/ VisitPilot \/ LeavePilot \/ Apply
        \/ \E p \in Presets : Navigate(p)
        \/ \E x \in Texts : Type(x) \/ \E c \in BOOLEAN : Fill(x, c)
        \/ \E s \in sends : create_inquiry(s) \/ Limited(s) \/ Answered(s) \/ Failed(s)
        \/ \E c \in Scopes : HourPasses(c)

Spec == Init /\ [][Next]_vars

\* Every request is answered or fails in the end.
FairSpec == Spec /\ \A s \in Sends : WF_vars(s \in sends /\ (Answered(s) \/ Failed(s)))

-----------------------------------------------------------------------------
(* A form that says its message arrived is right about one of them, with   *)
(* requests lost, refused by the limit and left behind.                    *)
SuccessIsRecorded ==
    /\ contact.success => inbox["public_inquiry"] # {}
    /\ pilot # None => (pilot.done => inbox["pilot_application"] # {})

(* Whatever becomes of the requests, both forms are ready again.           *)
Awaited == (IF contact.submitting THEN {"save"} ELSE {})
           \cup (IF pilot = None THEN {} ELSE IF pilot.busy THEN {"apply"} ELSE {})
(* "Message sent.": the dialog that says so was recorded as it is filled.  *)
SentIsThis ==
    contact.open /\ contact.success => contact.text \in inbox["public_inquiry"]

(* "nothing was actually sent": a dialog that says so recorded nothing.    *)
NothingIsNothing ==
    contact.open /\ contact.success /\ ~persist => inbox["public_inquiry"] = {}

=============================================================================
